---------------------------- MODULE StoreProofs ----------------------------
(***************************************************************************)
(* Proofs about Store for every number of atoms, bubbles, names, threads   *)
(* and every bound: type correctness, the structural invariants of the     *)
(* data, and the law of the collector.                                     *)
(***************************************************************************)
EXTENDS Store, TLAPS

USE SizesAssumption DEF AtomId, BubbleId, NoBubble, Temp, Token, NoToken, Binding

-----------------------------------------------------------------------------
(* Arithmetic and inputs *)

LEMMA TempFacts ==
  ASSUME NEW x \in Temp, NEW n \in Nat
  PROVE  Cooled(x, n) \in Temp /\ Heated(x, n) \in Temp
  BY DEF Cooled, Heated, Upper, Lower

LEMMA HeatFacts ==
  ASSUME NEW x \in Temp
  PROVE  Heated(x, HeatRead) \in Temp /\ WriteHeat(x) \in Temp
  BY TempFacts DEF WriteHeat

LEMMA NextIdFacts ==
  ASSUME NEW a \in AtomId
  PROVE  NextId(a) \in AtomId /\ (NextId(a) = MaxAtomId \/ NextId(a) = a + 1)
  BY DEF NextId, Lower

LEMMA NextBubbleIdFacts ==
  ASSUME NEW b \in BubbleId
  PROVE  /\ NextBubbleId(b) \in BubbleId
         /\ NextBubbleId(b) = MaxBubbleId \/ NextBubbleId(b) = b + 1
  BY DEF NextBubbleId, Lower

LEMMA EntryFacts ==
  ASSUME NEW e \in EntryType
  PROVE  /\ DOMAIN e \subseteq AtomId
         /\ \A a \in DOMAIN e : e[a].t \in Temp /\ e[a].tok \in Token
<1>1. PICK K \in SUBSET AtomId : e \in [K -> [t : Temp, tok : Token]]
  BY DEF EntryType
<1>2. QED
  BY <1>1

LEMMA SnapshotFacts ==
  ASSUME NEW s \in Snapshots
  PROVE  /\ s \in SnapshotType
         /\ s.atoms \in EntryType
         /\ DOMAIN s.atoms \subseteq AtomId
         /\ \A a \in DOMAIN s.atoms : s.atoms[a].t \in Temp /\ s.atoms[a].tok \in Token
<1>1. s \in SnapshotType /\ s.atoms \in EntryType
  BY InputsAssumption DEF SnapshotType
<1>2. QED
  BY <1>1, EntryFacts

-----------------------------------------------------------------------------
(* Type correctness of the data *)

LEMMA PurgeType ==
  ASSUME DataTypeOK, NEW D, PurgeBindings(D)
  PROVE  binds' \in [BubbleId -> [Name -> Binding]]
  BY DEF DataTypeOK, PurgeBindings

LEMMA AtomOpType ==
  ASSUME DataTypeOK, NEW a \in AtomId, NEW t \in Temp, NEW k \in Token,
         \/ AtomNew(t)
         \/ AtomSetGuest(a, k)
         \/ AtomSetT(a, t)
         \/ AtomUpsert(a, t, k)
         \/ Heat(a)
         \/ DeleteAtom(a)
  PROVE  DataTypeOK'
<1>1. CASE AtomNew(t)
  BY <1>1, NextIdFacts DEF DataTypeOK, AtomNew, PutAtom, bubbleVars
<1>2. CASE AtomSetGuest(a, k)
  <2>1. WriteHeat(temp[a]) \in Temp
    BY HeatFacts DEF DataTypeOK
  <2>2. temp' \in [AtomId -> Temp] /\ tok' \in [AtomId -> Token]
    BY <1>2, <2>1 DEF DataTypeOK, AtomSetGuest
  <2>3. QED
    BY <1>2, <2>2 DEF DataTypeOK, AtomSetGuest, bubbleVars
<1>3. CASE AtomSetT(a, t)
  BY <1>3 DEF DataTypeOK, AtomSetT, bubbleVars
<1>4. CASE AtomUpsert(a, t, k)
  BY <1>4, NextIdFacts DEF DataTypeOK, AtomUpsert, PutAtom, bubbleVars
<1>5. CASE Heat(a)
  BY <1>5, HeatFacts DEF DataTypeOK, Heat, bubbleVars
<1>6. CASE DeleteAtom(a)
  <2>1. binds' \in [BubbleId -> [Name -> Binding]]
    BY <1>6, PurgeType DEF DeleteAtom, RemoveAtoms
  <2>2. 0 \in Temp /\ NoToken \in Token
    BY SizesAssumption DEF Temp, Token, NoToken, BubbleId
  <2>3. temp' \in [AtomId -> Temp] /\ tok' \in [AtomId -> Token]
    BY <1>6, <2>2 DEF DataTypeOK, DeleteAtom, RemoveAtoms
  <2>4. atoms' \subseteq AtomId /\ retained' \subseteq AtomId
    BY <1>6 DEF DataTypeOK, DeleteAtom, RemoveAtoms
  <2>5. QED
    BY <1>6, <2>1, <2>3, <2>4 DEF DataTypeOK, DeleteAtom, bubbleVars
<1>7. QED
  BY <1>1, <1>2, <1>3, <1>4, <1>5, <1>6

LEMMA RestoreType ==
  ASSUME DataTypeOK, NEW e \in Rollbacks, RestoreAtoms(e)
  PROVE  DataTypeOK'
<1>1. e \in EntryType
  BY InputsAssumption
<1>2. nextAtom' \in AtomId
  BY NextIdFacts DEF DataTypeOK, RestoreAtoms, Upper
<1>3. binds' \in [BubbleId -> [Name -> Binding]]
  BY PurgeType DEF RestoreAtoms
<1>4. temp' \in [AtomId -> Temp] /\ tok' \in [AtomId -> Token] /\ atoms' \subseteq AtomId
  BY <1>1, EntryFacts DEF RestoreAtoms
<1>5. QED
  BY <1>2, <1>3, <1>4 DEF DataTypeOK, RestoreAtoms, bubbleVars

LEMMA BubbleNewType ==
  ASSUME DataTypeOK, NEW p \in Token, BubbleNew(p)
  PROVE  DataTypeOK'
<1>1. nextBubble' \in BubbleId /\ bubbles' \subseteq BubbleId
  BY NextBubbleIdFacts DEF DataTypeOK, BubbleNew
<1>2. intact' \in BOOLEAN
  BY Zenon DEF BubbleNew
<1>3. parent' \in [BubbleId -> Token] /\ binds' \in [BubbleId -> [Name -> Binding]]
  BY DEF DataTypeOK, BubbleNew, NoBindings
<1>4. UNCHANGED <<thermal, atomVars, roots, envHook, retained>>
  BY DEF BubbleNew
<1>5. QED
  BY <1>1, <1>2, <1>3, <1>4 DEF DataTypeOK, atomVars

LEMMA BubbleOpType ==
  ASSUME DataTypeOK, NEW p \in Token, NEW b \in BubbleId, NEW n \in Name,
         NEW a \in AtomId, NEW on \in BOOLEAN,
         \/ BubbleNew(p)
         \/ Bind(b, n, a)
         \/ Unbind(b, n)
         \/ Lookup(b, n)
         \/ SetRoot(b)
         \/ UnsetRoot(b)
         \/ SetEnvHook(on)
  PROVE  DataTypeOK'
<1>1. CASE BubbleNew(p)
  BY <1>1, BubbleNewType
<1>2. CASE Bind(b, n, a)
  BY <1>2 DEF DataTypeOK, Bind, atomVars, bubbleVars
<1>3. CASE Unbind(b, n)
  BY <1>3 DEF DataTypeOK, Unbind, atomVars, bubbleVars
<1>4. CASE Lookup(b, n)
  <2>1. PICK x : temp' = [temp EXCEPT ![x] = Heated(@, HeatRead)]
    BY <1>4 DEF Lookup
  <2>2. temp' \in [AtomId -> Temp]
    BY <2>1, HeatFacts DEF DataTypeOK
  <2>3. QED
    BY <1>4, <2>2 DEF DataTypeOK, Lookup, bubbleVars
<1>5. CASE SetRoot(b)
  BY <1>5 DEF DataTypeOK, SetRoot, atomVars, bubbleVars
<1>6. CASE UnsetRoot(b)
  BY <1>6 DEF DataTypeOK, UnsetRoot, atomVars, bubbleVars
<1>7. CASE SetEnvHook(on)
  BY <1>7 DEF DataTypeOK, SetEnvHook, atomVars, bubbleVars
<1>8. QED
  BY <1>1, <1>2, <1>3, <1>4, <1>5, <1>6, <1>7

LEMMA ImportType ==
  ASSUME DataTypeOK, NEW s \in Snapshots, ImportSnapshot(s)
  PROVE  DataTypeOK'
<1>1. /\ s.thermal \in BOOLEAN
      /\ s.bubbles \subseteq BubbleId
      /\ s.parent \in [BubbleId -> Token]
      /\ s.binds \in [BubbleId -> [Name -> Binding]]
      /\ s.roots \subseteq BubbleId
  BY SnapshotFacts DEF SnapshotType
<1>2. nextAtom' \in AtomId /\ nextBubble' \in BubbleId
  BY DEF ImportSnapshot
<1>3. binds' \in [BubbleId -> [Name -> Binding]]
  BY <1>1 DEF ImportSnapshot
<1>4. temp' \in [AtomId -> Temp] /\ tok' \in [AtomId -> Token] /\ atoms' \subseteq AtomId
  BY SnapshotFacts DEF ImportSnapshot
<1>5. parent' \in [BubbleId -> Token]
  BY <1>1 DEF ImportSnapshot
<1>6. intact' \in BOOLEAN
  BY Zenon DEF ImportSnapshot, ClosedSnapshot
<1>7. QED
  BY <1>1, <1>2, <1>3, <1>4, <1>5, <1>6 DEF DataTypeOK, ImportSnapshot

LEMMA ApplyType ==
  ASSUME DataTypeOK, NEW reach, NEW reap, ApplyReach(reach, reap)
  PROVE  DataTypeOK'
<1> DEFINE cool   == [a \in AtomId |-> IF a \in atoms THEN Cooled(temp[a], 1) ELSE 0]
           dead   == {a \in atoms : IsDead(cool[a])}
           doomed == IF reap THEN dead \ reach ELSE {}
<1>1. temp' = cool /\ RemoveAtoms(doomed)
  BY DEF ApplyReach
<1>2. cool \in [AtomId -> Temp]
  <2>1. \A a \in AtomId : Cooled(temp[a], 1) \in Temp
    BY TempFacts DEF DataTypeOK
  <2>2. QED
    BY <2>1
<1>3. retained' \subseteq AtomId
  BY DEF ApplyReach, DataTypeOK
<1>4. binds' \in [BubbleId -> [Name -> Binding]]
  BY <1>1, PurgeType DEF RemoveAtoms
<1>5. atoms' \subseteq AtomId /\ tok' \in [AtomId -> Token]
  BY <1>1 DEF RemoveAtoms, DataTypeOK
<1>6. QED
  BY <1>1, <1>2, <1>3, <1>4, <1>5 DEF ApplyReach, DataTypeOK, bubbleVars

LEMMA CoolType ==
  ASSUME DataTypeOK, NEW ids \in SUBSET AtomId, NEW steps \in [ids -> 0 .. TMax],
         CoolAtoms(steps)
  PROVE  DataTypeOK'
<1>1. ASSUME NEW a \in ids PROVE Cooled(temp[a], steps[a]) \in Temp
  <2>1. temp[a] \in Temp /\ steps[a] \in Nat
    BY DEF DataTypeOK
  <2>2. QED
    BY <2>1, TempFacts
<1>2. temp' = [a \in AtomId |-> IF a \in ids \cap atoms
                                 THEN Cooled(temp[a], steps[a]) ELSE temp[a]]
  <2>1. DOMAIN steps = ids
    OBVIOUS
  <2>2. QED
    BY <2>1 DEF CoolAtoms
<1>3. temp' \in [AtomId -> Temp]
  BY <1>1, <1>2 DEF DataTypeOK
<1>4. QED
  BY <1>3 DEF DataTypeOK, CoolAtoms, bubbleVars

LEMMA RefreshType ==
  ASSUME DataTypeOK, NEW reach, RefreshRetained(reach)
  PROVE  DataTypeOK'
  BY DEF DataTypeOK, RefreshRetained, atomVars, bubbleVars

-----------------------------------------------------------------------------
(* Type correctness of the store *)

(* A store operation changes the data the way one of these lemmas covers,  *)
(* and of the rest only reach_gen, ticking, the pins and their history.    *)
LEMMA StoreOpType ==
  ASSUME TypeOK, StoreOp
  PROVE  DataTypeOK'
<1> USE DEF TypeOK
<1>1. CASE NewAtom
  <2>1. PICK t \in {TInit, 0} : AtomNew(t)
    BY <1>1 DEF NewAtom, Quiet
  <2>2. t \in Temp
    OBVIOUS
  <2>3. QED
    BY <2>1, <2>2, AtomOpType
<1>2. CASE ChangeAtom
  <2>1. PICK a \in AtomId, t \in Temp, k \in Token :
          AtomSetGuest(a, k) \/ AtomUpsert(a, t, k) \/ AtomSetT(a, t) \/ Heat(a) \/ DeleteAtom(a)
    BY <1>2 DEF ChangeAtom, Quiet, Loud
  <2>2. QED
    BY <2>1, AtomOpType
<1>3. CASE Rollback
  BY <1>3, RestoreType DEF Rollback, Loud
<1>4. CASE NewBubble
  <2>1. PICK p \in Token : BubbleNew(p)
    BY <1>4 DEF NewBubble, Quiet
  <2>2. QED
    BY <2>1, BubbleNewType
<1>5. CASE ChangeBinding
  <2>1. PICK b \in BubbleId, n \in Name, a \in AtomId : Bind(b, n, a) \/ Unbind(b, n) \/ Lookup(b, n)
    BY <1>5 DEF ChangeBinding, Quiet, Loud
  <2>2. QED
    BY <2>1, BubbleOpType
<1>6. CASE ChangeRoot
  BY <1>6 DEF ChangeRoot, Quiet, Loud, SetRoot, UnsetRoot, DataTypeOK, atomVars, bubbleVars
<1>7. CASE ChangeEnvHook
  BY <1>7 DEF ChangeEnvHook, Quiet, Loud, SetEnvHook, DataTypeOK, atomVars, bubbleVars
<1>8. CASE Import
  BY <1>8, ImportType DEF Import
<1>9. CASE HookOp
  BY <1>9 DEF HookOp, RegisterExtraReach, UnregisterExtraReach, Pin, Unpin, data, DataTypeOK
<1>10. QED
  BY <1>1, <1>2, <1>3, <1>4, <1>5, <1>6, <1>7, <1>8, <1>9 DEF StoreOp

ControlTypeOK ==
  /\ ticking \in BOOLEAN
  /\ reachGen \in 0 .. MaxGen
  /\ extraHook \in BOOLEAN
  /\ pins \subseteq Pinnable
  /\ pc \in [Thread -> {"idle"} \cup TickPC \cup CoolPC]
  /\ snap \in [Thread -> SnapType]

LEMMA TypeSplit == TypeOK <=> DataTypeOK /\ ControlTypeOK
  BY DEF TypeOK, ControlTypeOK

LEMMA StoreOpControlType ==
  ASSUME TypeOK, StoreOp
  PROVE  ControlTypeOK'
<1> USE StoreAssumption DEF TypeOK
<1>1. CASE UNCHANGED <<ticking, reachGen, hooks, calls>>
  BY <1>1 DEF ControlTypeOK, hooks, calls
<1>2. CASE TouchReach /\ UNCHANGED <<hooks, calls>> /\ ticking' \in BOOLEAN
  BY <1>2 DEF ControlTypeOK, hooks, calls, TouchReach
<1>3. CASE HookOp
  <2>1. CASE RegisterExtraReach
    BY <1>3, <2>1 DEF RegisterExtraReach, TouchReach, ControlTypeOK, calls
  <2>2. ASSUME NEW gone, Forget(gone)
        PROVE  snap' \in [Thread -> SnapType]
    <3>1. ASSUME NEW t \in Thread
          PROVE  [snap[t] EXCEPT !.held = @ \ gone] \in SnapType
      <4>1. snap[t] \in SnapType
        OBVIOUS
      <4>2. QED
        BY ONLY <4>1 DEF SnapType
    <3>2. QED
      BY <2>2, <3>1 DEF Forget
  <2>3. CASE UnregisterExtraReach
    BY <2>2, <2>3 DEF UnregisterExtraReach, ControlTypeOK
  <2>4. CASE \E a \in AtomId : Pin(a)
    BY <2>4 DEF Pin, ControlTypeOK, calls
  <2>5. CASE \E a \in AtomId : Unpin(a)
    BY <2>2, <2>5 DEF Unpin, ControlTypeOK
  <2>6. QED
    BY <1>3, <2>1, <2>3, <2>4, <2>5 DEF HookOp
<1>4. QED
  BY <1>1, <1>2, <1>3 DEF StoreOp, NewAtom, ChangeAtom, Rollback, NewBubble,
     ChangeBinding, ChangeRoot, ChangeEnvHook, Import, Loud, Quiet

LEMMA ReachAtomsType == ASSUME TypeOK PROVE ReachAtoms \subseteq AtomId
  BY DEF ReachAtoms, TypeOK, DataTypeOK

LEMMA SnapStepType ==
  ASSUME TypeOK, NEW t \in Thread,
         \/ TakeSnap(t)
         \/ Walked(t)
         \/ snap' = [snap EXCEPT ![t] = NoSnap]
         \/ \E ids \in SUBSET AtomId : snap' = [snap EXCEPT ![t].ids = ids]
  PROVE  snap' \in [Thread -> SnapType]
<1> USE StoreAssumption DEF TypeOK, SnapType
<1>1. CASE TakeSnap(t)
  <2>1. [gen |-> reachGen, reach |-> ReachAtoms, extra |-> extraHook, ids |-> {},
         held |-> IF extraHook THEN pins ELSE {}] \in SnapType
    BY ReachAtomsType
  <2>2. QED
    BY <1>1, <2>1 DEF TakeSnap
<1>2. CASE Walked(t)
  <2>1. snap[t].reach \cup (IF snap[t].extra THEN pins ELSE {}) \in SUBSET AtomId
    OBVIOUS
  <2>2. QED
    BY <1>2, <2>1 DEF Walked
<1>3. CASE snap' = [snap EXCEPT ![t] = NoSnap]
  BY <1>3 DEF NoSnap
<1>4. CASE \E ids \in SUBSET AtomId : snap' = [snap EXCEPT ![t].ids = ids]
  BY <1>4
<1>5. QED
  BY <1>1, <1>2, <1>3, <1>4

LEMMA ThreadStepType ==
  ASSUME TypeOK, NEW t \in Thread, TickStep(t) \/ HookPanics(t) \/ DecayStep(t)
  PROVE  TypeOK'
<1> USE DEF TypeOK
<1>1. pc' \in [Thread -> {"idle"} \cup TickPC \cup CoolPC]
  BY DEF TickStep, HookPanics, DecayStep, Step, TickPC, CoolPC, TickBegin, TickWalk,
     TickApply, TickEnd, DecayList, DecayCool, DecayNothing, DecaySnap, DecayWalk, DecayPanics, DecayRefresh
<1>2. UNCHANGED <<reachGen, hooks>> /\ ticking' \in BOOLEAN
  BY DEF TickStep, HookPanics, DecayStep, TickBegin, TickWalk, TickApply, TickEnd,
     DecayList, DecayCool, DecayNothing, DecaySnap, DecayWalk, DecayPanics, DecayRefresh
<1>3. snap' \in [Thread -> SnapType]
  <2>1. CASE UNCHANGED snap
    BY <2>1
  <2>2. QED
    BY <2>1, SnapStepType DEF TickStep, HookPanics, DecayStep, TickBegin, TickWalk, TickApply,
       TickEnd, DecayList, DecayCool, DecayNothing, DecaySnap, DecayWalk, DecayPanics, DecayRefresh
<1>4. DataTypeOK'
  <2>1. CASE UNCHANGED data
    BY <2>1 DEF data, DataTypeOK
  <2>2. CASE TickApply(t)
    BY <2>2, ApplyType DEF TickApply
  <2>3. CASE DecayCool(t)
    <3>1. PICK steps \in [snap[t].ids -> 0 .. TMax] : CoolAtoms(steps)
      BY <2>3 DEF DecayCool
    <3>2. snap[t].ids \in SUBSET AtomId
      BY DEF SnapType
    <3>3. QED
      BY <3>1, <3>2, CoolType
  <2>4. CASE DecayRefresh(t)
    BY <2>4, RefreshType DEF DecayRefresh
  <2>5. QED
    BY <2>1, <2>2, <2>3, <2>4 DEF TickStep, HookPanics, DecayStep, TickBegin, TickWalk,
       TickEnd, DecayList, DecayNothing, DecaySnap, DecayWalk, DecayPanics
<1>5. QED
  BY <1>1, <1>2, <1>3, <1>4 DEF hooks

LEMMA InitType == Init => TypeOK
<1> SUFFICES ASSUME Init PROVE TypeOK
  OBVIOUS
<1>1. DataTypeOK
  <2>1. thermal \in BOOLEAN /\ envHook \in BOOLEAN /\ intact \in BOOLEAN
    BY SizesAssumption, Zenon DEF Init, DataInit
  <2>2. binds \in [BubbleId -> [Name -> Binding]]
    BY DEF Init, DataInit, NoBindings
  <2>3. QED
    <3>1. /\ temp \in [AtomId -> Temp] /\ tok \in [AtomId -> Token]
          /\ parent \in [BubbleId -> Token]
      BY DEF Init, DataInit
    <3>2. atoms \subseteq AtomId /\ bubbles \subseteq BubbleId /\ roots \subseteq BubbleId
          /\ retained \subseteq AtomId
      BY DEF Init, DataInit
    <3>3. nextAtom \in AtomId /\ nextBubble \in BubbleId
      BY DEF Init, DataInit
    <3>4. QED
      BY <2>1, <2>2, <3>1, <3>2, <3>3 DEF DataTypeOK
<1>2. NoSnap \in SnapType
  BY StoreAssumption DEF NoSnap, SnapType
<1>3. pc \in [Thread -> {"idle"} \cup TickPC \cup CoolPC]
  BY DEF Init
<1>4. snap \in [Thread -> SnapType]
  BY <1>2 DEF Init
<1>5. ticking \in BOOLEAN /\ extraHook \in BOOLEAN
  BY Zenon DEF Init
<1>6. reachGen \in 0 .. MaxGen /\ pins \subseteq Pinnable
  BY StoreAssumption DEF Init
<1>7. QED
  BY <1>1, <1>3, <1>4, <1>5, <1>6 DEF TypeOK

LEMMA NextType == TypeOK /\ [Next]_vars => TypeOK'
<1> SUFFICES ASSUME TypeOK, [Next]_vars PROVE TypeOK'
  OBVIOUS
<1>1. CASE StoreOp
  BY <1>1, StoreOpType, StoreOpControlType, TypeSplit DEF TypeOK, ControlTypeOK
<1>2. CASE \E t \in Thread : TickStep(t) \/ HookPanics(t) \/ DecayStep(t)
  BY <1>2, ThreadStepType
<1>3. CASE UNCHANGED vars
  BY <1>3 DEF vars, data, hooks, calls, TypeOK, DataTypeOK
<1>4. QED
  BY <1>1, <1>2, <1>3 DEF Next

(* Every variable of the Store keeps its type: whatever the callers do and *)
(* however ticks, decays and imports interleave.                           *)
THEOREM TypeCorrect == Spec => []TypeOK
  BY InitType, NextType, PTL DEF Spec

-----------------------------------------------------------------------------
(* The structure of the data *)

StructInv == NoDanglingBinding /\ RetainedPresent /\ FreshAtomId

LEMMA PurgeKeeps ==
  ASSUME DataTypeOK, NoDanglingBinding, NEW D, PurgeBindings(D), atoms' = atoms \ D
  PROVE  NoDanglingBinding'
  BY DEF DataTypeOK, NoDanglingBinding, PurgeBindings

LEMMA AtomOpStruct ==
  ASSUME DataTypeOK, StructInv, NEW a \in AtomId, NEW t \in Temp, NEW k \in Token,
         \/ AtomNew(t)
         \/ AtomSetGuest(a, k)
         \/ AtomSetT(a, t)
         \/ AtomUpsert(a, t, k)
         \/ Heat(a)
         \/ DeleteAtom(a)
  PROVE  StructInv'
<1> USE DEF DataTypeOK, StructInv
<1>1. CASE AtomNew(t)
  <2>1. atoms' = atoms \cup {nextAtom} /\ nextAtom' = NextId(nextAtom)
        /\ UNCHANGED <<binds, retained>>
    BY <1>1 DEF AtomNew, PutAtom
  <2>2. NoDanglingBinding' /\ RetainedPresent'
    BY <2>1 DEF NoDanglingBinding, RetainedPresent
  <2>3. FreshAtomId'
    BY <2>1, NextIdFacts DEF FreshAtomId
  <2>4. QED
    BY <2>2, <2>3
<1>2. CASE AtomSetGuest(a, k) \/ AtomSetT(a, t) \/ Heat(a)
  <2>1. UNCHANGED <<atoms, nextAtom, binds, retained>>
    BY <1>2 DEF AtomSetGuest, AtomSetT, Heat
  <2>2. QED
    BY <2>1 DEF NoDanglingBinding, RetainedPresent, FreshAtomId
<1>3. CASE AtomUpsert(a, t, k)
  <2>0. /\ atoms' = atoms \cup {a} /\ binds' = binds
        /\ retained' \subseteq retained
    BY <1>3 DEF AtomUpsert, PutAtom
  <2>1. NoDanglingBinding' /\ RetainedPresent'
    BY <2>0 DEF NoDanglingBinding, RetainedPresent
  <2>2. FreshAtomId'
    <3>1. nextAtom' = IF a >= nextAtom THEN NextId(a) ELSE nextAtom
      BY <1>3 DEF AtomUpsert
    <3>2. CASE a >= nextAtom
      <4>1. NextId(a) \in AtomId /\ (NextId(a) = MaxAtomId \/ NextId(a) = a + 1)
        BY NextIdFacts
      <4>2. \A x \in atoms : x <= a
        BY <3>2 DEF FreshAtomId
      <4>3. QED
        BY <2>0, <3>1, <3>2, <4>1, <4>2 DEF FreshAtomId
    <3>3. CASE ~ (a >= nextAtom)
      BY <2>0, <3>1, <3>3 DEF FreshAtomId
    <3>4. QED
      BY <3>2, <3>3
  <2>3. QED
    BY <2>1, <2>2
<1>4. CASE DeleteAtom(a)
  <2>1. NoDanglingBinding'
    BY <1>4, PurgeKeeps DEF DeleteAtom, RemoveAtoms
  <2>2. QED
    BY <1>4, <2>1 DEF DeleteAtom, RemoveAtoms, RetainedPresent, FreshAtomId
<1>5. QED
  BY <1>1, <1>2, <1>3, <1>4

LEMMA RestoreStruct ==
  ASSUME DataTypeOK, StructInv, NEW e \in Rollbacks, RestoreAtoms(e)
  PROVE  StructInv'
<1> USE DEF DataTypeOK, StructInv
<1>1. DOMAIN e \subseteq AtomId
  BY InputsAssumption, EntryFacts
<1>2. NoDanglingBinding'
  BY DEF RestoreAtoms, PurgeBindings, NoDanglingBinding
<1>3. RetainedPresent'
  BY DEF RestoreAtoms, RetainedPresent
<1>4. FreshAtomId'
  <2>1. PICK m \in AtomId : IsMaxEntry(m, e) /\ nextAtom' = Upper(NextId(m), nextAtom)
    BY DEF RestoreAtoms
  <2>2. \A a \in DOMAIN e : a <= m
    BY <2>1 DEF IsMaxEntry
  <2>3. atoms' = DOMAIN e /\ NextId(m) \in AtomId
    BY NextIdFacts DEF RestoreAtoms
  <2>4. CASE NextId(m) = MaxAtomId
    BY <2>1, <2>4 DEF FreshAtomId, Upper
  <2>5. CASE NextId(m) = m + 1
    BY <1>1, <2>1, <2>2, <2>3, <2>5 DEF FreshAtomId, Upper
  <2>6. QED
    BY <2>4, <2>5, NextIdFacts
<1>5. QED
  BY <1>2, <1>3, <1>4

LEMMA BubbleOpStruct ==
  ASSUME DataTypeOK, StructInv, NEW p \in Token, NEW b \in BubbleId, NEW n \in Name,
         NEW a \in AtomId, NEW on \in BOOLEAN,
         \/ BubbleNew(p)
         \/ Bind(b, n, a)
         \/ Unbind(b, n)
         \/ Lookup(b, n)
         \/ SetRoot(b)
         \/ UnsetRoot(b)
         \/ SetEnvHook(on)
  PROVE  StructInv'
<1> USE DEF DataTypeOK, StructInv, NoDanglingBinding, RetainedPresent, FreshAtomId
<1>1. CASE BubbleNew(p)
  BY <1>1 DEF BubbleNew, NoBindings, atomVars
<1>2. CASE Bind(b, n, a)
  BY <1>2 DEF Bind, atomVars
<1>3. CASE Unbind(b, n)
  BY <1>3 DEF Unbind, atomVars
<1>4. CASE Lookup(b, n)
  <2>1. UNCHANGED <<atoms, nextAtom, binds, retained>>
    BY <1>4 DEF Lookup, atomVars
  <2>2. QED
    BY <2>1
<1>5. CASE SetRoot(b) \/ UnsetRoot(b) \/ SetEnvHook(on)
  <2>1. UNCHANGED <<atoms, nextAtom, binds, retained>>
    BY <1>5 DEF SetRoot, UnsetRoot, SetEnvHook, atomVars
  <2>2. QED
    BY <2>1
<1>6. QED
  BY <1>1, <1>2, <1>3, <1>4, <1>5

LEMMA ImportStruct ==
  ASSUME DataTypeOK, StructInv, NEW s \in Snapshots, ImportSnapshot(s)
  PROVE  StructInv'
<1>1. NoDanglingBinding'
  BY DEF ImportSnapshot, NoDanglingBinding
<1>2. RetainedPresent'
  BY DEF ImportSnapshot, RetainedPresent
<1>3. FreshAtomId'
  <2>1. DOMAIN s.atoms \subseteq AtomId /\ s.nextAtom \in AtomId
    BY SnapshotFacts DEF SnapshotType
  <2>2. PICK m \in AtomId : IsNextAtom(m, s) /\ nextAtom' = m
    BY DEF ImportSnapshot
  <2>3. CASE \E a \in DOMAIN s.atoms : a >= s.nextAtom
    <3>1. PICK k \in AtomId : IsMaxEntry(k, s.atoms) /\ m = NextId(k)
      BY <2>2, <2>3 DEF IsNextAtom
    <3>2. \A a \in DOMAIN s.atoms : a <= k
      BY <3>1 DEF IsMaxEntry
    <3>3. QED
      BY <2>1, <2>2, <3>1, <3>2, NextIdFacts DEF ImportSnapshot, FreshAtomId
  <2>4. CASE ~ \E a \in DOMAIN s.atoms : a >= s.nextAtom
    BY <2>1, <2>2, <2>4 DEF IsNextAtom, ImportSnapshot, FreshAtomId
  <2>5. QED
    BY <2>3, <2>4
<1>4. QED
  BY <1>1, <1>2, <1>3 DEF StructInv

LEMMA ApplyStruct ==
  ASSUME DataTypeOK, StructInv, NEW reach, NEW reap, ApplyReach(reach, reap)
  PROVE  StructInv'
<1> USE DEF DataTypeOK, StructInv
<1> DEFINE cool   == [a \in AtomId |-> IF a \in atoms THEN Cooled(temp[a], 1) ELSE 0]
           dead   == {a \in atoms : IsDead(cool[a])}
           doomed == IF reap THEN dead \ reach ELSE {}
           kept   == IF reap THEN dead \cap reach ELSE {}
<1>1. /\ RemoveAtoms(doomed)
      /\ retained' = ((retained \ (atoms \ dead)) \cup kept) \ doomed
      /\ nextAtom' = nextAtom
  BY DEF ApplyReach
<1>2. NoDanglingBinding'
  BY <1>1, PurgeKeeps DEF RemoveAtoms
<1>3. dead \subseteq atoms /\ kept \subseteq atoms
  OBVIOUS
<1> HIDE DEF cool, dead, doomed, kept
<1>4. RetainedPresent' /\ FreshAtomId'
  BY <1>1, <1>3 DEF RemoveAtoms, RetainedPresent, FreshAtomId
<1>5. QED
  BY <1>2, <1>4

LEMMA CoolStruct ==
  ASSUME DataTypeOK, StructInv, NEW steps, NEW reach,
         CoolAtoms(steps) \/ RefreshRetained(reach)
  PROVE  StructInv'
  BY DEF CoolAtoms, RefreshRetained, atomVars, StructInv, NoDanglingBinding,
     RetainedPresent, FreshAtomId

LEMMA StructUnchanged ==
  ASSUME StructInv, UNCHANGED data PROVE StructInv'
  BY DEF StructInv, NoDanglingBinding, RetainedPresent, FreshAtomId, data

LEMMA NextStruct == TypeOK /\ StructInv /\ [Next]_vars => StructInv'
<1> SUFFICES ASSUME TypeOK, StructInv, [Next]_vars PROVE StructInv'
  OBVIOUS
<1>0. DataTypeOK
  BY DEF TypeOK
<1>1. CASE NewAtom \/ ChangeAtom
  <2>1. PICK a \in AtomId, t \in Temp, k \in Token :
          \/ AtomNew(t) \/ AtomSetGuest(a, k) \/ AtomUpsert(a, t, k)
          \/ AtomSetT(a, t) \/ Heat(a) \/ DeleteAtom(a)
    BY <1>1 DEF NewAtom, ChangeAtom, Quiet, Loud
  <2>2. QED
    BY <1>0, <2>1, AtomOpStruct
<1>2. CASE Rollback
  BY <1>0, <1>2, RestoreStruct DEF Rollback, Loud
<1>3. CASE NewBubble
  <2>1. PICK p \in Token : BubbleNew(p)
    BY <1>3 DEF NewBubble, Quiet
  <2>2. QED
    BY <1>0, <2>1 DEF BubbleNew, NoBindings, atomVars, DataTypeOK, StructInv,
       NoDanglingBinding, RetainedPresent, FreshAtomId
<1>4. CASE ChangeBinding
  <2>1. PICK b \in BubbleId, n \in Name, a \in AtomId : Bind(b, n, a) \/ Unbind(b, n) \/ Lookup(b, n)
    BY <1>4 DEF ChangeBinding, Quiet, Loud
  <2>2. QED
    BY <1>0, <2>1, BubbleOpStruct
<1>5. CASE ChangeRoot \/ ChangeEnvHook
  <2>1. UNCHANGED <<atoms, nextAtom, binds, retained>>
    BY <1>5 DEF ChangeRoot, ChangeEnvHook, Quiet, Loud, SetRoot, UnsetRoot, SetEnvHook, atomVars
  <2>2. QED
    BY <2>1 DEF StructInv, NoDanglingBinding, RetainedPresent, FreshAtomId
<1>6. CASE Import
  BY <1>0, <1>6, ImportStruct DEF Import
<1>7. CASE HookOp
  BY <1>7, StructUnchanged DEF HookOp, RegisterExtraReach, UnregisterExtraReach, Pin, Unpin
<1>8. CASE \E t \in Thread : TickStep(t) \/ HookPanics(t) \/ DecayStep(t)
  <2>1. PICK t \in Thread : TickStep(t) \/ HookPanics(t) \/ DecayStep(t)
    BY <1>8
  <2>2. CASE TickApply(t)
    BY <1>0, <2>2, ApplyStruct DEF TickApply
  <2>3. CASE DecayCool(t) \/ DecayRefresh(t)
    BY <1>0, <2>3, CoolStruct DEF DecayCool, DecayRefresh
  <2>4. CASE UNCHANGED data
    BY <2>4, StructUnchanged
  <2>5. QED
    BY <2>1, <2>2, <2>3, <2>4 DEF TickStep, DecayStep, HookPanics, TickBegin, TickWalk,
       TickEnd, DecayList, DecayNothing, DecaySnap, DecayWalk, DecayPanics
<1>9. CASE UNCHANGED vars
  BY <1>9, StructUnchanged DEF vars
<1>10. QED
  BY <1>1, <1>2, <1>3, <1>4, <1>5, <1>6, <1>7, <1>8, <1>9 DEF Next, StoreOp

LEMMA InitStruct == Init => StructInv
  BY DEF Init, DataInit, NoBindings, StructInv, NoDanglingBinding, RetainedPresent, FreshAtomId

(* No binding ever names an atom that is gone, the retained set lists only *)
(* atoms of the store, and atom_new finds its id unused until the counter  *)
(* saturates.                                                              *)
THEOREM Structure == Spec => [](NoDanglingBinding /\ RetainedPresent /\ FreshAtomId)
<1>1. TypeOK /\ StructInv /\ [Next]_vars => (TypeOK /\ StructInv)'
  BY NextType, NextStruct
<1>2. Init => TypeOK /\ StructInv
  BY InitType, InitStruct
<1>3. StructInv => NoDanglingBinding /\ RetainedPresent /\ FreshAtomId
  BY DEF StructInv
<1>4. QED
  BY <1>1, <1>2, <1>3, PTL DEF Spec

-----------------------------------------------------------------------------
(* Fresh bubble ids. Only bubble_new and an import write the counter and   *)
(* the table of bubbles, and what an import leaves is a store that is      *)
(* intact or one whose file did not hold together.                         *)

LEMMA BubbleFrame ==
  ASSUME [Next]_vars, ~ NewBubble, ~ Import
  PROVE  UNCHANGED bubbleVars
<1>1. CASE UNCHANGED data
  BY <1>1 DEF data, bubbleVars
<1>2. CASE NewAtom \/ ChangeAtom \/ Rollback
  BY <1>2 DEF NewAtom, ChangeAtom, Rollback, Quiet, Loud, AtomNew, AtomSetGuest, AtomSetT,
     AtomUpsert, Heat, DeleteAtom, RestoreAtoms
<1>3. CASE ChangeBinding \/ ChangeRoot \/ ChangeEnvHook
  BY <1>3 DEF ChangeBinding, ChangeRoot, ChangeEnvHook, Quiet, Loud, Bind, Unbind, Lookup,
     SetRoot, UnsetRoot, SetEnvHook
<1>4. CASE HookOp
  BY <1>1, <1>4 DEF HookOp, RegisterExtraReach, UnregisterExtraReach, Pin, Unpin
<1>5. CASE \E t \in Thread : TickStep(t) \/ HookPanics(t) \/ DecayStep(t)
  BY <1>1, <1>5 DEF TickStep, DecayStep, HookPanics, TickBegin, TickWalk, TickApply,
     TickEnd, DecayList, DecayCool, DecayNothing, DecaySnap, DecayWalk, DecayPanics,
     DecayRefresh, ApplyReach, CoolAtoms, RefreshRetained
<1>6. QED
  BY <1>1, <1>2, <1>3, <1>4, <1>5 DEF Next, StoreOp, vars

LEMMA NewBubbleFresh ==
  ASSUME DataTypeOK, FreshBubbleId, NEW p \in Token, BubbleNew(p)
  PROVE  FreshBubbleId'
<1>1. /\ nextBubble \in BubbleId /\ bubbles \subseteq BubbleId
      /\ bubbles' = bubbles \cup {nextBubble}
      /\ nextBubble' = NextBubbleId(nextBubble)
  BY DEF DataTypeOK, BubbleNew
<1>2. QED
  BY <1>1, NextBubbleIdFacts DEF FreshBubbleId

LEMMA ImportFresh ==
  ASSUME NEW s \in Snapshots, ImportSnapshot(s)
  PROVE  FreshBubbleId'
<1>1. s.bubbles \subseteq BubbleId /\ s.nextBubble \in 0 .. MaxBubbleId
  BY SnapshotFacts DEF SnapshotType
<1>2. PICK m \in BubbleId : IsNextBubble(m, s) /\ nextBubble' = m
  BY DEF ImportSnapshot
<1>3. bubbles' = s.bubbles
  BY DEF ImportSnapshot
<1>4. CASE \E b \in s.bubbles : b >= s.nextBubble
  <2>1. PICK k \in s.bubbles : (\A b \in s.bubbles : b <= k) /\ m = NextBubbleId(k)
    BY <1>2, <1>4 DEF IsNextBubble
  <2>2. QED
    BY <1>1, <1>2, <1>3, <2>1, NextBubbleIdFacts DEF FreshBubbleId
<1>5. CASE ~ \E b \in s.bubbles : b >= s.nextBubble
  <2>1. m = Upper(s.nextBubble, 1)
    BY <1>2, <1>5 DEF IsNextBubble
  <2>2. \A b \in s.bubbles : b < s.nextBubble
    BY <1>1, <1>5
  <2>3. QED
    BY <1>1, <1>2, <1>3, <2>1, <2>2 DEF FreshBubbleId, Upper
<1>6. QED
  BY <1>4, <1>5

LEMMA FreshStep ==
  ASSUME TypeOK, FreshBubbleId, [Next]_vars
  PROVE  FreshBubbleId'
<1>1. CASE NewBubble
  BY <1>1, NewBubbleFresh DEF NewBubble, Quiet, TypeOK
<1>2. CASE Import
  BY <1>2, ImportFresh DEF Import
<1>3. CASE ~ NewBubble /\ ~ Import
  BY <1>3, BubbleFrame DEF bubbleVars, FreshBubbleId
<1>4. QED
  BY <1>1, <1>2, <1>3

(* bubble_new finds its id unused until the ids have run out.              *)
THEOREM BubbleIdsFresh == Spec => []FreshBubbleId
<1>1. Init => TypeOK /\ FreshBubbleId
  BY InitType DEF Init, DataInit, FreshBubbleId
<1>2. TypeOK /\ FreshBubbleId /\ [Next]_vars => (TypeOK /\ FreshBubbleId)'
  BY NextType, FreshStep
<1>3. QED
  BY <1>1, <1>2, PTL DEF Spec

(* A step leaves a store intact only if it was, except that an import      *)
(* starts anew with its file.                                              *)
LEMMA IntactStep ==
  ASSUME [Next]_vars, ~ Import, intact' PROVE intact
<1>1. CASE NewBubble
  <2>1. PICK p \in Token : BubbleNew(p)
    BY <1>1 DEF NewBubble, Quiet
  <2>2. intact' = (intact /\ nextBubble \notin bubbles)
    BY <2>1 DEF BubbleNew
  <2>3. QED
    BY <2>2, Zenon
<1>2. CASE ~ NewBubble
  BY <1>2, BubbleFrame DEF bubbleVars
<1>3. QED
  BY <1>1, <1>2

LEMMA IntactNew ==
  ASSUME NEW p \in Token, BubbleNew(p), intact'
  PROVE  intact /\ nextBubble \notin bubbles
<1>1. intact' = (intact /\ nextBubble \notin bubbles)
  BY DEF BubbleNew
<1>2. QED
  BY <1>1, Zenon

LEMMA IntactImport ==
  ASSUME NEW s, ImportSnapshot(s), intact' PROVE ClosedSnapshot(s)
<1>1. intact' = ClosedSnapshot(s)
  BY DEF ImportSnapshot
<1>2. QED
  BY <1>1, Zenon

-----------------------------------------------------------------------------
(* References resolve, when no caller makes a bubble id up *)

LEMMA ReferencesStep ==
  ASSUME ~ ForwardRefs, TypeOK, ReferencesResolve, [Next]_vars
  PROVE  ReferencesResolve'
<1> USE DEF TypeOK, DataTypeOK
<1>0. KnownBubble = {NoBubble} \cup bubbles
  BY DEF KnownBubble
<1>1. CASE UNCHANGED <<bubbleVars, roots, tok>>
  BY <1>1 DEF ReferencesResolve, bubbleVars
<1>2. CASE NewAtom \/ ChangeAtom
  <2>1. UNCHANGED <<bubbleVars, roots>>
    BY <1>2 DEF NewAtom, ChangeAtom, Quiet, Loud, AtomNew, AtomSetGuest, AtomSetT,
       AtomUpsert, Heat, DeleteAtom
  <2>2. \A x \in AtomId : tok'[x] = tok[x] \/ tok'[x] \in bubbles \cup {NoBubble}
    BY <1>0, <1>2 DEF NewAtom, ChangeAtom, Quiet, Loud, AtomNew, AtomSetGuest, AtomSetT,
       AtomUpsert, Heat, DeleteAtom, PutAtom, RemoveAtoms
  <2>3. QED
    BY <2>1, <2>2 DEF ReferencesResolve, bubbleVars
<1>3. CASE Rollback
  <2>1. PICK e \in Rollbacks : RestoreAtoms(e)
    BY <1>3 DEF Rollback, Loud
  <2>2. \A x \in AtomId : tok'[x] \in bubbles \cup {NoBubble}
    BY <1>0, <2>1 DEF RestoreAtoms
  <2>3. QED
    BY <2>1, <2>2 DEF RestoreAtoms, ReferencesResolve, bubbleVars
<1>4. CASE NewBubble
  <2>1. PICK p \in Token : BubbleNew(p)
    BY <1>4 DEF NewBubble, Quiet
  <2>2. p \in bubbles \cup {NoBubble} /\ nextBubble \in BubbleId
    BY <1>0, <2>1 DEF BubbleNew
  <2>3. /\ bubbles' = bubbles \cup {nextBubble}
        /\ parent' = [parent EXCEPT ![nextBubble] = p]
        /\ roots' = roots /\ tok' = tok
    BY <2>1 DEF BubbleNew, atomVars
  <2>4. roots' \subseteq bubbles'
    BY <2>3 DEF ReferencesResolve
  <2>5. ASSUME intact'
        PROVE  /\ \A b \in BubbleId : parent'[b] \in bubbles' \cup {NoBubble}
               /\ \A a \in AtomId : tok'[a] \in bubbles' \cup {NoBubble}
    <3>1. intact
      BY <2>1, <2>5, IntactNew
    <3>2. QED
      BY <2>2, <2>3, <3>1 DEF ReferencesResolve
  <2>6. QED
    BY <2>4, <2>5 DEF ReferencesResolve
<1>5. CASE ChangeBinding
  BY <1>1, <1>5 DEF ChangeBinding, Quiet, Loud, Bind, Unbind, Lookup, atomVars
<1>6. CASE ChangeRoot
  <2>1. UNCHANGED <<bubbleVars, tok>>
    BY <1>6 DEF ChangeRoot, Quiet, Loud, SetRoot, UnsetRoot, atomVars
  <2>2. roots' \subseteq bubbles
    <3>1. PICK b \in BubbleId : SetRoot(b) \/ UnsetRoot(b)
      BY <1>6 DEF ChangeRoot, Quiet, Loud
    <3>2. roots \subseteq bubbles
      BY DEF ReferencesResolve
    <3>3. CASE SetRoot(b)
      BY <3>2, <3>3 DEF SetRoot
    <3>4. CASE UnsetRoot(b)
      BY <3>2, <3>4 DEF UnsetRoot
    <3>5. QED
      BY <3>1, <3>3, <3>4
  <2>3. QED
    BY <2>1, <2>2 DEF ReferencesResolve, bubbleVars
<1>7. CASE ChangeEnvHook
  BY <1>1, <1>7 DEF ChangeEnvHook, Quiet, Loud, SetEnvHook, atomVars
<1>8. CASE Import
  <2>1. PICK s \in Snapshots : ImportSnapshot(s)
    BY <1>8 DEF Import
  <2>2. roots' \subseteq bubbles' /\ bubbles' = s.bubbles
    BY <2>1 DEF ImportSnapshot
  <2>3. ASSUME intact'
        PROVE  /\ \A b \in BubbleId : parent'[b] \in bubbles' \cup {NoBubble}
               /\ \A a \in AtomId : tok'[a] \in bubbles' \cup {NoBubble}
    <3>1. ClosedSnapshot(s)
      BY <2>1, <2>3, IntactImport
    <3>2. QED
      BY <2>1, <2>2, <3>1 DEF ImportSnapshot, ClosedSnapshot
  <2>4. QED
    BY <2>2, <2>3 DEF ReferencesResolve
<1>9. CASE UNCHANGED data
  BY <1>1, <1>9 DEF data, bubbleVars
<1>10. CASE \E t \in Thread : TickApply(t)
  <2>1. PICK D : RemoveAtoms(D) /\ UNCHANGED <<bubbleVars, roots>>
    BY <1>10 DEF TickApply, ApplyReach
  <2>2. QED
    BY <2>1 DEF RemoveAtoms, ReferencesResolve, bubbleVars
<1>11. CASE \E t \in Thread : DecayCool(t) \/ DecayRefresh(t)
  BY <1>1, <1>11 DEF DecayCool, DecayRefresh, CoolAtoms, RefreshRetained, atomVars
<1>12. CASE HookOp
  BY <1>9, <1>12 DEF HookOp, RegisterExtraReach, UnregisterExtraReach, Pin, Unpin
<1>13. CASE UNCHANGED vars
  BY <1>9, <1>13 DEF vars
<1>14. CASE StoreOp
  BY <1>14, <1>2, <1>3, <1>4, <1>5, <1>6, <1>7, <1>8, <1>12 DEF StoreOp
<1>15. CASE \E t \in Thread : TickStep(t) \/ HookPanics(t) \/ DecayStep(t)
  BY <1>15, <1>9, <1>10, <1>11 DEF TickStep, DecayStep, HookPanics, TickBegin, TickWalk,
     TickEnd, DecayList, DecayNothing, DecaySnap, DecayWalk, DecayPanics
<1>16. QED
  BY <1>13, <1>14, <1>15 DEF Next

-----------------------------------------------------------------------------
(* A step that does not touch reach_gen reaches nothing new *)

(* If every edge and root of the next state is one now, so is every reached *)
(* bubble.                                                                 *)
LEMMA ReachBubblesShrink ==
  ASSUME roots' \subseteq roots,
         \A b \in BubbleId, c \in BubbleId :
           b \in bubbles' /\ Edge(b, c)' => b \in bubbles /\ Edge(b, c)
  PROVE  ReachBubbles' \subseteq ReachBubbles
<1>1. ASSUME NEW S \in SUBSET BubbleId, ClosedUnderEdges(S)
      PROVE  ClosedUnderEdges(S)'
  BY <1>1 DEF ClosedUnderEdges
<1>2. QED
  BY <1>1 DEF ReachBubbles

LEMMA ReachAtomsShrink ==
  ASSUME ReachBubbles' \subseteq ReachBubbles,
         \A b \in ReachBubbles \cap bubbles', n \in Name :
           binds'[b][n] \in atoms' =>
             b \in bubbles /\ binds'[b][n] = binds[b][n] /\ binds[b][n] \in atoms
  PROVE  ReachAtoms' \subseteq ReachAtoms
  BY DEF ReachAtoms

LEMMA ReachedLater ==
  ASSUME NEW b \in ReachBubbles', NEW T \in SUBSET BubbleId, ClosedUnderEdges(T)'
  PROVE  b \in T
  BY DEF ReachBubbles

(* Bindings, tokens and roots only disappear. *)
Shrinks ==
  /\ roots' \subseteq roots
  /\ bubbles' = bubbles
  /\ parent' = parent
  /\ envHook' => envHook
  /\ \A b \in BubbleId, n \in Name :
       binds'[b][n] \in atoms' =>
         /\ binds'[b][n] = binds[b][n]
         /\ binds[b][n] \in atoms
         /\ tok'[binds[b][n]] = tok[binds[b][n]] \/ tok'[binds[b][n]] = NoToken

LEMMA ShrinksReach ==
  ASSUME DataTypeOK, Shrinks PROVE ReachAtoms' \subseteq ReachAtoms
<1>1. ASSUME NEW b \in BubbleId, NEW c \in BubbleId, b \in bubbles', Edge(b, c)'
      PROVE  b \in bubbles /\ Edge(b, c)
  BY <1>1 DEF Shrinks, Edge
<1>2. ReachBubbles' \subseteq ReachBubbles
  BY <1>1, ReachBubblesShrink DEF Shrinks
<1>3. QED
  BY <1>2, ReachAtomsShrink DEF Shrinks, ReachBubbles

(* A bubble nothing refers to yet is not reached, and binds nothing. *)
LEMMA BubbleNewReach ==
  ASSUME DataTypeOK, NoDanglingBinding, ReferencesResolve, NEW p \in Token, BubbleNew(p),
         intact'
  PROVE  ReachAtoms' \subseteq ReachAtoms
<1>0. PICK nb \in BubbleId : nb = nextBubble
  BY DEF DataTypeOK
<1>1. /\ nb \in BubbleId
      /\ bubbles' = bubbles \cup {nb}
      /\ parent' = [parent EXCEPT ![nb] = p]
      /\ binds' = [binds EXCEPT ![nb] = NoBindings]
      /\ UNCHANGED <<roots, atoms, tok, envHook>>
  BY <1>0 DEF BubbleNew, atomVars
<1>2. intact /\ nb \notin bubbles /\ nb \notin roots
  <2>1. intact /\ nextBubble \notin bubbles
    BY IntactNew
  <2>2. QED
    BY <1>0, <2>1 DEF ReferencesResolve
<1>3. \A b \in BubbleId : b # nb => parent'[b] = parent[b] /\ binds'[b] = binds[b]
  BY <1>1 DEF DataTypeOK
<1>4. ASSUME NEW b \in BubbleId, NEW c \in BubbleId, Edge(b, c)
      PROVE  c \in bubbles
  <2>1. CASE parent[b] = c
    BY <1>2, <2>1 DEF ReferencesResolve
  <2>2. CASE \E n \in Name : binds[b][n] \in atoms /\ tok[binds[b][n]] = c
    <3>1. PICK a \in AtomId : tok[a] = c
      BY <2>2 DEF DataTypeOK
    <3>2. QED
      BY <1>2, <3>1 DEF ReferencesResolve
  <2>3. QED
    BY <1>4, <2>1, <2>2 DEF Edge
<1>5. ASSUME NEW S \in SUBSET BubbleId, ClosedUnderEdges(S)
      PROVE  ClosedUnderEdges(S \ {nb})'
  <2>1. roots' \subseteq S \ {nb}
    BY <1>1, <1>2, <1>5 DEF ClosedUnderEdges
  <2>2. ASSUME NEW b \in (S \ {nb}) \cap bubbles', NEW c \in BubbleId, Edge(b, c)'
        PROVE  c \in S \ {nb}
    <3>1. b \in S \cap bubbles /\ Edge(b, c)
      BY <1>1, <1>3, <2>2 DEF Edge
    <3>2. c \in S
      BY <1>5, <3>1 DEF ClosedUnderEdges
    <3>3. c # nb
      BY <1>2, <1>4, <3>1
    <3>4. QED
      BY <3>2, <3>3
  <2>3. \A b \in (S \ {nb}) \cap bubbles', c \in BubbleId : Edge(b, c)' => c \in S \ {nb}
    BY <2>2
  <2>4. QED
    BY <2>1, <2>3 DEF ClosedUnderEdges
<1>6. ReachBubbles' \subseteq ReachBubbles
  <2>1. ASSUME NEW b \in ReachBubbles', NEW S \in SUBSET BubbleId, ClosedUnderEdges(S)
        PROVE  b \in S
    <3>1. S \ {nb} \in SUBSET BubbleId /\ ClosedUnderEdges(S \ {nb})'
      BY <1>5, <2>1
    <3>2. b \in S \ {nb}
      BY <2>1, <3>1, ReachedLater
    <3>3. QED
      BY <3>2
  <2>2. QED
    BY <2>1 DEF ReachBubbles
<1>7. ASSUME NEW b \in ReachBubbles \cap bubbles', NEW n \in Name, binds'[b][n] \in atoms'
      PROVE  b \in bubbles /\ binds'[b][n] = binds[b][n] /\ binds[b][n] \in atoms
  <2>1. b \in BubbleId
    BY <1>7 DEF ReachBubbles
  <2>2. CASE b = nb
    BY <1>1, <1>7, <2>2 DEF NoBindings, DataTypeOK
  <2>3. CASE b # nb
    BY <1>1, <1>3, <1>7, <2>1, <2>3
  <2>4. QED
    BY <2>2, <2>3
<1>8. QED
  BY <1>6, <1>7, ReachAtomsShrink

LEMMA SameStructure ==
  ASSUME DataTypeOK, UNCHANGED <<roots, bubbles, parent, envHook, binds, atoms, tok>>
  PROVE  ReachAtoms' \subseteq ReachAtoms
  BY ShrinksReach DEF Shrinks

LEMMA RemoveReach ==
  ASSUME DataTypeOK, NEW D, RemoveAtoms(D), UNCHANGED <<roots, bubbles, parent, envHook>>
  PROVE  ReachAtoms' \subseteq ReachAtoms
<1>1. \A b \in BubbleId, n \in Name :
        binds'[b][n] = IF binds[b][n] \in D THEN Unbound ELSE binds[b][n]
  BY DEF RemoveAtoms, PurgeBindings
<1>2. Unbound \notin atoms
  BY DEF DataTypeOK
<1>3. Shrinks
  BY <1>1, <1>2 DEF RemoveAtoms, Shrinks, DataTypeOK
<1>4. QED
  BY <1>3, ShrinksReach

LEMMA AtomNewReach ==
  ASSUME DataTypeOK, NoDanglingBinding, NEW t \in Temp, AtomNew(t)
  PROVE  ReachAtoms' \subseteq ReachAtoms
<1>1. /\ atoms' = atoms \cup {nextAtom}
      /\ tok' = [tok EXCEPT ![nextAtom] = NoToken]
      /\ UNCHANGED <<roots, bubbles, parent, envHook, binds>>
  BY DEF AtomNew, PutAtom, bubbleVars
<1>2. \A b \in BubbleId, n \in Name : binds[b][n] \in atoms' => binds[b][n] \in atoms
  BY <1>1 DEF NoDanglingBinding, DataTypeOK
<1>3. Shrinks
  BY <1>1, <1>2 DEF Shrinks, DataTypeOK
<1>4. QED
  BY <1>3, ShrinksReach

LEMMA UnbindReach ==
  ASSUME DataTypeOK, NEW b \in BubbleId, NEW n \in Name, Unbind(b, n)
  PROVE  ReachAtoms' \subseteq ReachAtoms
<1>1. /\ binds' = [binds EXCEPT ![b][n] = Unbound]
      /\ UNCHANGED <<roots, bubbles, parent, envHook, atoms, tok>>
  BY DEF Unbind, atomVars, bubbleVars
<1>2. \A c \in BubbleId, m \in Name : binds'[c][m] \in {Unbound, binds[c][m]}
  BY <1>1 DEF DataTypeOK
<1>3. Unbound \notin atoms
  BY DEF DataTypeOK
<1>4. Shrinks
  BY <1>1, <1>2, <1>3 DEF Shrinks
<1>5. QED
  BY <1>4, ShrinksReach

StoreInv == TypeOK /\ StructInv /\ FreshBubbleId /\ ReferencesResolve

(* The comment on reach_gen, step by step. *)
LEMMA StepReach ==
  ASSUME StoreInv, [Next]_vars
  PROVE  \/ reachGen' = reachGen + 1
         \/ reachGen' = reachGen /\ (intact' => ReachAtoms' \subseteq ReachAtoms)
<1> USE DEF StoreInv, TypeOK, StructInv
<1>1. CASE TouchReach
  BY <1>1 DEF TouchReach
<1>2. CASE NewAtom
  <2>1. PICK t \in Temp : AtomNew(t) /\ reachGen' = reachGen
    BY <1>2 DEF NewAtom, Quiet
  <2>2. QED
    BY <2>1, AtomNewReach
<1>3. CASE ChangeAtom
  <2>1. PICK a \in AtomId : TouchReach \/ Quiet(AtomSetT(a, 0)) \/ Quiet(Heat(a)) \/ Quiet(DeleteAtom(a))
    BY <1>3 DEF ChangeAtom, Loud
  <2>2. CASE Quiet(AtomSetT(a, 0)) \/ Quiet(Heat(a))
    BY <2>2, SameStructure DEF Quiet, AtomSetT, Heat, bubbleVars
  <2>3. CASE Quiet(DeleteAtom(a))
    BY <2>3, RemoveReach DEF Quiet, DeleteAtom, bubbleVars
  <2>4. QED
    BY <1>1, <2>1, <2>2, <2>3
<1>4. CASE NewBubble
  <2>1. PICK p \in Token : BubbleNew(p) /\ reachGen' = reachGen
    BY <1>4 DEF NewBubble, Quiet
  <2>2. QED
    BY <2>1, BubbleNewReach
<1>5. CASE ChangeBinding
  <2>1. PICK b \in BubbleId, n \in Name : TouchReach \/ Quiet(Unbind(b, n)) \/ Quiet(Lookup(b, n))
    BY <1>5 DEF ChangeBinding, Loud
  <2>2. CASE Quiet(Unbind(b, n))
    BY <2>2, UnbindReach DEF Quiet
  <2>3. CASE Quiet(Lookup(b, n))
    BY <2>3, SameStructure DEF Quiet, Lookup, bubbleVars
  <2>4. QED
    BY <1>1, <2>1, <2>2, <2>3
<1>6. CASE ChangeRoot
  <2>1. PICK b \in BubbleId : TouchReach \/ Quiet(UnsetRoot(b))
    BY <1>6 DEF ChangeRoot, Loud
  <2>2. CASE Quiet(UnsetRoot(b))
    <3>1. Shrinks
      BY <2>2 DEF Quiet, UnsetRoot, Shrinks, atomVars, bubbleVars
    <3>2. QED
      BY <2>2, <3>1, ShrinksReach DEF Quiet
  <2>3. QED
    BY <1>1, <2>1, <2>2
<1>7. CASE ChangeEnvHook
  <2>1. CASE Quiet(SetEnvHook(FALSE))
    <3>1. Shrinks
      BY <2>1 DEF Quiet, SetEnvHook, Shrinks, atomVars, bubbleVars
    <3>2. QED
      BY <2>1, <3>1, ShrinksReach DEF Quiet
  <2>2. QED
    BY <1>1, <1>7, <2>1 DEF ChangeEnvHook, Loud
<1>8. CASE Rollback \/ Import
  BY <1>1, <1>8 DEF Rollback, Import, Loud
<1>9. CASE UNCHANGED data /\ reachGen' = reachGen
  BY <1>9, SameStructure DEF data
<1>10. CASE HookOp
  BY <1>1, <1>9, <1>10 DEF HookOp, RegisterExtraReach, UnregisterExtraReach, Pin, Unpin
<1>11. CASE UNCHANGED vars
  BY <1>9, <1>11 DEF vars
<1>12. CASE \E t \in Thread : TickApply(t)
  BY <1>12, RemoveReach DEF TickApply, ApplyReach, bubbleVars
<1>13. CASE \E t \in Thread : DecayCool(t) \/ DecayRefresh(t)
  BY <1>13, SameStructure DEF DecayCool, DecayRefresh, CoolAtoms, RefreshRetained, atomVars, bubbleVars
<1>14. CASE \E t \in Thread : TickStep(t) \/ HookPanics(t) \/ DecayStep(t)
  BY <1>14, <1>9, <1>12, <1>13 DEF TickStep, DecayStep, HookPanics, TickBegin, TickWalk,
     TickEnd, DecayList, DecayNothing, DecaySnap, DecayWalk, DecayPanics
<1>15. CASE StoreOp
  BY <1>15, <1>2, <1>3, <1>4, <1>5, <1>6, <1>7, <1>8, <1>10 DEF StoreOp
<1>16. QED
  BY <1>11, <1>14, <1>15 DEF Next

-----------------------------------------------------------------------------
(* The law of the collector *)

LEMMA StoreInvInit == Init => StoreInv
<1>1. Init => ReferencesResolve
  BY DEF Init, DataInit, ReferencesResolve
<1>2. Init => FreshBubbleId
  BY DEF Init, DataInit, FreshBubbleId
<1>3. QED
  BY <1>1, <1>2, InitType, InitStruct DEF StoreInv

LEMMA StoreInvStep ==
  ASSUME ~ ForwardRefs PROVE StoreInv /\ [Next]_vars => StoreInv'
  BY NextType, NextStruct, FreshStep, ReferencesStep DEF StoreInv

(* Every root names a bubble of the store; so does every parent and token, *)
(* if bubble ids are only ever taken from bubble_new and the last file     *)
(* that was imported held together.                                        *)
THEOREM References == ASSUME ~ ForwardRefs PROVE Spec => []ReferencesResolve
<1>1. StoreInv /\ [Next]_vars => StoreInv'
  BY StoreInvStep
<1>2. StoreInv => ReferencesResolve
  BY DEF StoreInv
<1>3. QED
  BY <1>1, <1>2, StoreInvInit, PTL DEF Spec

LEMMA ParentsStep ==
  ASSUME ~ ForwardRefs, StoreInv, ParentsOlder, [Next]_vars
  PROVE  ParentsOlder'
<1> USE DEF StoreInv, TypeOK, DataTypeOK
<1>1. CASE NewBubble
  <2>1. PICK p \in Token : BubbleNew(p)
    BY <1>1 DEF NewBubble, Quiet
  <2>2. SUFFICES ASSUME intact' PROVE \A b \in BubbleId : parent'[b] < b
    BY DEF ParentsOlder
  <2>3. intact /\ nextBubble \notin bubbles
    BY <2>1, <2>2, IntactNew
  <2>4. p < nextBubble /\ nextBubble \in BubbleId
    <3>1. nextBubble \in BubbleId /\ bubbles \subseteq BubbleId
      OBVIOUS
    <3>2. p = NoBubble \/ p \in bubbles
      BY <2>1 DEF BubbleNew, KnownBubble
    <3>3. \A b \in bubbles : b < nextBubble
      BY <2>3, <3>1 DEF FreshBubbleId
    <3>4. QED
      BY <3>1, <3>2, <3>3
  <2>5. parent' = [parent EXCEPT ![nextBubble] = p]
    BY <2>1 DEF BubbleNew
  <2>6. QED
    BY <2>3, <2>4, <2>5 DEF ParentsOlder
<1>2. CASE Import
  <2>1. PICK s \in Snapshots : ImportSnapshot(s)
    BY <1>2 DEF Import
  <2>2. SUFFICES ASSUME intact' PROVE \A b \in BubbleId : parent'[b] < b
    BY DEF ParentsOlder
  <2>3. ClosedSnapshot(s)
    BY <2>1, <2>2, IntactImport
  <2>4. QED
    BY <2>1, <2>3 DEF ImportSnapshot, ClosedSnapshot
<1>3. CASE ~ NewBubble /\ ~ Import
  BY <1>3, BubbleFrame DEF bubbleVars, ParentsOlder
<1>4. QED
  BY <1>1, <1>2, <1>3

(* While the store is intact, parents are older than their children, so    *)
(* lookup's climb ends: every step of it goes to a smaller id.             *)
THEOREM LookupsEnd == ASSUME ~ ForwardRefs PROVE Spec => []ParentsOlder
<1>1. StoreInv /\ ParentsOlder /\ [Next]_vars => (StoreInv /\ ParentsOlder)'
  BY StoreInvStep, ParentsStep
<1>2. Init => ParentsOlder
  BY DEF Init, DataInit, ParentsOlder
<1>3. QED
  BY <1>1, <1>2, StoreInvInit, PTL DEF Spec

(* What the Store keeps is whole, whatever is imported, rolled back,       *)
(* deleted and reaped (store.rs:84, snapshot.rs:150): no binding or root   *)
(* names what is gone and no fresh id is in use before the ids run out,    *)
(* even after a damaged file; parents and tokens resolve, and lookups end, *)
(* while the store is intact.                                              *)
THEOREM Sound == ASSUME ~ ForwardRefs PROVE Spec => []StoreSound
  BY Structure, BubbleIdsFresh, References, LookupsEnd, PTL DEF StoreSound

(* The comment at store.rs:52 holds of every call that leaves the store    *)
(* intact: reach_gen moves whenever an atom becomes reachable.             *)
THEOREM GenerationGrows == ASSUME ~ ForwardRefs PROVE Spec => ReachGenGrowsWithReach
<1>1. StoreInv /\ [Next]_vars => StoreInv'
  BY StoreInvStep
<1>2. StoreInv /\ [Next]_vars
        => [intact' => ReachAtoms' \subseteq ReachAtoms \/ reachGen' # reachGen]_vars
  <2>1. ASSUME StoreInv, [Next]_vars, intact'
        PROVE  ReachAtoms' \subseteq ReachAtoms \/ reachGen' # reachGen
    <3>1. reachGen \in Nat
      BY <2>1, StoreAssumption DEF StoreInv, TypeOK
    <3>2. QED
      BY <2>1, <3>1, StepReach
  <2>2. QED
    BY <2>1
<1>3. QED
  BY <1>1, <1>2, StoreInvInit, PTL DEF Spec, ReachGenGrowsWithReach

(* SnapCovers, of one thread. *)
CoversInv(t) == snap[t].gen <= reachGen /\ (intact => Covers(t))

LEMMA CoversAll == SnapCovers <=> \A t \in Thread : CoversInv(t)
  BY DEF SnapCovers, CoversInv

LEMMA GenType ==
  ASSUME TypeOK, NEW t \in Thread PROVE reachGen \in Nat /\ snap[t].gen \in Nat
  BY StoreAssumption DEF TypeOK, SnapType

(* A walk keeps covering the data while it only grows. *)
LEMMA CoversKept ==
  ASSUME StoreInv, [Next]_vars, NEW u \in Thread, CoversInv(u),
         snap'[u].gen = snap[u].gen,
         snap[u].reach \subseteq snap'[u].reach,
         pc'[u] \in {"walk", "apply"} => pc[u] \in {"walk", "apply"}
  PROVE  CoversInv(u)'
<1>1. reachGen \in Nat /\ snap[u].gen \in Nat
  BY GenType DEF StoreInv
<1>2. CASE reachGen' = reachGen + 1
  BY <1>1, <1>2 DEF CoversInv, Covers
<1>3. CASE reachGen' = reachGen /\ (intact' => ReachAtoms' \subseteq ReachAtoms) /\ ~ Import
  <2>1. intact' => intact
    BY IntactStep, <1>3
  <2>2. snap'[u].gen <= reachGen'
    BY <1>1, <1>3 DEF CoversInv
  <2>3. ASSUME intact' PROVE Covers(u)'
    BY <1>1, <1>3, <2>1, <2>3 DEF CoversInv, Covers
  <2>4. QED
    BY <2>2, <2>3 DEF CoversInv
<1>4. Import => reachGen' = reachGen + 1
  BY DEF Import, TouchReach
<1>5. QED
  BY <1>2, <1>3, <1>4, StepReach

(* An operation of the store is no step of a tick: it only strikes pins.   *)
LEMMA StoreOpCalls ==
  ASSUME StoreOp PROVE pc' = pc /\ (snap' = snap \/ \E gone : Forget(gone))
<1>1. pc' = pc
  BY DEF StoreOp, NewAtom, ChangeAtom, Rollback, NewBubble, ChangeBinding, ChangeRoot,
     ChangeEnvHook, Import, HookOp, RegisterExtraReach, UnregisterExtraReach, Pin, Unpin,
     Loud, Quiet, calls
<1>2. snap' = snap \/ \E gone : Forget(gone)
  BY DEF StoreOp, NewAtom, ChangeAtom, Rollback, NewBubble, ChangeBinding, ChangeRoot,
     ChangeEnvHook, Import, HookOp, RegisterExtraReach, UnregisterExtraReach, Pin, Unpin,
     Loud, Quiet, calls
<1>3. QED
  BY <1>1, <1>2

LEMMA StoreOpCovers ==
  ASSUME StoreInv, StoreOp, NEW u \in Thread, CoversInv(u)
  PROVE  CoversInv(u)'
<1> USE DEF StoreInv, TypeOK, SnapType
<1>1. pc' = pc
  BY StoreOpCalls
<1>3. snap'[u].gen = snap[u].gen /\ snap'[u].reach = snap[u].reach
  BY StoreOpCalls DEF Forget
<1>4. QED
  BY <1>1, <1>3, CoversKept DEF Next

(* The snapshot a thread takes covers the data it was taken from. *)
LEMMA TakeSnapCovers ==
  ASSUME StoreInv, NEW t \in Thread, TakeSnap(t), UNCHANGED <<data, reachGen>>
  PROVE  CoversInv(t)'
<1> USE DEF StoreInv, TypeOK
<1>1. snap'[t].gen = reachGen /\ snap'[t].reach = ReachAtoms
  BY DEF TakeSnap
<1>2. ReachAtoms' \subseteq ReachAtoms
  BY SameStructure DEF data
<1>3. reachGen \in Nat /\ reachGen' = reachGen
  BY GenType
<1>4. QED
  BY <1>1, <1>2, <1>3 DEF CoversInv, Covers

(* A thread step leaves other threads' snapshots, and either keeps its own *)
(* snapshot, takes a new one or leaves the phases that use it.             *)
LEMMA ThreadStepSnap ==
  ASSUME TypeOK, NEW t \in Thread, TickStep(t) \/ HookPanics(t) \/ DecayStep(t)
  PROVE  /\ \A u \in Thread \ {t} : pc'[u] = pc[u] /\ snap'[u] = snap[u]
         /\ \/ TakeSnap(t) /\ UNCHANGED <<data, reachGen>>
            \/ /\ snap'[t].gen = snap[t].gen
               /\ snap[t].reach \subseteq snap'[t].reach
               /\ pc'[t] \in {"walk", "apply"} => pc[t] \in {"walk", "apply"}
            \/ snap'[t].gen = 0 /\ pc'[t] = "idle"
<1> USE DEF TypeOK, SnapType
<1>1. CASE TickBegin(t) \/ DecaySnap(t)
  BY <1>1 DEF TickBegin, DecaySnap, Step, TakeSnap
<1>2. CASE TickWalk(t) \/ DecayWalk(t)
  BY <1>2 DEF TickWalk, DecayWalk, Step, Walked
<1>3. CASE TickApply(t) \/ HookPanics(t) \/ DecayCool(t)
  BY <1>3 DEF TickApply, HookPanics, DecayCool, Step
<1>4. CASE TickEnd(t) \/ DecayNothing(t) \/ DecayPanics(t) \/ DecayRefresh(t)
  BY <1>4 DEF TickEnd, DecayNothing, DecayPanics, DecayRefresh, Step, NoSnap
<1>5. CASE DecayList(t)
  BY <1>5 DEF DecayList, Step
<1>6. QED
  BY <1>1, <1>2, <1>3, <1>4, <1>5 DEF TickStep, DecayStep

LEMMA SnapCoversStep ==
  ASSUME StoreInv, SnapCovers, [Next]_vars
  PROVE  SnapCovers'
<1> SUFFICES ASSUME NEW u \in Thread PROVE CoversInv(u)'
  BY DEF SnapCovers, CoversInv
<1>0. CoversInv(u)
  BY CoversAll
<1>1. CASE StoreOp
  BY <1>0, <1>1, StoreOpCovers
<1>2. CASE \E t \in Thread : TickStep(t) \/ HookPanics(t) \/ DecayStep(t)
  <2>1. PICK t \in Thread : TickStep(t) \/ HookPanics(t) \/ DecayStep(t)
    BY <1>2
  <2>2. CASE u # t
    BY <1>0, <2>1, <2>2, ThreadStepSnap, CoversKept DEF StoreInv
  <2>3. CASE u = t
    <3>1. CASE TakeSnap(t) /\ UNCHANGED <<data, reachGen>>
      BY <2>3, <3>1, TakeSnapCovers
    <3>2. CASE snap'[t].gen = 0 /\ pc'[t] = "idle"
      <4>1. reachGen' \in Nat
        BY NextType, GenType DEF StoreInv, TypeOK
      <4>2. QED
        BY <2>3, <3>2, <4>1 DEF CoversInv, Covers
    <3>3. CASE /\ snap'[t].gen = snap[t].gen
               /\ snap[t].reach \subseteq snap'[t].reach
               /\ pc'[t] \in {"walk", "apply"} => pc[t] \in {"walk", "apply"}
      BY <1>0, <2>3, <3>3, CoversKept
    <3>4. QED
      BY <2>1, <3>1, <3>2, <3>3, ThreadStepSnap DEF StoreInv
  <2>4. QED
    BY <2>2, <2>3
<1>3. CASE UNCHANGED vars
  BY <1>0, <1>3, CoversKept DEF vars, calls
<1>4. QED
  BY <1>1, <1>2, <1>3 DEF Next

LawInv == StoreInv /\ SnapCovers

LEMMA LawInvInit == ASSUME ~ ForwardRefs PROVE Init => LawInv
<1>1. Init => SnapCovers
  BY DEF Init, SnapCovers, Covers, NoSnap
<1>2. QED
  BY <1>1, StoreInvInit DEF LawInv

LEMMA LawInvStep == ASSUME ~ ForwardRefs PROVE LawInv /\ [Next]_vars => LawInv'
  BY StoreInvStep, SnapCoversStep DEF LawInv

(* While reach_gen stands still and the store is intact, what a tick       *)
(* walked covers what is reached.                                          *)
THEOREM SnapshotCovers == ASSUME ~ ForwardRefs PROVE Spec => []SnapCovers
<1>1. LawInv => SnapCovers
  BY DEF LawInv
<1>2. QED
  BY <1>1, LawInvInit, LawInvStep, PTL DEF Spec

(* What apply_reach reaps is not in the walk it is given, and nothing if   *)
(* the walk has gone stale.                                                *)
LEMMA ApplyDooms ==
  ASSUME NEW reach, NEW reap, ApplyReach(reach, reap)
  PROVE  \E D : atoms' = atoms \ D /\ D \cap reach = {} /\ (~ reap => D = {})
<1> DEFINE cool   == [a \in AtomId |-> IF a \in atoms THEN Cooled(temp[a], 1) ELSE 0]
           dead   == {a \in atoms : IsDead(cool[a])}
           doomed == IF reap THEN dead \ reach ELSE {}
<1>1. atoms' = atoms \ doomed
  BY DEF ApplyReach, RemoveAtoms
<1>2. doomed \cap reach = {} /\ (~ reap => doomed = {})
  OBVIOUS
<1>3. QED
  BY <1>1, <1>2

(* One apply, from a snapshot that covers. *)
LEMMA ApplySpares ==
  ASSUME LawInv, intact, NEW t \in Thread, TickApply(t)
  PROVE  ReachAtoms \subseteq atoms'
<1>1. pc[t] = "apply" /\ ApplyReach(snap[t].reach, reachGen = snap[t].gen)
  BY DEF TickApply, Step
<1>2. reachGen = snap[t].gen => ReachAtoms \subseteq snap[t].reach
  BY <1>1 DEF LawInv, SnapCovers, Covers
<1>3. PICK D : /\ atoms' = atoms \ D
               /\ D \cap snap[t].reach = {}
               /\ reachGen # snap[t].gen => D = {}
  BY <1>1, ApplyDooms
<1>4. ReachAtoms \subseteq atoms
  BY DEF ReachAtoms
<1>5. QED
  BY <1>2, <1>3, <1>4

(* The law: no tick reaps an atom that is reachable when it reaps, as long *)
(* as the store is intact.                                                 *)
THEOREM Law == ASSUME ~ ForwardRefs PROVE Spec => NeverReapReachable
<1>1. LawInv /\ [Next]_vars => [intact /\ ReapStep => ReachAtoms \subseteq atoms']_vars
  BY ApplySpares DEF ReapStep
<1>2. QED
  BY <1>1, LawInvInit, LawInvStep, PTL DEF Spec, NeverReapReachable

-----------------------------------------------------------------------------
(* What takes atoms away *)

(* What a step must be: one of the four ways an atom leaves, or one by     *)
(* which none does.                                                        *)
Removal ==
  \/ ReapStep \/ Rollback \/ Import \/ atoms \subseteq atoms'
  \/ \E a \in AtomId : Quiet(DeleteAtom(a))

(* Every operation but a rollback, an import and delete_atom keeps all     *)
(* atoms: setting, upserting, naming, rooting, hooking and pinning.        *)
LEMMA StoreOpRemoval == ASSUME StoreOp PROVE Removal
<1>1. CASE NewAtom \/ NewBubble
  BY <1>1 DEF NewAtom, NewBubble, Quiet, AtomNew, PutAtom, BubbleNew, atomVars, Removal
<1>2. CASE ChangeAtom
  <2>1. PICK a \in AtomId :
          \/ \E k \in Token : Loud(AtomSetGuest(a, k))
          \/ \E t \in {TInit, 0}, k \in Token : Loud(AtomUpsert(a, t, k))
          \/ Quiet(AtomSetT(a, 0))
          \/ Quiet(Heat(a))
          \/ Quiet(DeleteAtom(a))
    BY <1>2 DEF ChangeAtom
  <2>2. CASE Quiet(DeleteAtom(a))
    BY <2>2 DEF Removal
  <2>3. CASE ~ Quiet(DeleteAtom(a))
    BY <2>1, <2>3 DEF Loud, Quiet, AtomSetGuest, AtomUpsert, AtomSetT, Heat, PutAtom, Removal
  <2>4. QED
    BY <2>2, <2>3
<1>3. CASE Rollback \/ Import
  BY <1>3 DEF Removal
<1>4. CASE ChangeBinding
  BY <1>4 DEF ChangeBinding, Loud, Quiet, Bind, Unbind, Lookup, atomVars, Removal
<1>5. CASE ChangeRoot \/ ChangeEnvHook
  BY <1>5 DEF ChangeRoot, ChangeEnvHook, Loud, Quiet, SetRoot, UnsetRoot, SetEnvHook,
     atomVars, Removal
<1>6. CASE HookOp
  BY <1>6 DEF HookOp, RegisterExtraReach, UnregisterExtraReach, Pin, Unpin, data, Removal
<1>7. QED
  BY <1>1, <1>2, <1>3, <1>4, <1>5, <1>6 DEF StoreOp

(* Only a tick's apply, delete_atom, a rollback and an import take an atom *)
(* away: cooling a store after its load, before the guest has registered   *)
(* hooks or roots (store.rs:518), removes nothing, whatever ids it is      *)
(* given and however stale the walk it refreshes from.                     *)
THEOREM RemovalsAreKnown == Spec => OnlyCollectionRemoves
<1>1. ASSUME [Next]_vars PROVE [Removal]_vars
  <2>1. CASE StoreOp
    BY <2>1, StoreOpRemoval
  <2>2. ASSUME NEW t \in Thread, TickStep(t) \/ HookPanics(t) \/ DecayStep(t)
        PROVE  Removal
    <3>1. CASE TickApply(t)
      BY <3>1 DEF Removal, ReapStep
    <3>2. CASE TickBegin(t) \/ TickWalk(t) \/ TickEnd(t) \/ HookPanics(t) \/ DecayStep(t)
      <4>1. atoms' = atoms
        BY <3>2 DEF TickBegin, TickWalk, TickEnd, HookPanics, DecayStep, DecayList,
           DecayCool, DecayNothing, DecaySnap, DecayWalk, DecayPanics, DecayRefresh,
           CoolAtoms, RefreshRetained, atomVars, data
      <4>2. QED
        BY <4>1 DEF Removal
    <3>3. QED
      BY <2>2, <3>1, <3>2 DEF TickStep
  <2>3. QED
    BY <1>1, <2>1, <2>2 DEF Next
<1>2. QED
  BY <1>1, PTL DEF Spec, OnlyCollectionRemoves, Removal

-----------------------------------------------------------------------------
(* Pins *)

(* What the guest has held since the snapshot is pinned until the walk     *)
(* reads the pins, and in the walk's result after it has.                  *)
HeldInv ==
  \A t \in Thread :
    /\ pc[t] = "walk" => snap[t].held \subseteq (IF snap[t].extra THEN pins ELSE {})
    /\ pc[t] = "apply" => snap[t].held \subseteq snap[t].reach

LEMMA StoreOpHeld ==
  ASSUME TypeOK, HeldInv, StoreOp PROVE HeldInv'
<1> USE DEF TypeOK, SnapType
<1>1. CASE UNCHANGED <<pins, pc, snap>>
  BY <1>1 DEF HeldInv
<1>2. CASE HookOp
  <2>1. CASE RegisterExtraReach
    BY <1>1, <2>1 DEF RegisterExtraReach, calls
  <2>2. CASE UnregisterExtraReach
    BY <2>2 DEF UnregisterExtraReach, Forget, HeldInv
  <2>3. CASE \E a \in AtomId : Pin(a)
    BY <2>3 DEF Pin, calls, HeldInv
  <2>4. CASE \E a \in AtomId : Unpin(a)
    <3>1. PICK a \in AtomId : Unpin(a)
      BY <2>4
    <3>2. /\ pins' = pins \ {a} /\ pc' = pc
          /\ \A t \in Thread : /\ snap'[t].held = snap[t].held \ {a}
                               /\ snap'[t].extra = snap[t].extra
                               /\ snap'[t].reach = snap[t].reach
      BY <3>1 DEF Unpin, Forget
    <3>3. QED
      BY <3>2 DEF HeldInv
  <2>5. QED
    BY <1>2, <2>1, <2>2, <2>3, <2>4 DEF HookOp
<1>3. QED
  BY <1>1, <1>2 DEF StoreOp, NewAtom, ChangeAtom, Rollback, NewBubble, ChangeBinding,
     ChangeRoot, ChangeEnvHook, Import, Loud, Quiet, hooks, calls

LEMMA ThreadStepHeld ==
  ASSUME TypeOK, HeldInv, NEW t \in Thread, TickStep(t) \/ HookPanics(t) \/ DecayStep(t)
  PROVE  HeldInv'
<1> USE DEF TypeOK, SnapType, HeldInv
<1>0. UNCHANGED pins
  BY DEF TickStep, HookPanics, DecayStep, TickBegin, TickWalk, TickApply, TickEnd, hooks,
     DecayList, DecayCool, DecayNothing, DecaySnap, DecayWalk, DecayPanics, DecayRefresh
<1>1. CASE TickBegin(t)
  BY <1>0, <1>1 DEF TickBegin, Step, TakeSnap
<1>2. CASE TickWalk(t)
  BY <1>0, <1>2 DEF TickWalk, Step, Walked
<1>3. CASE pc'[t] \notin {"walk", "apply"}
  BY <1>0, <1>3, ThreadStepSnap
<1>4. CASE \/ TickApply(t) \/ TickEnd(t) \/ HookPanics(t) \/ DecayList(t) \/ DecayCool(t)
           \/ DecayNothing(t) \/ DecaySnap(t) \/ DecayWalk(t) \/ DecayPanics(t) \/ DecayRefresh(t)
  <2>1. \E x \in {"idle", "end"} \cup CoolPC : pc' = [pc EXCEPT ![t] = x]
    BY <1>4 DEF TickApply, TickEnd, HookPanics, DecayList, DecayCool, DecayNothing,
       DecaySnap, DecayWalk, DecayPanics, DecayRefresh, Step, CoolPC
  <2>2. pc'[t] \notin {"walk", "apply"}
    BY <2>1 DEF CoolPC
  <2>3. QED
    BY <1>3, <2>2
<1>5. QED
  BY <1>1, <1>2, <1>4 DEF TickStep, DecayStep

LEMMA NextHeld == TypeOK /\ HeldInv /\ [Next]_vars => HeldInv'
<1>1. TypeOK /\ HeldInv /\ UNCHANGED vars => HeldInv'
  BY DEF vars, hooks, calls, HeldInv
<1>2. QED
  BY <1>1, StoreOpHeld, ThreadStepHeld DEF Next

(* An atom the guest held in its frames from a tick's snapshot to its      *)
(* apply is not reaped by that tick.                                       *)
THEOREM PinsSurvive == Spec => HeldPinsSurvive
<1>1. TypeOK /\ HeldInv /\ [Next]_vars => (TypeOK /\ HeldInv)'
  BY NextType, NextHeld
<1>2. Init => TypeOK /\ HeldInv
  BY InitType DEF Init, HeldInv
<1>3. TypeOK /\ HeldInv /\ [Next]_vars =>
        [\A t \in Thread : TickApply(t) => snap[t].held \cap atoms \subseteq atoms']_vars
  <2>1. ASSUME HeldInv, NEW t \in Thread, TickApply(t)
        PROVE  snap[t].held \cap atoms \subseteq atoms'
    <3>1. snap[t].held \subseteq snap[t].reach
      BY <2>1 DEF HeldInv, TickApply, Step
    <3>2. PICK D : atoms' = atoms \ D /\ D \cap snap[t].reach = {}
      BY <2>1, ApplyDooms DEF TickApply
    <3>3. QED
      BY <3>1, <3>2
  <2>2. QED
    BY <2>1
<1>4. QED
  BY <1>1, <1>2, <1>3, PTL DEF Spec, HeldPinsSurvive

-----------------------------------------------------------------------------
(* The refinement: every step of Store is a step of AtomicStore or leaves  *)
(* the data alone.  AtomicStore has the operations of Substrate under      *)
(* names of its own; these lemmas say that they are the same.              *)

LEMMA SameHelpers ==
  /\ Atomic!NoBubble = 0 /\ Atomic!NoToken = 0
  /\ Atomic!AtomId = AtomId /\ Atomic!BubbleId = BubbleId
  /\ Atomic!Temp = Temp /\ Atomic!Token = Token
  /\ \A x, y : Atomic!Upper(x, y) = Upper(x, y) /\ Atomic!Cooled(x, y) = Cooled(x, y)
               /\ Atomic!Heated(x, y) = Heated(x, y)
  /\ \A x : Atomic!NextId(x) = NextId(x) /\ Atomic!IsDead(x) = IsDead(x)
            /\ Atomic!NextBubbleId(x) = NextBubbleId(x)
            /\ Atomic!WriteHeat(x) = WriteHeat(x)
  /\ Atomic!KnownBubble = KnownBubble
  /\ Atomic!NoBindings = NoBindings
  BY DEF Atomic!NoBubble, Atomic!NoToken, Atomic!AtomId, Atomic!BubbleId, Atomic!Temp,
     Atomic!Token, Atomic!Upper, Upper, Atomic!Lower, Lower, Atomic!Cooled, Cooled,
     Atomic!Heated, Heated, Atomic!NextId, NextId, Atomic!IsDead, IsDead,
     Atomic!NextBubbleId, NextBubbleId,
     Atomic!WriteHeat, WriteHeat, Atomic!KnownBubble, KnownBubble,
     Atomic!NoBindings, NoBindings

LEMMA SameTuples == Atomic!atomVars = atomVars /\ Atomic!bubbleVars = bubbleVars
  BY DEF Atomic!atomVars, atomVars, Atomic!bubbleVars, bubbleVars

LEMMA SameRemoval ==
  \A D : /\ PurgeBindings(D) => Atomic!PurgeBindings(D)
         /\ RemoveAtoms(D) => Atomic!RemoveAtoms(D)
  BY SameHelpers DEF PurgeBindings, Atomic!PurgeBindings, RemoveAtoms, Atomic!RemoveAtoms

LEMMA SamePut == \A a, t, k : PutAtom(a, t, k) => Atomic!PutAtom(a, t, k)
  BY DEF PutAtom, Atomic!PutAtom

LEMMA SameAtomOp ==
  ASSUME NEW a \in AtomId, NEW t \in Temp, NEW k \in Token
  PROVE  /\ AtomNew(t) => Atomic!AtomOp
         /\ AtomSetGuest(a, k) => Atomic!AtomOp
         /\ AtomSetT(a, t) => Atomic!AtomOp
         /\ AtomUpsert(a, t, k) => Atomic!AtomOp
         /\ Heat(a) => Atomic!AtomOp
         /\ DeleteAtom(a) => Atomic!AtomOp
<1> USE SameHelpers, SameTuples
<1>1. AtomNew(t) => Atomic!AtomNew(t)
  BY SamePut DEF AtomNew, Atomic!AtomNew, bubbleVars, Atomic!bubbleVars
<1>2. AtomSetGuest(a, k) => Atomic!AtomSetGuest(a, k)
  BY DEF AtomSetGuest, Atomic!AtomSetGuest, bubbleVars, Atomic!bubbleVars
<1>3. AtomSetT(a, t) => Atomic!AtomSetT(a, t)
  BY DEF AtomSetT, Atomic!AtomSetT, bubbleVars, Atomic!bubbleVars
<1>4. AtomUpsert(a, t, k) => Atomic!AtomUpsert(a, t, k)
  BY SamePut DEF AtomUpsert, Atomic!AtomUpsert, bubbleVars, Atomic!bubbleVars
<1>5. Heat(a) => Atomic!Heat(a)
  BY DEF Heat, Atomic!Heat, bubbleVars, Atomic!bubbleVars
<1>6. DeleteAtom(a) => Atomic!DeleteAtom(a)
  BY SameRemoval DEF DeleteAtom, Atomic!DeleteAtom, bubbleVars, Atomic!bubbleVars
<1>7. QED
  BY <1>1, <1>2, <1>3, <1>4, <1>5, <1>6 DEF Atomic!AtomOp

LEMMA SameRestore ==
  ASSUME NEW e \in Rollbacks, RestoreAtoms(e) PROVE Atomic!AtomOp
<1>1. Atomic!RestoreAtoms(e)
  <2>1. \A m : IsMaxEntry(m, e) => Atomic!IsMaxEntry(m, e)
    BY DEF IsMaxEntry, Atomic!IsMaxEntry
  <2>2. QED
    BY <2>1, SameHelpers, SameTuples, SameRemoval
       DEF RestoreAtoms, Atomic!RestoreAtoms, bubbleVars, Atomic!bubbleVars
<1>2. QED
  BY <1>1 DEF Atomic!AtomOp

LEMMA SameBubbleOp ==
  ASSUME NEW p \in Token, NEW on \in BOOLEAN
  PROVE  /\ BubbleNew(p) => Atomic!BubbleOp
         /\ SetEnvHook(on) => Atomic!BubbleOp
<1> USE SameHelpers, SameTuples
<1>1. BubbleNew(p) => Atomic!BubbleNew(p)
  BY DEF BubbleNew, Atomic!BubbleNew, atomVars, Atomic!atomVars
<1>2. SetEnvHook(on) => Atomic!SetEnvHook(on)
  BY DEF SetEnvHook, Atomic!SetEnvHook, atomVars, Atomic!atomVars, bubbleVars, Atomic!bubbleVars
<1>3. QED
  BY <1>1, <1>2 DEF Atomic!BubbleOp

LEMMA SameRootOp ==
  ASSUME NEW b \in BubbleId
  PROVE  SetRoot(b) \/ UnsetRoot(b) => Atomic!BubbleOp
<1> USE SameHelpers, SameTuples
<1>1. SetRoot(b) => Atomic!SetRoot(b)
  BY DEF SetRoot, Atomic!SetRoot, atomVars, Atomic!atomVars, bubbleVars, Atomic!bubbleVars
<1>2. UnsetRoot(b) => Atomic!UnsetRoot(b)
  BY DEF UnsetRoot, Atomic!UnsetRoot, atomVars, Atomic!atomVars, bubbleVars, Atomic!bubbleVars
<1>3. QED
  BY <1>1, <1>2 DEF Atomic!BubbleOp

LEMMA SameBindingOp ==
  ASSUME NEW b \in BubbleId, NEW n \in Name, NEW a \in AtomId
  PROVE  /\ Bind(b, n, a) => Atomic!BubbleOp
         /\ Unbind(b, n) => Atomic!BubbleOp
         /\ Lookup(b, n) => Atomic!BubbleOp
<1> USE SameHelpers, SameTuples
<1>1. Bind(b, n, a) => Atomic!Bind(b, n, a)
  BY DEF Bind, Atomic!Bind, atomVars, Atomic!atomVars, bubbleVars, Atomic!bubbleVars
<1>2. Unbind(b, n) => Atomic!Unbind(b, n)
  BY DEF Unbind, Atomic!Unbind, atomVars, Atomic!atomVars, bubbleVars, Atomic!bubbleVars
<1>3. Lookup(b, n) => Atomic!Lookup(b, n)
  <2>1. Atomic!Ancestors(b) = Ancestors(b)
    BY Zenon DEF Ancestors, Atomic!Ancestors, Atomic!NoBubble
  <2>2. QED
    BY <2>1 DEF Lookup, Atomic!Lookup, bubbleVars, Atomic!bubbleVars
<1>4. QED
  BY <1>1, <1>2, <1>3 DEF Atomic!BubbleOp

LEMMA SameImport ==
  ASSUME NEW s, ImportSnapshot(s) PROVE Atomic!ImportSnapshot(s)
<1>1. \A m : IsNextBubble(m, s) => Atomic!IsNextBubble(m, s)
  BY SameHelpers DEF IsNextBubble, Atomic!IsNextBubble
<1>2. \A m : IsNextAtom(m, s) => Atomic!IsNextAtom(m, s)
  BY SameHelpers DEF IsNextAtom, Atomic!IsNextAtom, IsMaxEntry, Atomic!IsMaxEntry
<1>3. Atomic!ClosedSnapshot(s) = ClosedSnapshot(s)
  BY SameHelpers DEF ClosedSnapshot, Atomic!ClosedSnapshot
<1>4. QED
  BY <1>1, <1>2, <1>3, SameHelpers DEF ImportSnapshot, Atomic!ImportSnapshot

LEMMA SameReach == Atomic!ReachAtoms = ReachAtoms
<1>1. \A b, c : Atomic!Edge(b, c) = Edge(b, c)
  BY DEF Edge, Atomic!Edge
<1>2. \A S : Atomic!ClosedUnderEdges(S) = ClosedUnderEdges(S)
  BY <1>1, SameHelpers DEF ClosedUnderEdges, Atomic!ClosedUnderEdges
<1>3. Atomic!ReachBubbles = ReachBubbles
  BY <1>2, SameHelpers DEF ReachBubbles, Atomic!ReachBubbles
<1>4. QED
  BY <1>3 DEF ReachAtoms, Atomic!ReachAtoms

LEMMA SameApply ==
  ASSUME NEW reach, NEW reap, ApplyReach(reach, reap) PROVE Atomic!ApplyReach(reach, reap)
  BY SameHelpers, SameTuples, SameRemoval
     DEF ApplyReach, Atomic!ApplyReach, bubbleVars, Atomic!bubbleVars

LEMMA SameCool ==
  ASSUME NEW ids \in SUBSET AtomId, NEW steps \in [ids -> 0 .. TMax], CoolAtoms(steps)
  PROVE  Atomic!CoolOnly
<1>1. Atomic!CoolAtoms(steps)
  BY SameHelpers DEF CoolAtoms, Atomic!CoolAtoms, bubbleVars, Atomic!bubbleVars
<1>2. QED
  BY <1>1, SameHelpers DEF Atomic!CoolOnly

LEMMA SameRefresh ==
  ASSUME NEW reach \in SUBSET AtomId, RefreshRetained(reach) PROVE Atomic!Refresh
<1>1. Atomic!RefreshRetained(reach)
  BY SameHelpers DEF RefreshRetained, Atomic!RefreshRetained, atomVars, Atomic!atomVars,
     bubbleVars, Atomic!bubbleVars
<1>2. QED
  BY <1>1, SameHelpers DEF Atomic!Refresh

(* A stale apply reaps nothing, whatever its walk: any walk would do.      *)
LEMMA StaleApply ==
  ASSUME NEW reach, ApplyReach(reach, FALSE) PROVE ApplyReach(AtomId, FALSE)
  BY DEF ApplyReach

-----------------------------------------------------------------------------
(* A tick begins in a thermal store, and only an import makes one that is  *)
(* not: while reach_gen stands, the store an apply reaps is thermal.       *)
ThermalInv ==
  \A t \in Thread :
    pc[t] \in {"walk", "apply"} /\ snap[t].gen = reachGen => thermal

LEMMA ThermalKept ==
  ASSUME LawInv, ThermalInv, [Next]_vars PROVE ThermalInv'
<1> USE DEF LawInv, StoreInv, TypeOK, SnapType
<1>0. /\ reachGen \in Nat
      /\ \A t \in Thread : snap[t].gen \in Nat /\ snap[t].gen <= reachGen
  BY GenType DEF SnapCovers
<1>1. CASE StoreOp
  <2>1. pc' = pc /\ \A t \in Thread : snap'[t].gen = snap[t].gen
    BY <1>1, StoreOpCalls DEF Forget
  <2>2. reachGen' = reachGen + 1 \/ (reachGen' = reachGen /\ thermal' = thermal)
    <3>1. CASE NewAtom \/ ChangeAtom
      BY <3>1 DEF NewAtom, ChangeAtom, Loud, Quiet, TouchReach, AtomNew, AtomSetT, Heat, DeleteAtom
    <3>2. CASE Rollback \/ Import
      BY <3>2 DEF Rollback, Import, Loud, TouchReach
    <3>3. CASE NewBubble \/ ChangeEnvHook
      BY <3>3 DEF NewBubble, ChangeEnvHook, Loud, Quiet, TouchReach, BubbleNew, SetEnvHook
    <3>4. CASE ChangeBinding \/ ChangeRoot
      BY <3>4 DEF ChangeBinding, ChangeRoot, Loud, Quiet, TouchReach, Unbind, Lookup, UnsetRoot
    <3>5. CASE HookOp
      BY <3>5 DEF HookOp, RegisterExtraReach, UnregisterExtraReach, Pin, Unpin, TouchReach,
         hooks, data
    <3>6. QED
      BY <1>1, <3>1, <3>2, <3>3, <3>4, <3>5 DEF StoreOp
  <2>3. QED
    BY <1>0, <2>1, <2>2 DEF ThermalInv
<1>2. ASSUME NEW t \in Thread, TickStep(t) \/ HookPanics(t) \/ DecayStep(t)
      PROVE  ThermalInv'
  <2>1. UNCHANGED <<thermal, reachGen>>
    BY <1>2 DEF TickStep, HookPanics, DecayStep, TickBegin, TickWalk, TickApply, TickEnd,
       DecayList, DecayCool, DecayNothing, DecaySnap, DecayWalk, DecayPanics, DecayRefresh,
       data, ApplyReach, CoolAtoms, RefreshRetained
  <2>2. ASSUME NEW u \in Thread, u # t
        PROVE  pc'[u] = pc[u] /\ snap'[u] = snap[u]
    BY <1>2, <2>2, ThreadStepSnap
  <2>3. pc'[t] \in {"walk", "apply"} =>
          thermal \/ (pc[t] \in {"walk", "apply"} /\ snap'[t].gen = snap[t].gen)
    <3>1. CASE TickBegin(t)
      BY <3>1 DEF TickBegin
    <3>2. CASE TickWalk(t)
      BY <3>2 DEF TickWalk, Step, Walked
    <3>3. CASE TickApply(t) \/ TickEnd(t) \/ HookPanics(t) \/ DecayStep(t)
      BY <3>3 DEF TickApply, TickEnd, HookPanics, DecayStep, DecayList, DecayCool,
         DecayNothing, DecaySnap, DecayWalk, DecayPanics, DecayRefresh, Step, TickPC, CoolPC
    <3>4. QED
      BY <1>2, <3>1, <3>2, <3>3 DEF TickStep
  <2>4. QED
    BY <2>1, <2>2, <2>3 DEF ThermalInv
<1>3. CASE UNCHANGED vars
  BY <1>3 DEF vars, data, calls, ThermalInv
<1>4. QED
  BY <1>1, <1>2, <1>3 DEF Next

-----------------------------------------------------------------------------
LEMMA StoreOpRefines ==
  ASSUME TypeOK, StoreOp PROVE [Atomic!AtomicNext]_(Atomic!data)
<1> USE DEF TypeOK
<1>1. CASE NewAtom \/ ChangeAtom
  <2>1. PICK a \in AtomId, t \in Temp, k \in Token :
          \/ AtomNew(t) \/ AtomSetGuest(a, k) \/ AtomSetT(a, t)
          \/ AtomUpsert(a, t, k) \/ Heat(a) \/ DeleteAtom(a)
    <3>1. CASE NewAtom
      <4>1. PICK t \in {TInit, 0} : AtomNew(t)
        BY <3>1 DEF NewAtom, Quiet
      <4>2. t \in Temp /\ 0 \in AtomId /\ 0 \in Token
        OBVIOUS
      <4>3. QED
        BY <4>1, <4>2
    <3>2. CASE ChangeAtom
      <4>1. TInit \in Temp /\ 0 \in Temp /\ 0 \in Token
        OBVIOUS
      <4>2. QED
        BY <3>2, <4>1 DEF ChangeAtom, Loud, Quiet
    <3>3. QED
      BY <1>1, <3>1, <3>2
  <2>2. QED
    BY <2>1, SameAtomOp DEF Atomic!AtomicNext
<1>2. CASE Rollback
  BY <1>2, SameRestore DEF Rollback, Loud, Atomic!AtomicNext
<1>3. CASE NewBubble \/ ChangeRoot \/ ChangeEnvHook
  <2> SUFFICES Atomic!BubbleOp
    BY DEF Atomic!AtomicNext
  <2>1. CASE NewBubble
    <3>1. PICK p \in Token : BubbleNew(p)
      BY <2>1 DEF NewBubble, Quiet
    <3>2. TRUE \in BOOLEAN
      OBVIOUS
    <3>3. QED
      BY <3>1, <3>2, SameBubbleOp
  <2>2. CASE ChangeEnvHook
    <3>1. PICK on \in BOOLEAN : SetEnvHook(on)
      BY <2>2 DEF ChangeEnvHook, Quiet, Loud
    <3>2. 0 \in Token
      OBVIOUS
    <3>3. QED
      BY <3>1, <3>2, SameBubbleOp
  <2>3. CASE ChangeRoot
    <3>1. PICK b \in BubbleId : SetRoot(b) \/ UnsetRoot(b)
      BY <2>3 DEF ChangeRoot, Quiet, Loud
    <3>2. QED
      BY <3>1, SameRootOp
  <2>4. QED
    BY <1>3, <2>1, <2>2, <2>3
<1>4. CASE ChangeBinding
  <2>1. PICK b \in BubbleId, n \in Name, a \in AtomId :
          Bind(b, n, a) \/ Unbind(b, n) \/ Lookup(b, n)
    <3>1. PICK b \in BubbleId, n \in Name :
            (\E a \in AtomId : Bind(b, n, a)) \/ Unbind(b, n) \/ Lookup(b, n)
      BY <1>4 DEF ChangeBinding, Quiet, Loud
    <3>2. 0 \in AtomId
      OBVIOUS
    <3>3. QED
      BY <3>1, <3>2
  <2>2. Atomic!BubbleOp
    BY <2>1, SameBindingOp
  <2>3. QED
    BY <2>2 DEF Atomic!AtomicNext
<1>5. CASE Import
  <2>1. PICK s \in Snapshots : ImportSnapshot(s)
    BY <1>5 DEF Import
  <2>2. Atomic!ImportSnapshot(s)
    BY <2>1, SameImport
  <2>3. QED
    BY <2>2 DEF Atomic!AtomicNext
<1>6. CASE HookOp
  <2>1. data' = data
    BY <1>6 DEF HookOp, RegisterExtraReach, UnregisterExtraReach, Pin, Unpin, data
  <2>2. QED
    BY <2>1 DEF data, Atomic!data
<1>7. QED
  BY <1>1, <1>2, <1>3, <1>4, <1>5, <1>6 DEF StoreOp

LEMMA ApplyRefines ==
  ASSUME LawInv, ThermalInv, NEW t \in Thread, TickApply(t) PROVE Atomic!Collect
<1>1. pc[t] = "apply" /\ ApplyReach(snap[t].reach, reachGen = snap[t].gen)
  BY DEF TickApply, Step
<1>2. snap[t].reach \in SUBSET AtomId
  BY DEF LawInv, StoreInv, TypeOK, SnapType
<1>3. CASE reachGen = snap[t].gen
  <2>1. thermal /\ (intact => ReachAtoms \subseteq snap[t].reach)
    BY <1>1, <1>3 DEF LawInv, SnapCovers, Covers, ThermalInv
  <2>2. Atomic!ApplyReach(snap[t].reach, TRUE)
    BY <1>1, <1>3, SameApply
  <2>3. QED
    BY <1>2, <2>1, <2>2, SameReach, SameHelpers DEF Atomic!Collect
<1>4. CASE reachGen # snap[t].gen
  <2>1. Atomic!ApplyReach(AtomId, FALSE)
    BY <1>1, <1>4, StaleApply, SameApply
  <2>2. QED
    BY <2>1, SameHelpers DEF Atomic!Collect
<1>5. QED
  BY <1>3, <1>4

LEMMA StepRefines ==
  ASSUME LawInv, ThermalInv, [Next]_vars PROVE [Atomic!AtomicNext]_(Atomic!data)
<1> USE DEF LawInv, StoreInv
<1>1. CASE StoreOp
  BY <1>1, StoreOpRefines
<1>2. ASSUME NEW t \in Thread, TickStep(t) \/ HookPanics(t) \/ DecayStep(t)
      PROVE  [Atomic!AtomicNext]_(Atomic!data)
  <2>1. CASE TickApply(t)
    BY <2>1, ApplyRefines DEF Atomic!AtomicNext
  <2>2. CASE DecayCool(t)
    <3>1. snap[t].ids \in SUBSET AtomId
      BY DEF TypeOK, SnapType
    <3>2. QED
      BY <2>2, <3>1, SameCool DEF DecayCool, Atomic!AtomicNext
  <2>3. CASE DecayRefresh(t)
    <3>1. snap[t].reach \in SUBSET AtomId
      BY DEF TypeOK, SnapType
    <3>2. QED
      BY <2>3, <3>1, SameRefresh DEF DecayRefresh, Atomic!AtomicNext
  <2>4. CASE UNCHANGED data
    BY <2>4 DEF data, Atomic!data
  <2>5. CASE TickBegin(t) \/ TickWalk(t) \/ TickEnd(t) \/ HookPanics(t)
    BY <2>4, <2>5 DEF TickBegin, TickWalk, TickEnd, HookPanics
  <2>6. CASE DecayList(t) \/ DecayNothing(t) \/ DecaySnap(t) \/ DecayWalk(t) \/ DecayPanics(t)
    BY <2>4, <2>6 DEF DecayList, DecayNothing, DecaySnap, DecayWalk, DecayPanics
  <2>7. QED
    BY <1>2, <2>1, <2>2, <2>3, <2>5, <2>6 DEF TickStep, DecayStep
<1>3. CASE UNCHANGED vars
  <2>1. data' = data
    BY <1>3 DEF vars
  <2>2. QED
    BY <2>1 DEF data, Atomic!data
<1>4. QED
  BY <1>1, <1>2, <1>3 DEF Next

(* The tick in three critical sections, with the walk and the guest's      *)
(* hooks outside the mutex and every other call in between, implements the *)
(* store in which a tick is one step: what callers can see of the split is *)
(* a tick that reaps less.                                                 *)
THEOREM TickIsAtomic == ASSUME ~ ForwardRefs PROVE Spec => RefinesAtomic
<1>1. Init => LawInv /\ ThermalInv
  BY LawInvInit DEF Init, ThermalInv
<1>2. LawInv /\ ThermalInv /\ [Next]_vars => (LawInv /\ ThermalInv)'
  BY LawInvStep, ThermalKept
<1>3. Init => Atomic!DataInit
  BY SameHelpers DEF Init, DataInit, Atomic!DataInit
<1>4. LawInv /\ ThermalInv /\ [Next]_vars => [Atomic!AtomicNext]_(Atomic!data)
  BY StepRefines
<1>5. QED
  BY <1>1, <1>2, <1>3, <1>4, PTL DEF Spec, RefinesAtomic, Atomic!AtomicSpec
=============================================================================
