----------------------------- MODULE Substrate -----------------------------
(***************************************************************************)
(* The data of the KarmazynOS Store (native/karmazyn_substrate, store.rs)  *)
(* and the operations on it: atoms with a temperature and a guest token,   *)
(* bubbles that bind names to atoms, roots, and the reachability walk that *)
(* decides whether a cold atom may be reaped.  Every operator below is the *)
(* part of one Store method that runs under the mutex and touches this     *)
(* data.  Store.tla adds what makes the method concurrent: the reach_gen   *)
(* counter, the ticking flag and the phases of a tick.                     *)
(*                                                                         *)
(* A temperature is the number of decays that leave the atom alive, so     *)
(* T < T_TOMB is level 0; a token is the bubble the guest's env_of hook    *)
(* answers for it (0: none); labels, payloads and the touch counters are   *)
(* left out, no operation below branches on them.                          *)
(***************************************************************************)
EXTENDS Integers

CONSTANTS
  MaxAtomId,    \* u32::MAX scaled down: where next_atom saturates
  MaxBubbleId,  \* u32::MAX scaled down again: where next_bubble saturates
  Name,         \* names a bubble can bind
  Unbound,      \* a name with no binding
  TMax,         \* T_MAX, in levels
  TInit,        \* T_INIT, in levels
  HeatRead,     \* HEAT_READ, in levels
  HeatWrite,    \* HEAT_WRITE, in levels
  ThermalInit,  \* what Store::new may be given for thermal
  ForwardRefs,  \* may a caller name a bubble that bubble_new has not returned
  Snapshots,    \* the snapshots import_snapshot may be given
  Rollbacks     \* the entries restore_atoms may be given

AtomId   == 0 .. MaxAtomId
BubbleId == 1 .. MaxBubbleId
NoBubble == 0
Temp     == 0 .. TMax
Token    == {NoBubble} \cup BubbleId
NoToken  == NoBubble
Binding  == AtomId \cup {Unbound}

(* Entries of restore_atoms: some ids, each with its temperature and token. *)
EntryType == UNION {[K -> [t : Temp, tok : Token]] : K \in SUBSET AtomId}

SnapshotType ==
  [thermal : BOOLEAN, nextAtom : AtomId, nextBubble : 0 .. MaxBubbleId,
   atoms : EntryType, bubbles : SUBSET BubbleId,
   parent : [BubbleId -> Token], binds : [BubbleId -> [Name -> Binding]],
   roots : SUBSET BubbleId]

(* A snapshot whose bubble references all resolve, parents to older        *)
(* bubbles, as an export's do of a store that is intact.  Nobody checks a  *)
(* file for that: a damaged one may hold dangling or cyclic references.    *)
ClosedSnapshot(s) ==
  /\ \A b \in s.bubbles : s.parent[b] \in s.bubbles \cup {NoBubble} /\ s.parent[b] < b
  /\ \A a \in DOMAIN s.atoms : s.atoms[a].tok \in s.bubbles \cup {NoBubble}

ASSUME SizesAssumption ==
  /\ MaxAtomId \in Nat
  /\ MaxBubbleId \in Nat \ {0}
  /\ TMax \in Nat \ {0}
  /\ TInit \in 1 .. TMax
  /\ HeatRead \in Nat \ {0}
  /\ HeatWrite \in Nat \ {0}
  /\ Unbound \notin AtomId
  /\ ThermalInit \subseteq BOOLEAN
  /\ ForwardRefs \in BOOLEAN

ASSUME InputsAssumption ==
  /\ Snapshots \subseteq SnapshotType
  /\ Rollbacks \subseteq EntryType

VARIABLES
  thermal,     \* Inner.thermal
  atoms,       \* ids present in Inner.atoms
  temp,        \* Atom.t, 0 for an id that is not present
  tok,         \* Atom.value_token, NoToken for an id that is not present
  nextAtom,    \* Inner.next_atom
  bubbles,     \* ids present in Inner.bubbles
  parent,      \* Bubble.parent, NoBubble for None
  binds,       \* Bubble.bindings
  nextBubble,  \* Inner.next_bubble
  roots,       \* Inner.roots
  envHook,     \* is an env_of hook registered
  retained,    \* Inner.retained_tomb
  intact       \* history: was what was last imported a ClosedSnapshot, and
               \* has bubble_new put no bubble in the place of another since

atomVars   == <<atoms, temp, tok, nextAtom>>
bubbleVars == <<bubbles, parent, nextBubble, intact>>
data == <<thermal, atoms, temp, tok, nextAtom, bubbles, parent, binds,
          nextBubble, roots, envHook, retained, intact>>

DataTypeOK ==
  /\ thermal \in BOOLEAN
  /\ atoms \subseteq AtomId
  /\ temp \in [AtomId -> Temp]
  /\ tok \in [AtomId -> Token]
  /\ nextAtom \in AtomId
  /\ bubbles \subseteq BubbleId
  /\ parent \in [BubbleId -> Token]
  /\ binds \in [BubbleId -> [Name -> Binding]]
  /\ nextBubble \in BubbleId
  /\ roots \subseteq BubbleId
  /\ envHook \in BOOLEAN
  /\ retained \subseteq AtomId
  /\ intact \in BOOLEAN

NoBindings == [n \in Name |-> Unbound]

(* Store::new: an empty store; bubble ids start at 1. *)
DataInit ==
  /\ thermal \in ThermalInit
  /\ atoms = {}
  /\ temp = [a \in AtomId |-> 0]
  /\ tok = [a \in AtomId |-> NoToken]
  /\ nextAtom = 0
  /\ bubbles = {}
  /\ parent = [b \in BubbleId |-> NoBubble]
  /\ binds = [b \in BubbleId |-> NoBindings]
  /\ nextBubble = 1
  /\ roots = {}
  /\ envHook = FALSE
  /\ retained = {}
  /\ intact = TRUE

-----------------------------------------------------------------------------
(* Temperature *)

Lower(x, y) == IF x <= y THEN x ELSE y
Upper(x, y) == IF x >= y THEN x ELSE y

IsDead(t)     == t = 0
Cooled(t, n)  == Upper(t - n, 0)          \* n calls of Atom::decay
(* Mutant of Heated: the clamp to T_MAX is forgotten. *)
HeatedUnclamped(t, by) == t + by

Heated(t, by) == Lower(t + by, TMax)      \* Atom::heat, clamped
WriteHeat(t)  == IF thermal THEN Heated(t, HeatWrite) ELSE t

NextId(id) == Lower(id + 1, MaxAtomId)    \* saturating_add
NextBubbleId(id) == Lower(id + 1, MaxBubbleId)

-----------------------------------------------------------------------------
(* Reachability: ReachSnap::reach over the current data. *)

(* What an unvisited bubble may be entered from: a bound atom whose token  *)
(* the hook maps to it, or a child that names it as parent.                *)
Edge(b, c) ==
  \/ parent[b] = c
  \/ /\ envHook
     /\ \E n \in Name : binds[b][n] \in atoms /\ tok[binds[b][n]] = c

ClosedUnderEdges(S) ==
  /\ roots \subseteq S
  /\ \A b \in S \cap bubbles, c \in BubbleId : Edge(b, c) => c \in S

(* The ids the stack ever holds: the least set that contains the roots and *)
(* is closed under Edge.                                                   *)
ReachBubbles ==
  {b \in BubbleId : \A S \in SUBSET BubbleId : ClosedUnderEdges(S) => b \in S}

ReachAtoms ==
  {a \in atoms : \E b \in ReachBubbles \cap bubbles, n \in Name : binds[b][n] = a}

-----------------------------------------------------------------------------
(* Atoms *)

(* Mutant of PurgeBindings: an atom goes and its names stay. *)
PurgeNothing(D) == UNCHANGED binds

(* purge_bindings for every atom of the set D. *)
PurgeBindings(D) ==
  binds' = [b \in BubbleId |->
             [n \in Name |-> IF binds[b][n] \in D THEN Unbound ELSE binds[b][n]]]

RemoveAtoms(D) ==
  /\ atoms' = atoms \ D
  /\ tok' = [a \in AtomId |-> IF a \in D THEN NoToken ELSE tok[a]]
  /\ PurgeBindings(D)

PutAtom(a, t, k) ==
  /\ atoms' = atoms \cup {a}
  /\ temp' = [temp EXCEPT ![a] = t]
  /\ tok' = [tok EXCEPT ![a] = k]

(* Tokens and parents a caller may pass. *)
KnownBubble == IF ForwardRefs THEN Token ELSE {NoBubble} \cup bubbles

AtomNew(t) ==
  /\ PutAtom(nextAtom, t, NoToken)
  /\ nextAtom' = NextId(nextAtom)
  /\ UNCHANGED <<thermal, bubbleVars, binds, roots, envHook, retained>>

(* atom_set_guest; on a missing atom it only touches reach_gen. *)
AtomSetGuest(a, k) ==
  /\ k \in KnownBubble
  /\ IF a \in atoms
       THEN /\ tok' = [tok EXCEPT ![a] = k]
            /\ temp' = [temp EXCEPT ![a] = WriteHeat(@)]
       ELSE UNCHANGED <<tok, temp>>
  /\ UNCHANGED <<thermal, atoms, nextAtom, bubbleVars, binds, roots, envHook, retained>>

AtomSetT(a, t) ==
  /\ a \in atoms
  /\ temp' = [temp EXCEPT ![a] = t]
  /\ UNCHANGED <<thermal, atoms, tok, nextAtom, bubbleVars, binds, roots, envHook, retained>>

Heat(a) ==
  /\ a \in atoms
  /\ temp' = [temp EXCEPT ![a] = Heated(@, HeatRead)]
  /\ UNCHANGED <<thermal, atoms, tok, nextAtom, bubbleVars, binds, roots, envHook, retained>>

AtomUpsert(a, t, k) ==
  /\ k \in KnownBubble
  /\ PutAtom(a, t, k)
  /\ retained' = IF a \in atoms THEN retained ELSE retained \ {a}
  /\ nextAtom' = IF a >= nextAtom THEN NextId(a) ELSE nextAtom
  /\ UNCHANGED <<thermal, bubbleVars, binds, roots, envHook>>

DeleteAtom(a) ==
  /\ a \in atoms
  /\ RemoveAtoms({a})
  /\ temp' = [temp EXCEPT ![a] = 0]
  /\ retained' = retained \ {a}
  /\ UNCHANGED <<thermal, nextAtom, bubbleVars, roots, envHook>>

(* m is the largest id of the entries e, as restore_atoms finds it from 0. *)
IsMaxEntry(m, e) == m \in DOMAIN e \cup {0} /\ \A a \in DOMAIN e : a <= m

(* restore_atoms: the rollback of a transaction. *)
RestoreAtoms(e) ==
  /\ \A a \in DOMAIN e : e[a].tok \in KnownBubble
  /\ atoms' = DOMAIN e
  /\ temp' = [a \in AtomId |-> IF a \in DOMAIN e THEN e[a].t ELSE 0]
  /\ tok' = [a \in AtomId |-> IF a \in DOMAIN e THEN e[a].tok ELSE NoToken]
  /\ PurgeBindings(atoms \ DOMAIN e)
  /\ retained' = retained \ (atoms \cup DOMAIN e)
  /\ \E m \in AtomId : IsMaxEntry(m, e) /\ nextAtom' = Upper(NextId(m), nextAtom)
  /\ UNCHANGED <<thermal, bubbleVars, roots, envHook>>

-----------------------------------------------------------------------------
(* Bubbles *)

(* When the ids have run out, the new bubble replaces the one of that id:  *)
(* its bindings go, its parent is another, and what names it stays.        *)
BubbleNew(p) ==
  /\ p \in KnownBubble
  /\ bubbles' = bubbles \cup {nextBubble}
  /\ parent' = [parent EXCEPT ![nextBubble] = p]
  /\ binds' = [binds EXCEPT ![nextBubble] = NoBindings]
  /\ nextBubble' = NextBubbleId(nextBubble)
  /\ intact' = (intact /\ nextBubble \notin bubbles)
  /\ UNCHANGED <<thermal, atomVars, roots, envHook, retained>>

Bind(b, n, a) ==
  /\ a \in atoms
  /\ b \in bubbles
  /\ binds' = [binds EXCEPT ![b][n] = a]
  /\ UNCHANGED <<thermal, atomVars, bubbleVars, roots, envHook, retained>>

Unbind(b, n) ==
  /\ b \in bubbles
  /\ binds' = [binds EXCEPT ![b][n] = Unbound]
  /\ UNCHANGED <<thermal, atomVars, bubbleVars, roots, envHook, retained>>

SetRoot(b) ==
  /\ b \in bubbles \ roots
  /\ roots' = roots \cup {b}
  /\ UNCHANGED <<thermal, atomVars, bubbleVars, binds, envHook, retained>>

UnsetRoot(b) ==
  /\ roots' = roots \ {b}
  /\ UNCHANGED <<thermal, atomVars, bubbleVars, binds, envHook, retained>>

SetEnvHook(on) ==
  /\ envHook' = on
  /\ UNCHANGED <<thermal, atomVars, bubbleVars, binds, roots, retained>>

(* The ancestors of b, b itself at distance 0. *)
Ancestors(b) ==
  LET up[k \in 0 .. MaxBubbleId] ==
        IF k = 0 THEN b
        ELSE IF up[k - 1] \in bubbles THEN parent[up[k - 1]] ELSE NoBubble
  IN up

(* lookup: the nearest enclosing binding of n that names a present atom;   *)
(* the read heats it when the store is thermal.                            *)
Lookup(b, n) ==
  LET up    == Ancestors(b)
      found == {k \in 0 .. MaxBubbleId :
                  up[k] \in bubbles /\ binds[up[k]][n] \in atoms}
  IN /\ thermal
     /\ \E k \in found :
          /\ \A j \in found : k <= j
          /\ temp' = [temp EXCEPT ![binds[up[k]][n]] = Heated(@, HeatRead)]
     /\ UNCHANGED <<thermal, atoms, tok, nextAtom, bubbleVars, binds, roots,
                    envHook, retained>>

-----------------------------------------------------------------------------
(* Snapshot import *)

(* Mutants of IsNextBubble and IsNextAtom: the file's counter is trusted.  *)
NextBubbleTrusted(m, s) == m = Upper(s.nextBubble, 1)
NextAtomTrusted(m, s) == m = s.nextAtom

(* next_bubble after the import: past every imported id until it saturates, *)
(* and never 0.                                                            *)
IsNextBubble(m, s) ==
  IF \E b \in s.bubbles : b >= s.nextBubble
    THEN \E k \in s.bubbles : (\A b \in s.bubbles : b <= k) /\ m = NextBubbleId(k)
    ELSE m = Upper(s.nextBubble, 1)

IsNextAtom(m, s) ==
  IF \E a \in DOMAIN s.atoms : a >= s.nextAtom
    THEN \E k \in AtomId : IsMaxEntry(k, s.atoms) /\ m = NextId(k)
    ELSE m = s.nextAtom

(* import_snapshot replaces the data; a binding whose atom or bubble the   *)
(* snapshot lacks and a root that is not a bubble are dropped.             *)
ImportSnapshot(s) ==
  /\ thermal' = s.thermal
  /\ atoms' = DOMAIN s.atoms
  /\ temp' = [a \in AtomId |-> IF a \in DOMAIN s.atoms THEN s.atoms[a].t ELSE 0]
  /\ tok' = [a \in AtomId |-> IF a \in DOMAIN s.atoms THEN s.atoms[a].tok ELSE NoToken]
  /\ \E m \in AtomId : IsNextAtom(m, s) /\ nextAtom' = m
  /\ bubbles' = s.bubbles
  /\ parent' = [b \in BubbleId |-> IF b \in s.bubbles THEN s.parent[b] ELSE NoBubble]
  /\ binds' = [b \in BubbleId |-> [n \in Name |->
                 IF b \in s.bubbles /\ s.binds[b][n] \in DOMAIN s.atoms
                   THEN s.binds[b][n] ELSE Unbound]]
  /\ \E m \in BubbleId : IsNextBubble(m, s) /\ nextBubble' = m
  /\ roots' = s.roots \cap s.bubbles
  /\ retained' = {}
  /\ intact' = ClosedSnapshot(s)
  /\ UNCHANGED envHook

-----------------------------------------------------------------------------
(* Cooling and collection *)

(* apply_reach: cool every atom, then keep, retain or reap the dead ones.  *)
(* reap is FALSE when the walk it is given has gone stale.                 *)
ApplyReach(reach, reap) ==
  LET cool   == [a \in AtomId |-> IF a \in atoms THEN Cooled(temp[a], 1) ELSE 0]
      dead   == {a \in atoms : IsDead(cool[a])}
      doomed == IF reap THEN dead \ reach ELSE {}
      kept   == IF reap THEN dead \cap reach ELSE {}
  IN /\ RemoveAtoms(doomed)
     /\ temp' = cool
     /\ retained' = ((retained \ (atoms \ dead)) \cup kept) \ doomed
     /\ UNCHANGED <<thermal, nextAtom, bubbleVars, roots, envHook>>

(* Mutant of CoolAtoms: what turns cold is dropped at once. *)
CoolAtomsReaping(steps) ==
  /\ temp' = [a \in AtomId |-> IF a \in DOMAIN steps \cap atoms
                               THEN Cooled(temp[a], steps[a]) ELSE temp[a]]
  /\ RemoveAtoms({a \in DOMAIN steps \cap atoms : IsDead(Cooled(temp[a], steps[a]))})
  /\ UNCHANGED <<thermal, nextAtom, bubbleVars, roots, envHook, retained>>

(* decay_to_tick, first half: a stamped atom loses the levels its stamp    *)
(* owes; TMax of them leave any atom cold.                                 *)
CoolAtoms(steps) ==
  /\ temp' = [a \in AtomId |-> IF a \in DOMAIN steps \cap atoms
                               THEN Cooled(temp[a], steps[a]) ELSE temp[a]]
  /\ UNCHANGED <<thermal, atoms, tok, nextAtom, bubbleVars, binds, roots, envHook, retained>>

(* Mutant of RefreshRetained: atoms that went since the walk are listed.   *)
RefreshRetainedStale(reach) ==
  /\ retained' = (retained \ atoms) \cup {a \in reach : IsDead(temp[a])}
  /\ UNCHANGED <<thermal, atomVars, bubbleVars, binds, roots, envHook>>

(* refresh_retained, second half: the retained set is rebuilt from a walk. *)
RefreshRetained(reach) ==
  /\ retained' = (retained \ atoms) \cup {a \in atoms : IsDead(temp[a]) /\ a \in reach}
  /\ UNCHANGED <<thermal, atomVars, bubbleVars, binds, roots, envHook>>
=============================================================================
