---------------------------- MODULE NativeStore ----------------------------
(***************************************************************************)
(* The Python Store (native/karmazyn_substrate_native.py): a shell around  *)
(* the Rust Store that keeps maps of its own beside it - a wrapper for     *)
(* each atom, logical names for the ids the core gave, and a copy of each  *)
(* bubble's bindings.  Every method takes the Store's lock; a background   *)
(* thread ticks.  Here is what the maps and the core say of the same atom. *)
(*                                                                         *)
(* An atom is its id.  Temperature is left out: a tick may reap any atom   *)
(* that no root bubble binds.  A bubble is a root and binds one name: the  *)
(* bubble consolidate makes for a logical name; reach is Substrate.tla's   *)
(* subject.                                                                *)
(*                                                                         *)
(* The Store strips the name it looks up and takes a string of digits for  *)
(* an id of the core.  A name that is the decimal string of a number is    *)
(* that number here, and Reads says what each name is taken for; a name    *)
(* taken for itself is plain.                                              *)
(***************************************************************************)
EXTENDS Integers, FiniteSetsExt

CONSTANTS
  Name,    \* logical ids given to create_atom
  Reads,   \* what a lookup takes a name for: a name, a number, or (blank) None
  MaxId,   \* bound: ids the core gives
  None     \* no id, no name, no snapshot

ASSUME NativeAssumption ==
  /\ MaxId \in Nat /\ None \notin Name \cup Nat
  /\ Reads \in [Name -> Name \cup Nat \cup {None}]

Plain == {n \in Name : Reads[n] = n /\ n \notin Nat}

Id == 0 .. MaxId

(* What _atoms may be: ids with the name each was created for. *)
Wrappers == UNION {[K -> Name \cup {None}] : K \in SUBSET Id}

VARIABLES
  core,     \* ids of the atoms in the Rust Store
  nextId,   \* its next_atom
  rooted,   \* its bindings: the atom each name's bubble binds
  wrap,     \* _atoms: metadata["_requested_id"] of each wrapper
  logical,  \* _logical
  pyBound,  \* NativeBubble.bindings of the same bubbles
  saved     \* what the last snapshot_atoms returned

native == <<core, nextId, rooted, wrap, logical, pyBound, saved>>

NativeTypeOK ==
  /\ core \subseteq Id /\ nextId \in 0 .. MaxId + 1
  /\ {rooted, logical, pyBound} \subseteq [Name -> Id \cup {None}]
  /\ wrap \in Wrappers /\ saved \in Wrappers \cup {None}

NativeInit ==
  /\ core = {} /\ nextId = 0
  /\ rooted = [n \in Name |-> None] /\ logical = rooted /\ pyBound = rooted
  /\ wrap = <<>> /\ saved = None

-----------------------------------------------------------------------------
(* A map of names without the entries that lead to ids of gone. *)
Without(map, gone) == [n \in Name |-> IF map[n] \in gone THEN None ELSE map[n]]

(* Mutant of FreshId: the id after the greatest that is present. *)
ReusedId == IF core = {} THEN 0 ELSE Max(core) + 1
FreshId == nextId

(* atom_new; the wrapper's _requested_id is set before anyone has its id. *)
AtomNew(n) ==
  /\ nextId <= MaxId
  /\ core' = core \cup {FreshId}
  /\ wrap' = [a \in DOMAIN wrap \cup {FreshId} |-> IF a = FreshId THEN n ELSE wrap[a]]
  /\ nextId' = nextId + 1

(* The atoms created for a name; the first is the one a scan of _atoms meets. *)
Requested(n) == {a \in DOMAIN wrap : wrap[a] = n}

(* The entry of a name, else the first atom whose wrapper asked for it. *)
Entry(n) == IF logical[n] # None \/ Requested(n) = {} THEN logical[n] ELSE Min(Requested(n))

(* Is what a name is taken for looked up, and not a number or nothing? *)
Looked(n) == Reads[n] \in Name \ Nat

(* _logical_real_locked *)
LogicalReal(n) == IF Looked(n) THEN Entry(Reads[n]) ELSE Reads[n]

(* _logical, as map, once that was looked up: the atom found is the entry. *)
LookedUp(map, n) ==
  IF Looked(n) THEN [map EXCEPT ![Reads[n]] = Entry(Reads[n])] ELSE map

(* create_atom enters the name, once the atom is made, if it is not digits *)
(* (of digits with blanks around it makes an entry that no lookup reads).  *)
Entered(n, a) == IF Reads[n] \in Nat THEN logical ELSE [logical EXCEPT ![n] = a]

(* get_atom of an id: None and a clean map when the core has no such atom. *)
Present(a) == a \in core
GetMap(map, a) == IF a = None \/ Present(a) THEN map ELSE Without(map, {a})

(* Mutant of PurgePy: the copies of the bindings are left as they are. *)
PurgeNothing(gone) == pyBound
(* _purge_py_bindings *)
PurgePy(gone) == Without(pyBound, gone)

(* delete_atom of an id that is present. *)
DeleteId(a) ==
  /\ core' = core \ {a}
  /\ rooted' = Without(rooted, {a})
  /\ wrap' = [b \in DOMAIN wrap \ {a} |-> wrap[b]]
  /\ pyBound' = PurgePy({a})

(* NativeBubble.bind in both maps. *)
Bind(n, a) ==
  /\ rooted' = [rooted EXCEPT ![n] = a]
  /\ pyBound' = [pyBound EXCEPT ![n] = a]

(* NativeBubble.unbind *)
Unbind(n) ==
  /\ pyBound' = [pyBound EXCEPT ![n] = None]
  /\ rooted' = [rooted EXCEPT ![n] = None]
  /\ UNCHANGED <<core, nextId, wrap, logical, saved>>

(* Mutant of SyncAfterGc: the wrappers of reaped atoms are kept. *)
SyncKeepsWrappers(left) ==
  /\ UNCHANGED wrap
  /\ logical' = Without(logical, DOMAIN wrap \ left)
  /\ pyBound' = PurgePy(Id \ left)
(* _sync_after_gc: the maps follow a tick that left these atoms. *)
SyncAfterGc(left) ==
  /\ wrap' = [a \in DOMAIN wrap \cap left |-> wrap[a]]
  /\ logical' = Without(logical, DOMAIN wrap \ left)
  /\ pyBound' = PurgePy(Id \ left)

(* tick: any atoms that no root reaches may have gone cold. *)
Tick ==
  \E reaped \in SUBSET (core \ {rooted[n] : n \in Name}) :
    /\ reaped # {}
    /\ core' = core \ reaped
    /\ SyncAfterGc(core \ reaped)
    /\ UNCHANGED <<nextId, rooted, saved>>

(* snapshot_atoms; bound: one transaction at a time. *)
SnapshotAtoms ==
  /\ saved' = wrap
  /\ UNCHANGED <<core, nextId, rooted, wrap, logical, pyBound>>

(* restore_atoms: the core and the wrappers are the snapshot's; names and  *)
(* the copies of bindings are left as they are.                            *)
RestoreAtoms ==
  /\ saved # None
  /\ core' = DOMAIN saved
  /\ wrap' = saved
  /\ rooted' = Without(rooted, core \ DOMAIN saved)
  /\ UNCHANGED <<nextId, logical, pyBound, saved>>

(* create_atom of a tool that uses the Store itself (the thermal surface,  *)
(* the satellite map): names are not looked at before.                     *)
CreateDirectly(n) ==
  /\ AtomNew(n)
  /\ logical' = Entered(n, FreshId)
  /\ UNCHANGED <<rooted, pyBound, saved>>
=============================================================================
