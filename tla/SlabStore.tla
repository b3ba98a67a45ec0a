----------------------------- MODULE SlabStore -----------------------------
(***************************************************************************)
(* The freestanding Store of native/karmazyn_slab (lib.rs), which          *)
(* boot/kentry runs without a heap: the rules of the host Store in tables  *)
(* of fixed size.  What the tables change is modelled in full: slots are   *)
(* found by scanning, and used again; a bubble holds MAX_BINDS names, cut  *)
(* to MAX_LABEL; a walk keeps its stack in an array of MAX_BUBBLES and     *)
(* drops what does not fit.  A temperature is the number of decays that    *)
(* leave the atom alive, as in Substrate: the rate is set once, before the *)
(* first atom, as boot/kentry does, and is at most 1.                      *)
(***************************************************************************)
EXTENDS Integers, Sequences, SequencesExt

CONSTANTS
  MAX_ATOMS, MAX_BUBBLES, MAX_ROOTS, MAX_BINDS,  \* the sizes of the tables
  Name,   \* names a caller binds
  Long,   \* those of more than MAX_LABEL bytes
  Cut,    \* the bytes of a long name that are stored
  Absent, \* an empty slot, an absent bubble
  TMax    \* T_MAX, in levels

AtomId   == 0 .. MAX_ATOMS - 1
Bid      == 0 .. MAX_BUBBLES - 1
BindSlot == 1 .. MAX_BINDS
Temp     == 0 .. TMax

ASSUME SlabAssumption ==
  /\ {MAX_ATOMS, MAX_BUBBLES, MAX_ROOTS, MAX_BINDS, TMax} \subseteq Nat \ {0}
  /\ Long \subseteq Name
  /\ Cut \notin Name
  /\ Absent \notin Bid

Binding == [name : (Name \ Long) \cup {Cut}, aid : AtomId]

VARIABLES
  atoms,     \* slots of SlabStore.atoms in use
  temp,      \* SlabAtom.t, 0 for a free slot
  env,       \* SlabAtom.env_bubble
  bubbles,   \* slots of SlabStore.bubbles in use
  parent,    \* SlabBubble.parent
  binds,     \* SlabBubble.binds
  roots,     \* SlabStore.roots, up to root_len
  retained   \* SlabStore.retained

slabVars == <<atoms, temp, env, bubbles, parent, binds, roots, retained>>

(* Every table holds what its type allows, and none overflows. *)
SlabTypeOK ==
  /\ atoms \subseteq AtomId
  /\ temp \in [AtomId -> Temp]
  /\ env \in [AtomId -> Bid \cup {Absent}]
  /\ bubbles \subseteq Bid
  /\ parent \in [Bid -> Bid \cup {Absent}]
  /\ binds \in [Bid -> [BindSlot -> Binding \cup {Absent}]]
  /\ roots \in Seq(Bid) /\ Len(roots) <= MAX_ROOTS
  /\ retained \subseteq AtomId

FreeBinds == [i \in BindSlot |-> Absent]

SlabInit ==
  /\ atoms = {}
  /\ temp = [a \in AtomId |-> 0]
  /\ env = [a \in AtomId |-> Absent]
  /\ bubbles = {}
  /\ parent = [b \in Bid |-> Absent]
  /\ binds = [b \in Bid |-> FreeBinds]
  /\ roots = <<>>
  /\ retained = {}

-----------------------------------------------------------------------------
(* Scanning a table *)

First(S) == CHOOSE i \in S : \A j \in S : i <= j

(* What is left of s, in order, when x is passed over. *)
Without(s, x) ==
  LET kept[n \in 0 .. Len(s)] ==
        IF n = 0 THEN <<>> ELSE IF s[n] = x THEN kept[n - 1] ELSE Append(kept[n - 1], s[n])
  IN kept[Len(s)]

-----------------------------------------------------------------------------
(* Atoms *)

(* Mutant of Clamped: the temperature has no ceiling. *)
Unclamped(t) == t

Clamped(t) == IF t > TMax THEN TMax ELSE IF t < 0 THEN 0 ELSE t

(* With no slot free atom_new returns None. *)
AtomNew(t) ==
  /\ atoms # AtomId
  /\ LET id == First(AtomId \ atoms) IN
       /\ atoms' = atoms \cup {id}
       /\ temp' = [temp EXCEPT ![id] = t]
       /\ env' = [env EXCEPT ![id] = Absent]
       /\ retained' = retained \ {id}
  /\ UNCHANGED <<bubbles, parent, binds, roots>>

Heat(a, by) ==
  /\ a \in atoms
  /\ temp' = [temp EXCEPT ![a] = Clamped(@ + by)]
  /\ UNCHANGED <<atoms, env, bubbles, parent, binds, roots, retained>>

SetEnvBubble(a, b) ==
  /\ a \in atoms
  /\ b \in bubbles \cup {Absent}
  /\ env' = [env EXCEPT ![a] = b]
  /\ UNCHANGED <<atoms, temp, bubbles, parent, binds, roots, retained>>

-----------------------------------------------------------------------------
(* Bubbles *)

BubbleNew(p) ==
  /\ p \in bubbles \cup {Absent}
  /\ bubbles # Bid
  /\ LET id == First(Bid \ bubbles) IN
       /\ bubbles' = bubbles \cup {id}
       /\ parent' = [parent EXCEPT ![id] = p]
       /\ binds' = [binds EXCEPT ![id] = FreeBinds]
  /\ UNCHANGED <<atoms, temp, env, roots, retained>>

(* Mutant of BubbleDrop: tokens and children keep pointing at the slot. *)
BubbleDropAlone(b) ==
  /\ b \in bubbles
  /\ \A r \in DOMAIN roots : roots[r] # b
  /\ binds[b] = FreeBinds
  /\ bubbles' = bubbles \ {b}
  /\ parent' = [parent EXCEPT ![b] = Absent]
  /\ UNCHANGED <<atoms, temp, env, binds, roots, retained>>

BubbleDrop(b) ==
  /\ b \in bubbles
  /\ \A r \in DOMAIN roots : roots[r] # b
  /\ binds[b] = FreeBinds
  /\ bubbles' = bubbles \ {b}
  /\ env' = [a \in AtomId |-> IF env[a] = b THEN Absent ELSE env[a]]
  /\ parent' = [c \in Bid |-> IF c = b \/ parent[c] = b THEN Absent ELSE parent[c]]
  /\ UNCHANGED <<atoms, temp, binds, roots, retained>>

(* from_str keeps MAX_LABEL bytes; eq_str compares them with the whole     *)
(* name, which a long name never equals.                                   *)
Stored(n) == IF n \in Long THEN Cut ELSE n

Named(b, n) == {i \in BindSlot : binds[b][i] # Absent /\ binds[b][i].name = n}
FreeBindSlots(b) == {i \in BindSlot : binds[b][i] = Absent}

(* Mutant of Bind: a name already bound is not looked for. *)
BindAgain(b, n, a) ==
  /\ b \in bubbles /\ a \in atoms
  /\ FreeBindSlots(b) # {}
  /\ binds' = [binds EXCEPT ![b][First(FreeBindSlots(b))] = [name |-> Stored(n), aid |-> a]]
  /\ UNCHANGED <<atoms, temp, env, bubbles, parent, roots, retained>>

Bind(b, n, a) ==
  /\ b \in bubbles /\ a \in atoms
  /\ \/ /\ Named(b, n) # {}
        /\ binds' = [binds EXCEPT ![b][First(Named(b, n))].aid = a]
     \/ /\ Named(b, n) = {} /\ FreeBindSlots(b) # {}
        /\ binds' = [binds EXCEPT ![b][First(FreeBindSlots(b))] = [name |-> Stored(n), aid |-> a]]
  /\ UNCHANGED <<atoms, temp, env, bubbles, parent, roots, retained>>

SetRoot(b) ==
  /\ b \in bubbles
  /\ \A r \in DOMAIN roots : roots[r] # b
  /\ Len(roots) < MAX_ROOTS
  /\ roots' = Append(roots, b)
  /\ UNCHANGED <<atoms, temp, env, bubbles, parent, binds, retained>>

UnsetRoot(b) ==
  /\ roots' = Without(roots, b)
  /\ UNCHANGED <<atoms, temp, env, bubbles, parent, binds, retained>>

-----------------------------------------------------------------------------
(* walk_reach *)

(* A walk: its stack, the bubbles seen, the atoms reached, and (history)   *)
(* the bubbles that did not fit on the stack.                              *)
PushAll(w, s) ==
  LET room == MAX_BUBBLES - Len(w.stack)
      fits == IF Len(s) <= room THEN Len(s) ELSE room
  IN [w EXCEPT !.stack = @ \o SubSeq(s, 1, fits),
               !.lost  = @ \cup {s[i] : i \in fits + 1 .. Len(s)}]

BoundAtoms(b) == {a \in atoms : \E i \in BindSlot : binds[b][i] # Absent /\ binds[b][i].aid = a}

(* Mutant of LeadsTo: parents are not followed. *)
LeadsToEnvs(b) ==
  Without([i \in BindSlot |->
             IF binds[b][i] = Absent \/ binds[b][i].aid \notin atoms THEN Absent
             ELSE env[binds[b][i].aid]], Absent)

(* Where b leads: the environments of its bound atoms, slot by slot, then  *)
(* its parent.                                                             *)
LeadsTo(b) ==
  LET envOf(i) == IF binds[b][i] = Absent \/ binds[b][i].aid \notin atoms THEN Absent
                  ELSE env[binds[b][i].aid]
  IN Without(Append([i \in BindSlot |-> envOf(i)], parent[b]), Absent)

Pop(w) ==
  LET b == Last(w.stack)
      popped == [w EXCEPT !.stack = Front(@), !.seen = @ \cup {b}]
  IN IF b \in w.seen \/ b \notin bubbles THEN popped
     ELSE PushAll([popped EXCEPT !.reach = @ \cup BoundAtoms(b)], LeadsTo(b))

(* A pop for every root, slot and parent is enough to empty the stack. *)
MaxPops == MAX_ROOTS + MAX_BUBBLES * (MAX_BINDS + 1)

NoWalk == [stack |-> <<>>, seen |-> {}, reach |-> {}, lost |-> {}]

Popped(w) == IF w.stack = <<>> THEN w ELSE Pop(w)

Walk ==
  LET after[n \in 0 .. MaxPops] == IF n = 0 THEN PushAll(NoWalk, roots) ELSE Popped(after[n - 1])
  IN after[MaxPops]

-----------------------------------------------------------------------------
(* tick *)

(* The tick given the atoms its walk has reached; purge is TRUE.           *)
Collect(reach, purge) ==
  LET cool   == [a \in AtomId |-> IF a \in atoms THEN Clamped(temp[a] - 1) ELSE 0]
      dead   == {a \in atoms : cool[a] = 0}
      doomed == dead \ reach
  IN /\ UNCHANGED <<bubbles, parent, roots>>
     /\ temp' = cool
     /\ atoms' = atoms \ doomed
     /\ env' = [a \in AtomId |-> IF a \in doomed THEN Absent ELSE env[a]]
     /\ binds' = [b \in Bid |-> [i \in BindSlot |->
                    IF purge /\ binds[b][i] # Absent /\ binds[b][i].aid \in doomed
                      THEN Absent ELSE binds[b][i]]]
     /\ retained' = dead \cap reach

(* Mutants of Tick: names of a reaped atom stay; nothing is ever reaped.   *)
TickUnpurged == Collect(Walk.reach, FALSE)
TickKeeping  == Collect(atoms, TRUE)

Tick == Collect(Walk.reach, TRUE)

Reset ==
  /\ atoms' = {} /\ bubbles' = {} /\ roots' = <<>> /\ retained' = {}
  /\ temp' = [a \in AtomId |-> 0]
  /\ env' = [a \in AtomId |-> Absent]
  /\ parent' = [b \in Bid |-> Absent]
  /\ binds' = [b \in Bid |-> FreeBinds]

AtomOp ==
  \/ \E t \in Temp : AtomNew(t)
  \/ \E a \in AtomId :
       \/ \E by \in 1 .. TMax : Heat(a, by)
       \/ \E b \in Bid \cup {Absent} : SetEnvBubble(a, b)

BubbleOp ==
  \/ \E p \in Bid \cup {Absent} : BubbleNew(p)
  \/ \E b \in Bid :
       \/ BubbleDrop(b) \/ SetRoot(b) \/ UnsetRoot(b)
       \/ \E n \in Name, a \in AtomId : Bind(b, n, a)

SlabNext == AtomOp \/ BubbleOp \/ Tick \/ Reset

SlabSpec == SlabInit /\ [][SlabNext]_slabVars

-----------------------------------------------------------------------------
(* Properties *)

(* What a binding, a token, a child or the root table points at is in use, *)
(* though slots are freed by tick and bubble_drop and taken again: a new   *)
(* atom or bubble in an old slot inherits nothing.                         *)
NoStaleSlot ==
  /\ \A b \in Bid, i \in BindSlot :
       binds[b][i] # Absent => b \in bubbles /\ binds[b][i].aid \in atoms
  /\ \A a \in AtomId : env[a] # Absent => a \in atoms /\ env[a] \in bubbles
  /\ \A b \in Bid : parent[b] # Absent => b \in bubbles /\ parent[b] \in bubbles
  /\ \A r \in DOMAIN roots : roots[r] \in bubbles
  /\ retained \subseteq atoms

(* And a short name is bound once: binding it again replaces the atom and  *)
(* takes no second of the MAX_BINDS slots.                                 *)
OneSlotPerName ==
  \A b \in Bid, i, j \in BindSlot :
    /\ binds[b][i] # Absent /\ binds[b][j] # Absent
    /\ binds[b][i].name = binds[b][j].name
    /\ binds[b][i].name # Cut
    => i = j

SlotsSound == SlabTypeOK /\ NoStaleSlot /\ OneSlotPerName

(* What is reachable by the rules of the host Store, with no stack. *)
Edge(b, c) ==
  \/ parent[b] = c
  \/ \E a \in BoundAtoms(b) : env[a] = c

ReachBubbles ==
  {b \in Bid : \A S \in SUBSET Bid :
     /\ \A r \in DOMAIN roots : roots[r] \in S
     /\ \A c \in S \cap bubbles, d \in Bid : Edge(c, d) => d \in S
     => b \in S}

ReachAtoms == UNION {BoundAtoms(b) : b \in ReachBubbles \cap bubbles}

(* A walk that drops nothing, or only what it sees in another way, misses  *)
(* nothing.                                                                *)
WalkComplete ==
  LET w == Walk IN w.lost \subseteq w.seen => ReachAtoms \subseteq w.reach

(* A walk invents nothing: a dead atom that a tick leaves behind was       *)
(* reachable, and is retained, so one tick reaps all the cold garbage.     *)
TickReapsGarbage ==
  [][Tick => {a \in atoms' : temp'[a] = 0} \subseteq ReachAtoms \cap retained']_slabVars

=============================================================================
