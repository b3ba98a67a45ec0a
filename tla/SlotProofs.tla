----------------------------- MODULE SlotProofs -----------------------------
(***************************************************************************)
(* Proofs about the two components that keep things in slots and use the   *)
(* slots again: SlabStore, whose slots have no generation, so that nothing *)
(* may point at one that is emptied, and HandleTable, whose slots have     *)
(* one, so that an old handle may.  Part 1 holds for every size of the     *)
(* tables, part 2 for every number of threads, slots and stores as long as *)
(* no slot is used more often than a generation has values.                *)
(***************************************************************************)
EXTENDS HandleTable, SlabStore, TLAPS, FiniteSetTheorems, WellFoundedInduction

-----------------------------------------------------------------------------
(* Part 1, SlabStore: scanning a table *)

LEMMA Sizes ==
  /\ MAX_ATOMS \in Nat \ {0} /\ MAX_BUBBLES \in Nat \ {0} /\ MAX_ROOTS \in Nat \ {0}
  /\ MAX_BINDS \in Nat \ {0} /\ TMax \in Nat \ {0}
  /\ AtomId \subseteq Nat /\ Bid \subseteq Nat /\ BindSlot \subseteq Nat
  /\ Absent \notin Bid
BY SlabAssumption DEF AtomId, Bid, BindSlot

(* A set of numbers has a least one. *)
LEMMA Least ==
  ASSUME NEW S \in SUBSET Nat, S # {} PROVE \E m \in S : \A x \in S : m <= x
<1>1. \E m \in S : \A x \in S : <<x, m>> \notin OpToRel(<, Nat)
  BY NatLessThanWellFounded, WFMin, Zenon
<1>2. \A x, m \in Nat : <<x, m>> \in OpToRel(<, Nat) <=> x < m
  BY Zenon DEF OpToRel
<1>3. \E m \in S : \A x \in S : ~ x < m
  BY <1>1, <1>2, Zenon
<1>4. QED
  BY <1>3

(* Induction for a set of numbers. *)
LEMMA Induction ==
  ASSUME NEW S, 0 \in S, \A n, m \in Nat : n \in S /\ m = n + 1 => m \in S
  PROVE  Nat \subseteq S
<1> DEFINE T == Nat \ S
<1>1. ASSUME T # {} PROVE FALSE
  <2>1. PICK m \in T : \A x \in T : m <= x
    BY <1>1, Least
  <2>2. m # 0 /\ m - 1 \in Nat /\ m - 1 \notin T
    BY <2>1
  <2>3. QED
    BY <2>1, <2>2
<1>2. QED
  BY <1>1

(* A scan finds a slot of those it looks for. *)
LEMMA FirstOf ==
  ASSUME NEW S \in SUBSET Nat, S # {} PROVE First(S) \in S
BY Least DEF First

(* The function that Without applies, for the first n elements. *)
Keeps(f, s, x, n) ==
  f = [i \in 0 .. n |-> IF i = 0 THEN <<>>
                        ELSE IF s[i] = x THEN f[i - 1] ELSE Append(f[i - 1], s[i])]

(* What is kept of the first n elements is kept of the first n + 1, and    *)
(* the next element, unless it is x.                                       *)
LEMMA KeepsMore ==
  ASSUME NEW n \in Nat, NEW m \in Nat, m = n + 1, NEW s, NEW x, NEW f, Keeps(f, s, x, n)
  PROVE  \E g : Keeps(g, s, x, m)
<1> DEFINE last == IF s[m] = x THEN f[n] ELSE Append(f[n], s[m])
           g == [i \in 0 .. m |-> IF i = m THEN last ELSE f[i]]
<1>1. ASSUME NEW i \in 0 .. m
      PROVE  g[i] = IF i = 0 THEN <<>>
                    ELSE IF s[i] = x THEN g[i - 1] ELSE Append(g[i - 1], s[i])
  <2>1. CASE i = m
    <3>1. g[i] = last /\ i # 0 /\ i - 1 = n /\ g[n] = f[n]
      BY <2>1
    <3>2. QED
      BY <2>1, <3>1
  <2>2. CASE i # m
    <3>1. i \in 0 .. n /\ g[i] = f[i]
      BY <2>2
    <3>2. f[i] = IF i = 0 THEN <<>> ELSE IF s[i] = x THEN f[i - 1] ELSE Append(f[i - 1], s[i])
      BY <3>1 DEF Keeps
    <3>3. i # 0 => g[i - 1] = f[i - 1]
      BY <3>1
    <3>4. QED
      BY <3>1, <3>2, <3>3
  <2>3. QED
    BY <2>1, <2>2
<1>2. g = [i \in 0 .. m |-> IF i = 0 THEN <<>>
                            ELSE IF s[i] = x THEN g[i - 1] ELSE Append(g[i - 1], s[i])]
  BY <1>1
<1>3. QED
  BY <1>2 DEF Keeps

LEMMA KeepsExists ==
  ASSUME NEW s, NEW x, NEW n \in Nat PROVE \E f : Keeps(f, s, x, n)
<1> DEFINE S == {k \in Nat : \E f : Keeps(f, s, x, k)}
<1>1. 0 \in S
  <2>1. Keeps([i \in 0 .. 0 |-> <<>>], s, x, 0)
    BY DEF Keeps
  <2>2. QED
    BY <2>1
<1>2. \A k, m \in Nat : k \in S /\ m = k + 1 => m \in S
  BY KeepsMore
<1> HIDE DEF S
<1>3. n \in S
  BY <1>1, <1>2, Induction
<1>4. QED
  BY <1>3 DEF S

LEMMA Appended ==
  ASSUME NEW T, NEW s \in Seq(T), NEW e \in T
  PROVE  /\ Append(s, e) \in Seq(T) /\ Len(Append(s, e)) = Len(s) + 1
         /\ ToSet(Append(s, e)) = ToSet(s) \cup {e}
<1>1. PICK n \in Nat : n = Len(s)
  OBVIOUS
<1>2. Append(s, e) \in Seq(T)
  OBVIOUS
<1> DEFINE w == Append(s, e)
<1>3. Len(w) = n + 1 /\ (\A i \in 1 .. n : w[i] = s[i]) /\ w[n + 1] = e
  BY <1>1
<1> HIDE DEF w
<1>4. DOMAIN s = 1 .. n /\ DOMAIN w = 1 .. n + 1
  BY <1>1, <1>3
<1>5. ASSUME NEW y \in ToSet(w) PROVE y \in ToSet(s) \cup {e}
  BY <1>3, <1>4, <1>5 DEF ToSet
<1>6. ASSUME NEW y \in ToSet(s) PROVE y \in ToSet(w)
  <2>1. PICK i \in 1 .. n : y = s[i]
    BY <1>4 DEF ToSet
  <2>2. QED
    BY <1>3, <1>4, <2>1 DEF ToSet
<1>7. e \in ToSet(w)
  BY <1>3, <1>4 DEF ToSet
<1>8. QED
  BY <1>1, <1>2, <1>3, <1>5, <1>6, <1>7 DEF w

(* Without leaves everything but x, and makes nothing longer.              *)
LEMMA WithoutIs ==
  ASSUME NEW T, NEW s \in Seq(T), NEW x
  PROVE  /\ Without(s, x) \in Seq(T)
         /\ Len(Without(s, x)) <= Len(s)
         /\ ToSet(Without(s, x)) = ToSet(s) \ {x}
<1>1. PICK n \in Nat : n = Len(s)
  OBVIOUS
<1>2. PICK f : Keeps(f, s, x, n) /\ f = CHOOSE g : Keeps(g, s, x, n)
  BY KeepsExists
<1>3. Without(s, x) = f[n]
  BY <1>1, <1>2 DEF Without, Keeps
<1> DEFINE Kept(k) == /\ f[k] \in Seq(T) /\ Len(f[k]) <= k
                      /\ ToSet(f[k]) = {s[i] : i \in 1 .. k} \ {x}
           S == {k \in Nat : k <= n => Kept(k)}
<1>4. f[0] = <<>> /\ \A k \in 1 .. n : f[k] = IF s[k] = x THEN f[k - 1] ELSE Append(f[k - 1], s[k])
  <2>1. \A i \in 0 .. n : f[i] = IF i = 0 THEN <<>>
                                ELSE IF s[i] = x THEN f[i - 1] ELSE Append(f[i - 1], s[i])
    BY <1>2 DEF Keeps
  <2>2. QED
    BY <2>1
<1>5. 0 \in S
  <2>1. ToSet(<<>>) = {} /\ {s[i] : i \in 1 .. 0} = {} /\ <<>> \in Seq(T) /\ Len(<<>>) = 0
    BY DEF ToSet
  <2>2. f[0] = <<>> /\ ToSet(f[0]) = {s[i] : i \in 1 .. 0} \ {x}
    BY <1>4, <2>1
  <2>3. Kept(0)
    BY <2>1, <2>2
  <2>4. QED
    BY <2>3
<1>6. ASSUME NEW k \in Nat, NEW m \in Nat, k \in S, m = k + 1 PROVE m \in S
  <2>1. SUFFICES ASSUME m <= n PROVE Kept(m)
    OBVIOUS
  <2>2. Kept(k) /\ m \in 1 .. n /\ s[m] \in T /\ m - 1 = k
    BY <1>1, <1>6, <2>1
  <2>3. 1 .. m = (1 .. k) \cup {m}
    BY <1>6
  <2>4. {s[i] : i \in 1 .. m} = {s[i] : i \in 1 .. k} \cup {s[m]}
    BY <2>3
  <2>5. f[m] = IF s[m] = x THEN f[k] ELSE Append(f[k], s[m])
    BY <1>4, <2>2
  <2>6. CASE s[m] = x
    BY <1>6, <2>2, <2>4, <2>5, <2>6
  <2>7. CASE s[m] # x
    <3>1. /\ Append(f[k], s[m]) \in Seq(T) /\ Len(Append(f[k], s[m])) = Len(f[k]) + 1
          /\ ToSet(Append(f[k], s[m])) = ToSet(f[k]) \cup {s[m]}
      BY <2>2, Appended
    <3>2. QED
      BY <1>6, <2>2, <2>4, <2>5, <2>7, <3>1
  <2>8. QED
    BY <2>6, <2>7
<1> HIDE DEF S
<1>7. n \in S
  BY <1>5, <1>6, Induction
<1>8. Kept(n)
  BY <1>7 DEF S
<1>9. ToSet(s) = {s[i] : i \in 1 .. n}
  BY <1>1 DEF ToSet
<1>10. QED
  BY <1>1, <1>3, <1>8, <1>9

-----------------------------------------------------------------------------
(* Slots are used again, and nothing points at what was in them *)

LEMMA ClampedIs ==
  ASSUME NEW t \in Int PROVE Clamped(t) \in Temp
BY Sizes DEF Clamped, Temp

LEMMA SlotsInit ==
  ASSUME SlabInit \/ Reset
  PROVE  (SlabInit => SlotsSound) /\ (Reset => SlotsSound')
<1>1. 0 \in Temp
  BY Sizes DEF Temp
<1>2. <<>> \in Seq(Bid) /\ Len(<<>>) = 0 /\ DOMAIN <<>> = {}
  OBVIOUS
<1>3. SlabInit => SlotsSound
  BY <1>1, <1>2, Sizes DEF SlabInit, SlotsSound, SlabTypeOK, NoStaleSlot,
     OneSlotPerName, FreeBinds
<1>4. Reset => SlotsSound'
  BY <1>1, <1>2, Sizes DEF Reset, SlotsSound, SlabTypeOK, NoStaleSlot,
     OneSlotPerName, FreeBinds
<1>5. QED
  BY <1>3, <1>4

LEMMA AtomOpKeepsSlots ==
  ASSUME SlotsSound, AtomOp PROVE SlotsSound'
<1> USE DEF SlotsSound, SlabTypeOK, NoStaleSlot
<1>1. ASSUME UNCHANGED binds PROVE OneSlotPerName'
  BY <1>1 DEF OneSlotPerName
<1>2. ASSUME NEW t \in Temp, AtomNew(t) PROVE SlotsSound'
  <2>1. PICK id \in AtomId :
          /\ id \notin atoms
          /\ atoms' = atoms \cup {id} /\ temp' = [temp EXCEPT ![id] = t]
          /\ env' = [env EXCEPT ![id] = Absent] /\ retained' = retained \ {id}
          /\ UNCHANGED <<bubbles, parent, binds, roots>>
    <3>1. AtomId \ atoms # {} /\ AtomId \ atoms \subseteq Nat
      BY <1>2, Sizes DEF AtomNew
    <3>2. First(AtomId \ atoms) \in AtomId \ atoms
      BY <3>1, FirstOf
    <3>3. QED
      BY <1>2, <3>2 DEF AtomNew
  <2>2. SlabTypeOK'
    BY <2>1
  <2>3. NoStaleSlot'
    BY <2>1
  <2>4. QED
    BY <1>1, <2>1, <2>2, <2>3
<1>3. ASSUME NEW a \in AtomId, NEW by \in 1 .. TMax, Heat(a, by) PROVE SlotsSound'
  <2>1. Clamped(temp[a] + by) \in Temp
    <3>1. temp[a] + by \in Int
      BY DEF Temp
    <3>2. QED
      BY <3>1, ClampedIs
  <2>2. temp' \in [AtomId -> Temp]
    BY <1>3, <2>1 DEF Heat
  <2>3. QED
    BY <1>1, <1>3, <2>2 DEF Heat
<1>4. ASSUME NEW a \in AtomId, NEW b \in Bid \cup {Absent}, SetEnvBubble(a, b)
      PROVE  SlotsSound'
  BY <1>1, <1>4 DEF SetEnvBubble
<1>5. QED
  BY <1>2, <1>3, <1>4 DEF AtomOp

LEMMA BubbleNewKeepsSlots ==
  ASSUME SlotsSound, NEW p \in Bid \cup {Absent}, BubbleNew(p)
  PROVE  SlotsSound'
<1> USE DEF SlotsSound, SlabTypeOK, NoStaleSlot
<1>1. PICK id \in Bid :
        /\ id \notin bubbles
        /\ bubbles' = bubbles \cup {id} /\ parent' = [parent EXCEPT ![id] = p]
        /\ binds' = [binds EXCEPT ![id] = FreeBinds]
        /\ p \in bubbles \cup {Absent}
        /\ UNCHANGED <<atoms, temp, env, roots, retained>>
  <2>1. Bid \ bubbles # {} /\ Bid \ bubbles \subseteq Nat
    BY Sizes DEF BubbleNew
  <2>2. First(Bid \ bubbles) \in Bid \ bubbles
    BY <2>1, FirstOf
  <2>3. QED
    BY <2>2 DEF BubbleNew
<1>2. FreeBinds \in [BindSlot -> Binding \cup {Absent}]
  BY DEF FreeBinds
<1>3. \A b \in Bid, i \in BindSlot :
        binds'[b][i] = IF b = id THEN Absent ELSE binds[b][i]
  BY <1>1 DEF FreeBinds
<1>4. SlabTypeOK'
  BY <1>1, <1>2
<1>5. NoStaleSlot'
  BY <1>1, <1>3
<1>6. OneSlotPerName'
  BY <1>3 DEF OneSlotPerName
<1>7. QED
  BY <1>4, <1>5, <1>6

LEMMA BubbleDropKeepsSlots ==
  ASSUME SlotsSound, NEW b \in Bid, BubbleDrop(b)
  PROVE  SlotsSound'
<1> USE DEF SlotsSound, SlabTypeOK, NoStaleSlot, BubbleDrop
<1>1. SlabTypeOK'
  OBVIOUS
<1>2. \A i \in BindSlot : binds[b][i] = Absent
  BY DEF FreeBinds
<1>3. NoStaleSlot'
  <2>1. \A c \in Bid, i \in BindSlot :
          binds'[c][i] # Absent => c \in bubbles' /\ binds'[c][i].aid \in atoms'
    BY <1>2
  <2>2. \A a \in AtomId : env'[a] # Absent => a \in atoms' /\ env'[a] \in bubbles'
    OBVIOUS
  <2>3. \A c \in Bid : parent'[c] # Absent => c \in bubbles' /\ parent'[c] \in bubbles'
    OBVIOUS
  <2>4. QED
    BY <2>1, <2>2, <2>3
<1>4. OneSlotPerName'
  BY DEF OneSlotPerName
<1>5. QED
  BY <1>1, <1>3, <1>4

LEMMA BindKeepsSlots ==
  ASSUME SlotsSound,
         NEW b \in Bid, NEW n \in Name, NEW a \in AtomId, Bind(b, n, a)
  PROVE  SlotsSound'
<1> USE DEF SlotsSound, SlabTypeOK, NoStaleSlot
<1>1. /\ b \in bubbles /\ a \in atoms
      /\ UNCHANGED <<atoms, temp, env, bubbles, parent, roots, retained>>
  BY DEF Bind
<1>2. PICK i \in BindSlot, r \in Binding :
        /\ r.aid = a
        /\ binds' = [binds EXCEPT ![b][i] = r]
        /\ r.name # Cut => \A j \in BindSlot :
                             binds[b][j] # Absent /\ binds[b][j].name = r.name => i = j
  <2>1. CASE Named(b, n) # {} /\ binds' = [binds EXCEPT ![b][First(Named(b, n))].aid = a]
    <3>1. PICK i \in BindSlot : i = First(Named(b, n)) /\ i \in Named(b, n)
      <4>1. Named(b, n) \subseteq BindSlot /\ Named(b, n) \subseteq Nat
        BY Sizes DEF Named
      <4>2. QED
        BY <2>1, <4>1, FirstOf
    <3>2. binds[b][i] # Absent /\ binds[b][i].name = n /\ binds[b][i] \in Binding
      BY <3>1 DEF Named
    <3> DEFINE r == [binds[b][i] EXCEPT !.aid = a]
    <3>3. r \in Binding /\ r.aid = a /\ r.name = n
      BY <3>2 DEF Binding
    <3>4. binds' = [binds EXCEPT ![b][i] = r]
      BY <2>1, <3>1
    <3>5. \A j \in BindSlot : binds[b][j] # Absent /\ binds[b][j].name = n /\ n # Cut => i = j
      BY <3>2 DEF OneSlotPerName
    <3> HIDE DEF r
    <3>6. QED
      BY <3>3, <3>4, <3>5
  <2>2. CASE /\ Named(b, n) = {} /\ FreeBindSlots(b) # {}
             /\ binds' = [binds EXCEPT ![b][First(FreeBindSlots(b))]
                                         = [name |-> Stored(n), aid |-> a]]
    <3>1. PICK i \in BindSlot : i = First(FreeBindSlots(b)) /\ i \in FreeBindSlots(b)
      <4>1. FreeBindSlots(b) \subseteq BindSlot /\ FreeBindSlots(b) \subseteq Nat
        BY Sizes DEF FreeBindSlots
      <4>2. QED
        BY <2>2, <4>1, FirstOf
    <3> DEFINE r == [name |-> Stored(n), aid |-> a]
    <3>2. r \in Binding /\ r.aid = a /\ r.name = Stored(n)
      BY DEF Binding, Stored
    <3>3. Stored(n) # Cut => Stored(n) = n
      BY DEF Stored
    <3>4. \A j \in BindSlot : binds[b][j] # Absent => binds[b][j].name # n
      BY <2>2 DEF Named
    <3>5. binds' = [binds EXCEPT ![b][i] = r]
      BY <2>2, <3>1
    <3> HIDE DEF r
    <3>6. r.name # Cut => \A j \in BindSlot : binds[b][j] # Absent => binds[b][j].name # r.name
      BY <3>2, <3>3, <3>4
    <3>7. QED
      BY <3>2, <3>5, <3>6
  <2>3. QED
    BY <2>1, <2>2 DEF Bind
<1>3. \A c \in Bid, j \in BindSlot :
        binds'[c][j] = IF c = b /\ j = i THEN r ELSE binds[c][j]
  BY <1>2
<1>4. SlabTypeOK'
  BY <1>1, <1>2
<1>5. NoStaleSlot'
  BY <1>1, <1>2, <1>3
<1>6. OneSlotPerName'
  BY <1>2, <1>3 DEF OneSlotPerName
<1>7. QED
  BY <1>4, <1>5, <1>6

LEMMA RootsKeepSlots ==
  ASSUME SlotsSound, NEW b \in Bid, SetRoot(b) \/ UnsetRoot(b)
  PROVE  SlotsSound'
<1> USE DEF SlotsSound, SlabTypeOK, NoStaleSlot
<1>1. UNCHANGED <<atoms, temp, env, bubbles, parent, binds, retained>>
  BY DEF SetRoot, UnsetRoot
<1>2. \A s \in Seq(Bid) : ToSet(s) \subseteq bubbles <=> \A r \in DOMAIN s : s[r] \in bubbles
  BY DEF ToSet
<1>3. roots' \in Seq(Bid) /\ Len(roots') <= MAX_ROOTS /\ ToSet(roots') \subseteq bubbles
  <2>1. SetRoot(b) => roots' = Append(roots, b) /\ b \in bubbles /\ Len(roots) + 1 <= MAX_ROOTS
    BY Sizes DEF SetRoot
  <2>2. UnsetRoot(b) => roots' = Without(roots, b)
    BY DEF UnsetRoot
  <2>3. /\ Append(roots, b) \in Seq(Bid) /\ Len(Append(roots, b)) = Len(roots) + 1
        /\ ToSet(Append(roots, b)) = ToSet(roots) \cup {b}
    BY Appended
  <2>4. /\ Without(roots, b) \in Seq(Bid)
        /\ Len(Without(roots, b)) <= Len(roots)
        /\ ToSet(Without(roots, b)) = ToSet(roots) \ {b}
    BY WithoutIs
  <2>5. ToSet(roots) \subseteq bubbles
    BY <1>2
  <2>6. Len(Without(roots, b)) <= MAX_ROOTS
    BY <2>4, Sizes
  <2>7. CASE SetRoot(b)
    <3>1. ToSet(Append(roots, b)) \subseteq bubbles /\ Len(Append(roots, b)) <= MAX_ROOTS
      BY <2>1, <2>3, <2>5, <2>7
    <3>2. QED
      BY <2>1, <2>3, <2>7, <3>1, Zenon
  <2>8. CASE UnsetRoot(b)
    BY <2>2, <2>4, <2>5, <2>6, <2>8
  <2>9. QED
    BY <2>7, <2>8
<1>4. OneSlotPerName'
  BY <1>1 DEF OneSlotPerName
<1>5. QED
  BY <1>1, <1>2, <1>3, <1>4

LEMMA TickKeepsSlots ==
  ASSUME SlotsSound, Tick PROVE SlotsSound'
<1> USE DEF SlotsSound, SlabTypeOK, NoStaleSlot
<1>1. PICK reach : Collect(reach, TRUE)
  BY DEF Tick
<1> DEFINE cool == [a \in AtomId |-> IF a \in atoms THEN Clamped(temp[a] - 1) ELSE 0]
           dead == {a \in atoms : cool[a] = 0}
           doomed == dead \ reach
<1>2. /\ UNCHANGED <<bubbles, parent, roots>>
      /\ temp' = cool /\ atoms' = atoms \ doomed /\ retained' = dead \cap reach
      /\ env' = [a \in AtomId |-> IF a \in doomed THEN Absent ELSE env[a]]
      /\ binds' = [b \in Bid |-> [i \in BindSlot |->
                     IF binds[b][i] # Absent /\ binds[b][i].aid \in doomed THEN Absent ELSE binds[b][i]]]
  BY <1>1 DEF Collect
<1>3. cool \in [AtomId -> Temp]
  <2>1. ASSUME NEW a \in AtomId PROVE Clamped(temp[a] - 1) \in Temp /\ 0 \in Temp
    <3>1. temp[a] - 1 \in Int /\ 0 \in Temp
      BY Sizes DEF Temp
    <3>2. QED
      BY <3>1, ClampedIs
  <2>2. QED
    BY <2>1
<1> HIDE DEF cool
<1>4. doomed \subseteq atoms /\ dead \cap reach \subseteq atoms \ doomed
  OBVIOUS
<1> HIDE DEF dead, doomed
<1>5. \A b \in Bid, i \in BindSlot :
        binds'[b][i] # Absent => binds'[b][i] = binds[b][i] /\ binds[b][i].aid \notin doomed
  BY <1>2
<1>6. SlabTypeOK'
  BY <1>2, <1>3, <1>4
<1>7. NoStaleSlot'
  BY <1>2, <1>4, <1>5
<1>8. OneSlotPerName'
  BY <1>5 DEF OneSlotPerName
<1>9. QED
  BY <1>6, <1>7, <1>8

LEMMA SlotsStep ==
  ASSUME SlotsSound, [SlabNext]_slabVars PROVE SlotsSound'
<1>1. ASSUME BubbleOp PROVE SlotsSound'
  BY <1>1, BubbleNewKeepsSlots, BubbleDropKeepsSlots, BindKeepsSlots, RootsKeepSlots DEF BubbleOp
<1>2. CASE UNCHANGED slabVars
  BY <1>2 DEF slabVars, SlotsSound, SlabTypeOK, NoStaleSlot, OneSlotPerName
<1>3. QED
  BY <1>1, <1>2, AtomOpKeepsSlots, TickKeepsSlots, SlotsInit DEF SlabNext

(* The tables of the freestanding Store point only at slots in use, and a  *)
(* new atom or bubble inherits nothing from what was in its slot before    *)
(* (SlabStore::bubble_drop, purge_bindings, bind).                         *)
THEOREM SlotsAreSound == SlabSpec => []SlotsSound
<1>1. SlabInit => SlotsSound
  BY SlotsInit
<1>2. SlotsSound /\ [SlabNext]_slabVars => SlotsSound'
  BY SlotsStep
<1>3. QED
  BY <1>1, <1>2, PTL DEF SlabSpec

-----------------------------------------------------------------------------
(* Sequences of a stack *)

LEMMA Joined ==
  ASSUME NEW f \in Seq(Bid), NEW u \in Seq(Bid)
  PROVE  /\ f \o u \in Seq(Bid) /\ Len(f \o u) = Len(f) + Len(u)
         /\ ToSet(f \o u) = ToSet(f) \cup ToSet(u)
<1>1. PICK n, m \in Nat : n = Len(f) /\ m = Len(u)
  OBVIOUS
<1> DEFINE w == f \o u
<1>2. w \in Seq(Bid) /\ Len(w) = n + m
  BY <1>1
<1>3. \A i \in 1 .. n : w[i] = f[i]
  BY <1>1
<1>4. \A i \in 1 .. m : w[n + i] = u[i]
  BY <1>1
<1> HIDE DEF w
<1>5. DOMAIN f = 1 .. n /\ DOMAIN u = 1 .. m /\ DOMAIN w = 1 .. n + m
  BY <1>1, <1>2
<1>6. ASSUME NEW x \in ToSet(f) PROVE x \in ToSet(w)
  <2>1. PICK i \in 1 .. n : x = f[i]
    BY <1>5 DEF ToSet
  <2>2. i \in 1 .. n + m /\ x = w[i]
    BY <1>3, <2>1
  <2>3. QED
    BY <1>5, <2>2 DEF ToSet
<1>7. ASSUME NEW x \in ToSet(u) PROVE x \in ToSet(w)
  <2>1. PICK i \in 1 .. m : x = u[i]
    BY <1>5 DEF ToSet
  <2>2. n + i \in 1 .. n + m /\ x = w[n + i]
    BY <1>4, <2>1
  <2>3. QED
    BY <1>5, <2>2 DEF ToSet
<1>8. ASSUME NEW x \in ToSet(w) PROVE x \in ToSet(f) \cup ToSet(u)
  <2>1. PICK i \in 1 .. n + m : x = w[i]
    BY <1>5 DEF ToSet
  <2>2. CASE i <= n
    <3>1. i \in 1 .. n
      BY <2>2
    <3>2. QED
      BY <1>3, <1>5, <2>1, <3>1 DEF ToSet
  <2>3. CASE ~ i <= n
    <3>1. i - n \in 1 .. m /\ n + (i - n) = i
      BY <2>3
    <3>2. x = u[i - n]
      BY <1>4, <2>1, <3>1
    <3>3. QED
      BY <1>5, <3>1, <3>2 DEF ToSet
  <2>4. QED
    BY <2>2, <2>3
<1>9. ToSet(w) = ToSet(f) \cup ToSet(u)
  BY <1>6, <1>7, <1>8
<1>10. QED
  BY <1>1, <1>2, <1>9 DEF w

LEMMA FirstPart ==
  ASSUME NEW T, NEW s \in Seq(T), NEW k \in 0 .. Len(s)
  PROVE  /\ SubSeq(s, 1, k) \in Seq(T) /\ Len(SubSeq(s, 1, k)) = k
         /\ ToSet(s) = ToSet(SubSeq(s, 1, k)) \cup {s[i] : i \in k + 1 .. Len(s)}
<1> DEFINE w == SubSeq(s, 1, k)
<1>1. w \in Seq(T) /\ Len(w) = k /\ \A i \in 1 .. k : w[i] = s[i]
  OBVIOUS
<1> HIDE DEF w
<1>2. DOMAIN w = 1 .. k /\ DOMAIN s = 1 .. Len(s)
  BY <1>1
<1>3. 1 .. Len(s) = (1 .. k) \cup (k + 1 .. Len(s))
  OBVIOUS
<1>4. ToSet(s) = {s[i] : i \in 1 .. k} \cup {s[i] : i \in k + 1 .. Len(s)}
  BY <1>2, <1>3 DEF ToSet
<1>5. ToSet(w) = {s[i] : i \in 1 .. k}
  BY <1>1, <1>2 DEF ToSet
<1>6. QED
  BY <1>1, <1>4, <1>5 DEF w

LEMMA FrontAndLast ==
  ASSUME NEW T, NEW s \in Seq(T), s # <<>>
  PROVE  /\ Front(s) \in Seq(T) /\ Len(Front(s)) = Len(s) - 1 /\ Len(s) >= 1
         /\ Last(s) \in T /\ ToSet(s) = ToSet(Front(s)) \cup {Last(s)}
<1>1. PICK n \in Nat : n = Len(s) - 1
  OBVIOUS
<1>2. n \in 0 .. Len(s) /\ n + 1 .. Len(s) = {n + 1} /\ Len(s) = n + 1
  BY <1>1
<1>3. /\ SubSeq(s, 1, n) \in Seq(T) /\ Len(SubSeq(s, 1, n)) = n
      /\ ToSet(s) = ToSet(SubSeq(s, 1, n)) \cup {s[i] : i \in n + 1 .. Len(s)}
  BY <1>2, FirstPart
<1>4. Front(s) = SubSeq(s, 1, n) /\ Last(s) = s[n + 1]
  BY <1>1, <1>2 DEF Front, Last
<1>5. {s[i] : i \in n + 1 .. Len(s)} = {s[n + 1]}
  BY <1>2
<1>6. s[n + 1] \in T
  BY <1>2
<1>7. QED
  BY <1>2, <1>3, <1>4, <1>5, <1>6

-----------------------------------------------------------------------------
(* The walk, pop by pop *)

WalkType == [stack : Seq(Bid), seen : SUBSET Bid,
             reach : SUBSET AtomId, lost : SUBSET Bid]

(* A push keeps or loses each bubble, and no more than fit are kept. *)
LEMMA Pushed ==
  ASSUME NEW w \in WalkType, Len(w.stack) <= MAX_BUBBLES, NEW s \in Seq(Bid)
  PROVE  LET v == PushAll(w, s)
         IN /\ v \in WalkType /\ Len(v.stack) <= MAX_BUBBLES
            /\ Len(v.stack) <= Len(w.stack) + Len(s)
            /\ ToSet(v.stack) \cup v.lost = ToSet(w.stack) \cup w.lost \cup ToSet(s)
            /\ v.seen = w.seen /\ v.reach = w.reach
<1> DEFINE room == MAX_BUBBLES - Len(w.stack)
           fits == IF Len(s) <= room THEN Len(s) ELSE room
           over == {s[i] : i \in fits + 1 .. Len(s)}
           v == PushAll(w, s)
<1>1. w.stack \in Seq(Bid) /\ Len(w.stack) \in Nat /\ Len(s) \in Nat
  BY DEF WalkType
<1>2. fits \in 0 .. Len(s) /\ Len(w.stack) + fits <= MAX_BUBBLES /\ fits <= Len(s)
  <2>1. MAX_BUBBLES \in Nat
    BY Sizes
  <2>2. PICK m, k \in Nat : m = Len(w.stack) /\ k = Len(s)
    BY <1>1
  <2>3. fits = IF k <= MAX_BUBBLES - m THEN k ELSE MAX_BUBBLES - m
    BY <2>2
  <2> HIDE DEF fits
  <2>4. m <= MAX_BUBBLES
    BY <2>2
  <2>5. fits \in 0 .. k /\ m + fits <= MAX_BUBBLES /\ fits <= k
    BY ONLY <2>1, <2>3, <2>4, m \in Nat, k \in Nat
  <2>6. QED
    BY <2>2, <2>5
<1>3. v = [w EXCEPT !.stack = @ \o SubSeq(s, 1, fits), !.lost = @ \cup over]
  BY DEF PushAll
<1> HIDE DEF v, fits
<1>4. /\ SubSeq(s, 1, fits) \in Seq(Bid) /\ Len(SubSeq(s, 1, fits)) = fits
      /\ ToSet(s) = ToSet(SubSeq(s, 1, fits)) \cup over
  BY <1>2, FirstPart
<1>5. over \subseteq Bid
  BY <1>2
<1> HIDE DEF over
<1> DEFINE u == SubSeq(s, 1, fits)
<1>part. u \in Seq(Bid) /\ Len(u) = fits /\ ToSet(s) = ToSet(u) \cup over
  BY <1>4
<1> HIDE DEF u
<1>6. /\ w.stack \o u \in Seq(Bid) /\ Len(w.stack \o u) = Len(w.stack) + fits
      /\ ToSet(w.stack \o u) = ToSet(w.stack) \cup ToSet(u)
  <2>1. /\ w.stack \o u \in Seq(Bid) /\ Len(w.stack \o u) = Len(w.stack) + Len(u)
        /\ ToSet(w.stack \o u) = ToSet(w.stack) \cup ToSet(u)
    BY <1>1, <1>part, Joined
  <2>2. QED
    BY <1>part, <2>1
<1>7. /\ v.stack = w.stack \o u /\ v.lost = w.lost \cup over
      /\ v.seen = w.seen /\ v.reach = w.reach /\ v \in WalkType
  BY <1>3, <1>5, <1>6 DEF WalkType, u
<1>8. Len(v.stack) <= MAX_BUBBLES /\ Len(v.stack) <= Len(w.stack) + Len(s)
  BY <1>1, <1>2, <1>6, <1>7
<1>9. ToSet(v.stack) \cup v.lost = ToSet(w.stack) \cup w.lost \cup ToSet(s)
  BY <1>part, <1>6, <1>7
<1>10. QED
  BY <1>7, <1>8, <1>9 DEF v

(* Where a bubble leads, with the absent ones left out. *)
LEMMA LeadsIs ==
  ASSUME SlabTypeOK, NEW b \in Bid
  PROVE  /\ LeadsTo(b) \in Seq(Bid) /\ Len(LeadsTo(b)) <= MAX_BINDS + 1
         /\ ToSet(LeadsTo(b)) = {d \in Bid : Edge(b, d)}
         /\ BoundAtoms(b) \subseteq AtomId
<1> DEFINE envOf(i) == IF binds[b][i] = Absent \/ binds[b][i].aid \notin atoms THEN Absent
                       ELSE env[binds[b][i].aid]
           T == Bid \cup {Absent}
           e == [i \in BindSlot |-> envOf(i)]
           s == Append(e, parent[b])
<1>1. \A i \in BindSlot : envOf(i) \in T
  BY DEF SlabTypeOK, Binding
<1>2. e \in Seq(T) /\ Len(e) = MAX_BINDS /\ DOMAIN e = BindSlot
  BY <1>1, Sizes DEF BindSlot
<1>3. ToSet(e) = {envOf(i) : i \in BindSlot}
  BY <1>2 DEF ToSet
<1>4. parent[b] \in T
  BY DEF SlabTypeOK
<1>5. LeadsTo(b) = Without(s, Absent)
  BY DEF LeadsTo
<1> HIDE DEF e
<1>6. s \in Seq(T) /\ Len(s) = MAX_BINDS + 1 /\ ToSet(s) = ToSet(e) \cup {parent[b]}
  BY <1>2, <1>4, Appended
<1> HIDE DEF s
<1>7. /\ LeadsTo(b) \in Seq(T) /\ Len(LeadsTo(b)) <= MAX_BINDS + 1
      /\ ToSet(LeadsTo(b)) = ToSet(s) \ {Absent}
  BY <1>5, <1>6, WithoutIs
<1>8. ToSet(LeadsTo(b)) \subseteq Bid
  BY <1>1, <1>3, <1>4, <1>6, <1>7
<1>9. LeadsTo(b) \in Seq(Bid)
  BY <1>7, <1>8 DEF ToSet
<1>10. ASSUME NEW d \in Bid PROVE d \in ToSet(LeadsTo(b)) <=> Edge(b, d)
  <2>1. d # Absent
    BY Sizes
  <2>2. d \in ToSet(LeadsTo(b)) <=> parent[b] = d \/ \E i \in BindSlot : envOf(i) = d
    BY <1>3, <1>6, <1>7, <2>1
  <2>3. (\E i \in BindSlot : envOf(i) = d) <=> \E a \in BoundAtoms(b) : env[a] = d
    BY <2>1 DEF BoundAtoms
  <2>4. QED
    BY <2>2, <2>3 DEF Edge
<1>11. BoundAtoms(b) \subseteq AtomId
  BY DEF BoundAtoms, SlabTypeOK
<1>12. QED
  BY <1>7, <1>8, <1>9, <1>10, <1>11

(* What a walk has found, lost, or has on its stack: the roots, and        *)
(* wherever what it has seen leads; all of it can be reached.              *)
Met(w) == w.seen \cup ToSet(w.stack) \cup w.lost

WalkInv(w) ==
  /\ w \in WalkType /\ Len(w.stack) <= MAX_BUBBLES
  /\ ToSet(roots) \subseteq Met(w)
  /\ \A b \in w.seen \cap bubbles :
       /\ \A d \in Bid : Edge(b, d) => d \in Met(w)
       /\ BoundAtoms(b) \subseteq w.reach
  /\ Met(w) \subseteq ReachBubbles
  /\ w.reach \subseteq ReachAtoms

LEMMA ReachIsClosed ==
  ASSUME SlabTypeOK
  PROVE  /\ ToSet(roots) \subseteq ReachBubbles
         /\ \A b \in ReachBubbles \cap bubbles :
              /\ \A d \in Bid : Edge(b, d) => d \in ReachBubbles
              /\ BoundAtoms(b) \subseteq ReachAtoms
<1>1. ToSet(roots) \subseteq Bid
  BY DEF SlabTypeOK, ToSet
<1>2. ToSet(roots) \subseteq ReachBubbles
  BY <1>1 DEF ReachBubbles, ToSet
<1>3. ASSUME NEW b \in ReachBubbles \cap bubbles, NEW d \in Bid, Edge(b, d)
      PROVE  d \in ReachBubbles
  BY <1>3 DEF ReachBubbles
<1>4. \A b \in ReachBubbles \cap bubbles : BoundAtoms(b) \subseteq ReachAtoms
  BY DEF ReachAtoms
<1>5. QED
  BY <1>2, <1>3, <1>4

LEMMA WalkStarts ==
  ASSUME SlabTypeOK
  PROVE  /\ WalkInv(PushAll(NoWalk, roots))
         /\ Len(PushAll(NoWalk, roots).stack) <= MAX_ROOTS
         /\ PushAll(NoWalk, roots).seen = {}
<1> DEFINE v == PushAll(NoWalk, roots)
<1>1. /\ NoWalk \in WalkType /\ Len(NoWalk.stack) = 0 /\ ToSet(NoWalk.stack) = {}
      /\ NoWalk.lost = {} /\ NoWalk.seen = {} /\ NoWalk.reach = {}
  BY DEF NoWalk, WalkType, ToSet
<1>2. Len(NoWalk.stack) <= MAX_BUBBLES
  BY <1>1, Sizes
<1>3. /\ v \in WalkType /\ Len(v.stack) <= MAX_BUBBLES
      /\ Len(v.stack) <= Len(NoWalk.stack) + Len(roots)
      /\ ToSet(v.stack) \cup v.lost = ToSet(NoWalk.stack) \cup NoWalk.lost \cup ToSet(roots)
      /\ v.seen = NoWalk.seen /\ v.reach = NoWalk.reach
  BY <1>1, <1>2, Pushed DEF SlabTypeOK
<1> HIDE DEF v
<1>4. Met(v) = ToSet(roots) /\ v.seen = {} /\ v.reach = {}
  BY <1>1, <1>3 DEF Met
<1>5. WalkInv(v)
  BY <1>3, <1>4, ReachIsClosed DEF WalkInv
<1>6. Len(v.stack) <= MAX_ROOTS
  <2>1. Len(v.stack) \in Nat /\ Len(roots) \in Nat /\ Len(roots) <= MAX_ROOTS
    BY <1>3 DEF SlabTypeOK, WalkType
  <2>2. QED
    BY <1>1, <1>3, <2>1, Sizes
<1>7. QED
  BY <1>4, <1>5, <1>6 DEF v

(* A pop takes one bubble off the stack; only one not seen before puts     *)
(* others on it, no more than it has slots and a parent.                   *)
LEMMA Pops ==
  ASSUME SlabTypeOK, NEW w, WalkInv(w), w.stack # <<>>
  PROVE  LET v == Pop(w)
         IN /\ WalkInv(v)
            /\ \/ Len(v.stack) = Len(w.stack) - 1 /\ w.seen \cap bubbles \subseteq v.seen \cap bubbles
               \/ /\ Len(v.stack) <= Len(w.stack) + MAX_BINDS
                  /\ \E b \in bubbles \ w.seen : v.seen = w.seen \cup {b}
<1> DEFINE b == Last(w.stack)
           popped == [w EXCEPT !.stack = Front(@), !.seen = @ \cup {b}]
<1>1. w \in WalkType /\ w.stack \in Seq(Bid) /\ Len(w.stack) \in Nat
  BY DEF WalkInv, WalkType
<1>2. /\ Front(w.stack) \in Seq(Bid) /\ Len(Front(w.stack)) = Len(w.stack) - 1
      /\ b \in Bid /\ ToSet(w.stack) = ToSet(Front(w.stack)) \cup {b}
  BY <1>1, FrontAndLast
<1>3. /\ popped \in WalkType /\ popped.stack = Front(w.stack) /\ popped.seen = w.seen \cup {b}
      /\ popped.reach = w.reach /\ popped.lost = w.lost
  BY <1>1, <1>2 DEF WalkType
<1>4. Pop(w) = IF b \in w.seen \/ b \notin bubbles THEN popped
                    ELSE PushAll([popped EXCEPT !.reach = @ \cup BoundAtoms(b)],
                                      LeadsTo(b))
  BY DEF Pop, Last, Front
<1> HIDE DEF b, popped
<1>5. Met(popped) = Met(w) /\ Len(popped.stack) <= MAX_BUBBLES
  BY <1>1, <1>2, <1>3, Sizes DEF Met, WalkInv
<1>6. CASE b \in w.seen \/ b \notin bubbles
  <2>1. popped.seen \cap bubbles = w.seen \cap bubbles
    BY <1>3, <1>6
  <2>2. WalkInv(popped)
    BY <1>3, <1>5, <2>1 DEF WalkInv
  <2>3. QED
    BY <1>2, <1>3, <1>4, <1>6, <2>1, <2>2
<1>7. CASE b \notin w.seen /\ b \in bubbles
  <2> DEFINE u == [popped EXCEPT !.reach = @ \cup BoundAtoms(b)]
             v == PushAll(u, LeadsTo(b))
  <2>1. /\ LeadsTo(b) \in Seq(Bid) /\ Len(LeadsTo(b)) <= MAX_BINDS + 1
        /\ ToSet(LeadsTo(b)) = {d \in Bid : Edge(b, d)}
        /\ BoundAtoms(b) \subseteq AtomId
    BY <1>2, LeadsIs
  <2>2. /\ u \in WalkType /\ u.stack = Front(w.stack) /\ u.seen = w.seen \cup {b}
        /\ u.reach = w.reach \cup BoundAtoms(b) /\ u.lost = w.lost
    BY <1>3, <2>1 DEF WalkType
  <2> HIDE DEF u
  <2>3. Len(u.stack) <= MAX_BUBBLES
    BY <1>3, <1>5, <2>2
  <2>4. /\ v \in WalkType /\ Len(v.stack) <= MAX_BUBBLES
        /\ Len(v.stack) <= Len(u.stack) + Len(LeadsTo(b))
        /\ ToSet(v.stack) \cup v.lost = ToSet(u.stack) \cup u.lost \cup ToSet(LeadsTo(b))
        /\ v.seen = u.seen /\ v.reach = u.reach
    BY <2>1, <2>2, <2>3, Pushed
  <2>5. Pop(w) = v
    BY <1>4, <1>7 DEF u
  <2> HIDE DEF v
  <2>6. Met(v) = Met(w) \cup ToSet(LeadsTo(b))
    BY <1>2, <2>2, <2>4 DEF Met
  <2>7. b \in ReachBubbles \cap bubbles
    BY <1>2, <1>7 DEF WalkInv, Met
  <2>8. WalkInv(v)
    <3>1. \A c \in v.seen \cap bubbles :
            /\ \A d \in Bid : Edge(c, d) => d \in Met(v)
            /\ BoundAtoms(c) \subseteq v.reach
      BY <2>1, <2>2, <2>4, <2>6 DEF WalkInv
    <3>2. Met(v) \subseteq ReachBubbles
      BY <2>1, <2>6, <2>7, ReachIsClosed DEF WalkInv
    <3>3. v.reach \subseteq ReachAtoms
      BY <2>2, <2>4, <2>7, ReachIsClosed DEF WalkInv
    <3>4. ToSet(roots) \subseteq Met(v)
      BY <2>6 DEF WalkInv
    <3>5. QED
      BY <2>4, <3>1, <3>2, <3>3, <3>4 DEF WalkInv
  <2>9. Len(v.stack) <= Len(w.stack) + MAX_BINDS
    <3>1. Len(v.stack) \in Nat /\ Len(LeadsTo(b)) \in Nat
      BY <2>1, <2>4 DEF WalkType
    <3>2. QED
      BY <1>1, <1>2, <2>1, <2>2, <2>4, <3>1, Sizes
  <2>10. QED
    BY <1>7, <2>2, <2>4, <2>5, <2>8, <2>9
<1>8. QED
  BY <1>6, <1>7

(* A walk has pops enough: each takes one off what is on the stack and     *)
(* what the bubbles not yet seen may still put there.                      *)
Unseen(w) == Cardinality(bubbles \ w.seen)
Left(w) == Len(w.stack) + (MAX_BINDS + 1) * Unseen(w)

LEMMA Times ==
  ASSUME NEW u \in Nat, NEW a \in Nat, NEW b \in Nat, a <= b
  PROVE  u * a \in Nat /\ u * b \in Nat /\ u * a <= u * b /\ (a < b => u * a + u <= u * b)
<1>1. PICK c \in Nat : b = a + c
  <2>1. b - a \in Nat /\ b = a + (b - a)
    OBVIOUS
  <2>2. QED
    BY <2>1
<1>2. u * b = u * a + u * c /\ u * c \in Nat /\ u * a \in Nat
  BY <1>1
<1>3. c # 0 => u * c >= u
  <2>1. ASSUME c # 0 PROVE u * c >= u
    <3>1. PICK e \in Nat : c = e + 1
      <4>1. c - 1 \in Nat /\ c = (c - 1) + 1
        BY <2>1
      <4>2. QED
        BY <4>1
    <3>2. u * c = u * e + u /\ u * e \in Nat
      BY <3>1
    <3>3. QED
      BY <3>2
  <2>2. QED
    BY <2>1
<1>4. QED
  BY <1>1, <1>2, <1>3

LEMMA BubblesFinite ==
  ASSUME SlabTypeOK, NEW S \in SUBSET bubbles
  PROVE  IsFiniteSet(S) /\ Cardinality(S) \in Nat /\ Cardinality(S) <= MAX_BUBBLES
<1>1. IsFiniteSet(Bid) /\ Cardinality(Bid) = MAX_BUBBLES
  <2>1. PICK k \in Int : k = MAX_BUBBLES - 1
    BY Sizes
  <2>2. k >= 0 /\ k + 1 = MAX_BUBBLES
    BY <2>1, Sizes
  <2>3. Bid = 0 .. k
    BY <2>1 DEF Bid
  <2>4. PICK z \in Int : z = 0
    OBVIOUS
  <2>5. IsFiniteSet(z .. k) /\ Cardinality(z .. k) = IF z > k THEN 0 ELSE k - z + 1
    BY FS_Interval, Zenon
  <2>6. QED
    BY <2>2, <2>3, <2>4, <2>5
<1>2. S \subseteq Bid
  BY DEF SlabTypeOK
<1>3. QED
  BY <1>1, <1>2, FS_Subset, FS_CardinalityType

LEMMA PopsLeaveLess ==
  ASSUME SlabTypeOK, NEW w, WalkInv(w), w.stack # <<>>
  PROVE  Left(Pop(w)) \in Nat /\ Left(w) \in Nat /\ Left(Pop(w)) + 1 <= Left(w)
<1> DEFINE v == Pop(w)
<1>1. /\ WalkInv(v)
      /\ \/ Len(v.stack) = Len(w.stack) - 1 /\ w.seen \cap bubbles \subseteq v.seen \cap bubbles
         \/ /\ Len(v.stack) <= Len(w.stack) + MAX_BINDS
            /\ \E b \in bubbles \ w.seen : v.seen = w.seen \cup {b}
  BY Pops
<1> HIDE DEF v
<1>2. Len(w.stack) \in Nat /\ Len(v.stack) \in Nat
  BY <1>1 DEF WalkInv, WalkType
<1>3. /\ Unseen(w) \in Nat /\ Unseen(v) \in Nat
      /\ IsFiniteSet(bubbles \ w.seen) /\ IsFiniteSet(bubbles \ v.seen)
  BY BubblesFinite DEF Unseen
<1>4. PICK u \in Nat : u = MAX_BINDS + 1
  BY Sizes
<1> SUFFICES Left(v) \in Nat /\ Left(w) \in Nat /\ Left(v) + 1 <= Left(w)
  BY DEF v
<1>5. Left(w) = Len(w.stack) + u * Unseen(w) /\ Left(v) = Len(v.stack) + u * Unseen(v)
  BY <1>4 DEF Left
<1>6. CASE Len(v.stack) = Len(w.stack) - 1 /\ w.seen \cap bubbles \subseteq v.seen \cap bubbles
  <2>1. bubbles \ v.seen \subseteq bubbles \ w.seen
    BY <1>6
  <2>2. Unseen(v) <= Unseen(w)
    BY <1>3, <2>1, FS_Subset DEF Unseen
  <2>3. u * Unseen(v) \in Nat /\ u * Unseen(w) \in Nat /\ u * Unseen(v) <= u * Unseen(w)
    BY <1>3, <2>2, Times
  <2>4. PICK p, q \in Nat : p = u * Unseen(v) /\ q = u * Unseen(w)
    BY <2>3
  <2>5. Left(w) = Len(w.stack) + q /\ Left(v) = Len(v.stack) + p /\ p <= q
    BY <1>5, <2>3, <2>4
  <2>6. QED
    BY <1>2, <1>6, <2>5
<1>7. CASE /\ Len(v.stack) <= Len(w.stack) + MAX_BINDS
           /\ \E b \in bubbles \ w.seen : v.seen = w.seen \cup {b}
  <2>1. PICK b \in bubbles \ w.seen : bubbles \ v.seen = (bubbles \ w.seen) \ {b}
    BY <1>7
  <2>2. Unseen(v) = Unseen(w) - 1
    <3>1. Cardinality((bubbles \ w.seen) \ {b}) = Cardinality(bubbles \ w.seen) - 1
      BY <1>3, FS_RemoveElement
    <3>2. QED
      BY <2>1, <3>1 DEF Unseen
  <2>3. Unseen(v) <= Unseen(w) /\ Unseen(v) < Unseen(w)
    BY <1>3, <2>2
  <2>4. /\ u * Unseen(v) \in Nat /\ u * Unseen(w) \in Nat
        /\ u * Unseen(v) + u <= u * Unseen(w)
    BY <1>3, <2>3, Times
  <2>5. Len(v.stack) + 1 <= Len(w.stack) + u
    <3>1. PICK m, k, d \in Nat :
             m = Len(v.stack) /\ k = Len(w.stack) /\ d = MAX_BINDS
      BY <1>2, Sizes
    <3>2. m <= k + d
      BY <1>7, <3>1
    <3>3. u = d + 1
      BY <1>4, <3>1
    <3>4. m + 1 <= k + u
      BY ONLY <3>2, <3>3, m \in Nat, k \in Nat, d \in Nat
    <3>5. QED
      BY <3>1, <3>4
  <2>6. PICK p, q \in Nat : p = u * Unseen(v) /\ q = u * Unseen(w)
    BY <2>4
  <2>7. Left(w) = Len(w.stack) + q /\ Left(v) = Len(v.stack) + p /\ p + u <= q
    BY <1>5, <2>4, <2>6
  <2>8. Len(v.stack) + p + 1 <= Len(w.stack) + q
    BY <1>2, <2>5, <2>7
  <2>9. QED
    BY <1>2, <2>7, <2>8
<1>8. QED
  BY <1>1, <1>6, <1>7

(* The function that Walk applies, for the first n pops. *)
Unrolls(f, n) ==
  f = [i \in 0 .. n |-> IF i = 0 THEN PushAll(NoWalk, roots) ELSE Popped(f[i - 1])]

LEMMA UnrollsMore ==
  ASSUME NEW n \in Nat, NEW m \in Nat, m = n + 1, NEW f, Unrolls(f, n) PROVE \E g : Unrolls(g, m)
<1> DEFINE first == PushAll(NoWalk, roots)
           g == [i \in 0 .. m |-> IF i = m THEN Popped(f[n]) ELSE f[i]]
<1>1. ASSUME NEW i \in 0 .. m
      PROVE  g[i] = IF i = 0 THEN first ELSE Popped(g[i - 1])
  <2>1. CASE i = m
    <3>1. g[i] = Popped(f[n]) /\ i # 0 /\ i - 1 = n /\ g[n] = f[n]
      BY <2>1
    <3>2. QED
      BY <2>1, <3>1
  <2>2. CASE i # m
    <3>1. i \in 0 .. n /\ g[i] = f[i]
      BY <2>2
    <3>2. f[i] = IF i = 0 THEN first ELSE Popped(f[i - 1])
      BY <3>1 DEF Unrolls
    <3>3. i # 0 => g[i - 1] = f[i - 1]
      BY <3>1
    <3>4. QED
      BY <3>1, <3>2, <3>3
  <2>3. QED
    BY <2>1, <2>2
<1>2. g = [i \in 0 .. m |-> IF i = 0 THEN first ELSE Popped(g[i - 1])]
  BY <1>1
<1>3. QED
  BY <1>2 DEF Unrolls

LEMMA UnrollsExists == ASSUME NEW n \in Nat PROVE \E f : Unrolls(f, n)
<1> DEFINE S == {k \in Nat : \E f : Unrolls(f, k)}
<1>1. 0 \in S
  <2>1. Unrolls([i \in 0 .. 0 |-> PushAll(NoWalk, roots)], 0)
    BY DEF Unrolls
  <2>2. QED
    BY <2>1
<1>2. \A k, m \in Nat : k \in S /\ m = k + 1 => m \in S
  BY UnrollsMore
<1> HIDE DEF S
<1>3. n \in S
  BY <1>1, <1>2, Induction
<1>4. QED
  BY <1>3 DEF S

(* What a walk knows and the pops it needs. *)
WalkBound(w, n) == w.stack = <<>> \/ n + Left(w) <= MAX_ROOTS + (MAX_BINDS + 1) * Cardinality(bubbles)

LEMMA WalkEnds ==
  ASSUME SlabTypeOK PROVE WalkInv(Walk) /\ Walk.stack = <<>>
<1>1. MaxPops \in Nat /\ MaxPops = MAX_ROOTS + (MAX_BINDS + 1) * MAX_BUBBLES
  BY Sizes DEF MaxPops
<1>2. PICK f : Unrolls(f, MaxPops) /\ f = CHOOSE g : Unrolls(g, MaxPops)
  BY <1>1, UnrollsExists
<1>3. Walk = f[MaxPops]
  BY <1>2 DEF Walk, Unrolls
<1>4. f[0] = PushAll(NoWalk, roots)
  <2>1. 0 \in 0 .. MaxPops
    BY <1>1
  <2>2. QED
    BY <1>2, <2>1 DEF Unrolls
<1>5. ASSUME NEW k \in Nat, NEW m \in Nat, m = k + 1, m <= MaxPops
      PROVE  f[m] = IF f[k].stack = <<>> THEN f[k] ELSE Pop(f[k])
  <2>1. m \in 0 .. MaxPops /\ m # 0 /\ m - 1 = k
    BY <1>1, <1>5
  <2>2. f[m] = IF m = 0 THEN PushAll(NoWalk, roots) ELSE Popped(f[m - 1])
    BY <1>2, <2>1 DEF Unrolls
  <2>3. QED
    BY <2>1, <2>2 DEF Popped
<1> DEFINE Good(k) == WalkInv(f[k]) /\ WalkBound(f[k], k)
           S == {k \in Nat : k <= MaxPops => Good(k)}
<1>6. 0 \in S
  <2>1. /\ WalkInv(f[0]) /\ Len(f[0].stack) <= MAX_ROOTS /\ f[0].seen = {}
    BY <1>4, WalkStarts
  <2>2. Len(f[0].stack) \in Nat
    BY <2>1 DEF WalkInv, WalkType
  <2>3. Left(f[0]) = Len(f[0].stack) + (MAX_BINDS + 1) * Cardinality(bubbles)
    <3>1. bubbles \ f[0].seen = bubbles
      BY <2>1
    <3>2. QED
      BY <3>1 DEF Left, Unseen
  <2>4. (MAX_BINDS + 1) * Cardinality(bubbles) \in Nat
    <3>1. Cardinality(bubbles) \in Nat /\ MAX_BINDS + 1 \in Nat
      BY BubblesFinite, Sizes
    <3>2. QED
      BY <3>1
  <2>5. 0 + Left(f[0]) <= MAX_ROOTS + (MAX_BINDS + 1) * Cardinality(bubbles)
    BY <2>1, <2>2, <2>3, <2>4, Sizes
  <2>6. QED
    BY <2>1, <2>5 DEF WalkBound
<1>7. ASSUME NEW k \in Nat, NEW m \in Nat, k \in S, m = k + 1 PROVE m \in S
  <2>1. SUFFICES ASSUME m <= MaxPops PROVE Good(m)
    OBVIOUS
  <2>2. Good(k)
    BY <1>1, <1>7, <2>1
  <2>3. f[m] = IF f[k].stack = <<>> THEN f[k] ELSE Pop(f[k])
    BY <1>5, <1>7, <2>1
  <2>4. CASE f[k].stack = <<>>
    BY <2>2, <2>3, <2>4 DEF WalkBound
  <2>5. CASE f[k].stack # <<>>
    <3>1. WalkInv(f[m])
      BY <2>2, <2>3, <2>5, Pops
    <3>2. Left(f[m]) \in Nat /\ Left(f[k]) \in Nat /\ Left(f[m]) + 1 <= Left(f[k])
      BY <2>2, <2>3, <2>5, PopsLeaveLess
    <3> DEFINE all == MAX_ROOTS + (MAX_BINDS + 1) * Cardinality(bubbles)
    <3>3. k + Left(f[k]) <= all
      BY <2>2, <2>5 DEF WalkBound
    <3>4. all \in Int
      <4>1. Cardinality(bubbles) \in Nat /\ MAX_BINDS + 1 \in Nat /\ MAX_ROOTS \in Nat
        BY BubblesFinite, Sizes
      <4>2. QED
        BY <4>1
    <3> HIDE DEF all
    <3>5. m + Left(f[m]) <= all
      BY <1>7, <3>2, <3>3, <3>4
    <3>6. QED
      BY <3>1, <3>5 DEF WalkBound, all
  <2>6. QED
    BY <2>4, <2>5
<1> HIDE DEF S
<1>8. MaxPops \in S
  BY <1>1, <1>6, <1>7, Induction
<1>9. WalkInv(Walk) /\ WalkBound(Walk, MaxPops)
  BY <1>1, <1>3, <1>8 DEF S
<1>10. ASSUME Walk.stack # <<>> PROVE FALSE
  <2>1. Len(Walk.stack) \in Nat /\ Len(Walk.stack) >= 1
    BY <1>9, <1>10 DEF WalkInv, WalkType
  <2>2. Unseen(Walk) \in Nat /\ Cardinality(bubbles) \in Nat /\ Cardinality(bubbles) <= MAX_BUBBLES
    BY BubblesFinite DEF Unseen
  <2>3. PICK u \in Nat : u = MAX_BINDS + 1
    BY Sizes
  <2>4. u * Unseen(Walk) \in Nat
    BY <2>2
  <2>5. /\ u * Cardinality(bubbles) \in Nat /\ u * MAX_BUBBLES \in Nat
        /\ u * Cardinality(bubbles) <= u * MAX_BUBBLES
    BY <2>2, Times, Sizes
  <2>6. MaxPops + (Len(Walk.stack) + u * Unseen(Walk)) <= MAX_ROOTS + u * Cardinality(bubbles)
    BY <1>9, <1>10, <2>3 DEF WalkBound, Left
  <2>7. MaxPops = MAX_ROOTS + u * MAX_BUBBLES
    BY <1>1, <2>3
  <2>8. PICK p, q, r \in Nat : p = u * Unseen(Walk) /\ q = u * Cardinality(bubbles) /\ r = u * MAX_BUBBLES
    BY <2>4, <2>5
  <2>9. PICK n \in Nat : n = Len(Walk.stack) /\ n >= 1
    BY <2>1
  <2>10. MAX_ROOTS \in Nat
    BY Sizes
  <2>11. MaxPops = MAX_ROOTS + r /\ MaxPops + (n + p) <= MAX_ROOTS + q /\ q <= r
    BY <2>5, <2>6, <2>7, <2>8, <2>9
  <2>12. PICK a \in Nat : a = MAX_ROOTS
    BY <2>10
  <2>13. (a + r) + (n + p) <= a + q /\ q <= r
    BY <2>11, <2>12
  <2>14. n >= 1
    BY <2>9
  <2>15. QED
    BY ONLY <2>13, <2>14, a \in Nat, n \in Nat, p \in Nat, q \in Nat, r \in Nat
<1>11. QED
  BY <1>9, <1>10

(* A walk whose stack never overflows, or loses only what it sees in some  *)
(* other way, reaches all that is reachable.                               *)
LEMMA WalkIsComplete ==
  ASSUME SlabTypeOK PROVE WalkComplete
<1> DEFINE w == Walk
<1>1. WalkInv(w) /\ w.stack = <<>>
  BY WalkEnds
<1> HIDE DEF w
<1>2. SUFFICES ASSUME w.lost \subseteq w.seen PROVE ReachAtoms \subseteq w.reach
  BY DEF WalkComplete, w
<1>3. Met(w) = w.seen /\ w.seen \subseteq Bid
  <2>1. ToSet(<<>>) = {}
    BY DEF ToSet
  <2>2. QED
    BY <1>1, <1>2, <2>1 DEF Met, WalkInv, WalkType
<1>4. \A r \in DOMAIN roots : roots[r] \in w.seen
  BY <1>1, <1>3 DEF WalkInv, ToSet
<1>5. \A c \in w.seen \cap bubbles, d \in Bid : Edge(c, d) => d \in w.seen
  BY <1>1, <1>3 DEF WalkInv
<1>6. ReachBubbles \subseteq w.seen
  BY <1>3, <1>4, <1>5 DEF ReachBubbles
<1>7. QED
  BY <1>1, <1>6 DEF ReachAtoms, WalkInv

(* SlabStore::walk_reach is complete whenever MAX_BUBBLES is stack enough. *)
THEOREM WalksAreComplete == SlabSpec => []WalkComplete
<1>1. SlotsSound => WalkComplete
  BY WalkIsComplete DEF SlotsSound
<1>2. QED
  BY <1>1, SlotsAreSound, PTL

(* One tick of SlabStore reaps all the cold garbage: what dead atom is     *)
(* left was reachable, and is retained.                                    *)
THEOREM TicksReapGarbage == SlabSpec => TickReapsGarbage
<1>1. ASSUME SlotsSound, Tick
      PROVE  {a \in atoms' : temp'[a] = 0} \subseteq ReachAtoms \cap retained'
  <2>1. Walk.reach \subseteq ReachAtoms
    BY <1>1, WalkEnds DEF SlotsSound, WalkInv
  <2>2. PICK cool :
          /\ temp' = cool /\ atoms' = atoms \ ({a \in atoms : cool[a] = 0} \ Walk.reach)
          /\ retained' = {a \in atoms : cool[a] = 0} \cap Walk.reach
    BY <1>1 DEF Tick, Collect
  <2>3. QED
    BY <2>1, <2>2
<1>2. SlotsSound /\ [SlabNext]_slabVars
        => [Tick => {a \in atoms' : temp'[a] = 0} \subseteq ReachAtoms \cap retained']_slabVars
  BY <1>1
<1>3. QED
  BY <1>2, SlotsAreSound, PTL DEF SlabSpec, TickReapsGarbage

-----------------------------------------------------------------------------
(* Part 2, HandleTable *)

USE HandleAssumption

(* Short of the wrap. *)
NoWrap == MaxStores <= GenLimit

SlotType == [gen : Nat, store : StoreId \cup {None}]

(* A slot has been used gen + 1 times, so gen is below the stores made; a  *)
(* handle is never ahead of its slot, and level with it only while the     *)
(* slot holds, or last held, the handle's own store.                       *)
TableInv ==
  /\ made \in 0 .. MaxStores
  /\ slots \in Seq(SlotType)
  /\ issued \in Seq([idx : Nat, gen : Nat]) /\ Len(issued) = made
  /\ \A i \in DOMAIN slots : slots[i].gen < made
  /\ \A s \in 1 .. made :
       /\ issued[s].idx \in DOMAIN slots
       /\ issued[s].gen <= slots[issued[s].idx].gen
       /\ issued[s].gen = slots[issued[s].idx].gen
            => slots[issued[s].idx].store \in {s, None}

LEMMA GenerationAdvances ==
  ASSUME NoWrap, NEW g \in Nat, g < made, made \in Nat, made < MaxStores
  PROVE  NextGen(g) = g + 1
<1>1. g + 1 \in 0 .. GenLimit - 1
  BY DEF NoWrap
<1>2. QED
  BY <1>1 DEF NextGen

LEMMA UpdateFacts ==
  ASSUME NEW S, NEW q \in Seq(S), NEW i \in DOMAIN q, NEW x \in S,
         NEW r, r = [q EXCEPT ![i] = x]
  PROVE  /\ r \in Seq(S) /\ DOMAIN r = DOMAIN q
         /\ r[i] = x
         /\ \A j \in DOMAIN q : j # i => r[j] = q[j]
  OBVIOUS

LEMMA AppendFacts ==
  ASSUME NEW S, NEW q \in Seq(S), NEW x \in S, NEW r, r = Append(q, x)
  PROVE  /\ r \in Seq(S) /\ Len(r) = Len(q) + 1 /\ Len(q) \in Nat
         /\ DOMAIN q = 1 .. Len(q) /\ DOMAIN r = 1 .. Len(q) + 1
         /\ r[Len(q) + 1] = x
         /\ \A j \in 1 .. Len(q) : r[j] = q[j]
  OBVIOUS

LEMMA ElementFacts ==
  ASSUME NEW S, NEW q \in Seq(S)
  PROVE  /\ Len(q) \in Nat /\ DOMAIN q = 1 .. Len(q)
         /\ \A j \in DOMAIN q : q[j] \in S
  OBVIOUS

LEMMA TableFacts ==
  ASSUME TableInv
  PROVE  /\ made \in Nat /\ Len(slots) \in Nat /\ DOMAIN slots = 1 .. Len(slots)
         /\ \A j \in DOMAIN slots : slots[j] \in SlotType /\ slots[j].gen \in Nat
         /\ \A s \in 1 .. made : /\ issued[s] \in [idx : Nat, gen : Nat]
                                 /\ issued[s].idx \in Nat /\ issued[s].gen \in Nat
<1>1. made \in Nat
  BY DEF TableInv
<1>2. /\ Len(slots) \in Nat /\ DOMAIN slots = 1 .. Len(slots)
      /\ \A j \in DOMAIN slots : slots[j] \in SlotType
  BY ElementFacts DEF TableInv
<1>3. DOMAIN issued = 1 .. made /\ \A s \in DOMAIN issued : issued[s] \in [idx : Nat, gen : Nat]
  BY ElementFacts DEF TableInv
<1>4. \A r \in SlotType : r.gen \in Nat
  BY DEF SlotType
<1>5. QED
  BY <1>1, <1>2, <1>3, <1>4

LEMMA InvKeepsHandles == TableInv => HandleKeepsItsStore
  BY DEF TableInv, HandleKeepsItsStore, Resolve

-----------------------------------------------------------------------------
(* The steps *)

LEMMA NewInUsedSlot ==
  ASSUME NoWrap, TableInv, made < MaxStores, NEW i \in FreeSlots,
         slots' = [slots EXCEPT ![i] =
                     [gen |-> NextGen(slots[i].gen), store |-> made + 1]],
         Issue(i, NextGen(slots[i].gen))
  PROVE  TableInv'
<1> DEFINE g == NextGen(slots[i].gen)
<1>1. i \in DOMAIN slots /\ slots[i] \in SlotType /\ slots[i].gen < made
  <2>1. i \in DOMAIN slots
    BY DEF FreeSlots
  <2>2. slots[i] \in SlotType
    BY <2>1, TableFacts
  <2>3. slots[i].gen < made
    BY <2>1 DEF TableInv
  <2>4. QED
    BY <2>1, <2>2, <2>3
<1>2. g = slots[i].gen + 1 /\ g \in Nat /\ g <= made
  <2>1. PICK k \in Nat : k = slots[i].gen
    BY <1>1 DEF TableInv, SlotType
  <2>2. made \in Nat /\ k < made /\ made < MaxStores
    BY <1>1, <2>1 DEF TableInv
  <2>3. g = k + 1
    BY <2>1, <2>2, GenerationAdvances
  <2>4. QED
    BY <2>1, <2>2, <2>3
<1> HIDE DEF g
<1>3. slots' = [slots EXCEPT ![i] = [gen |-> g, store |-> made + 1]]
  BY DEF g
<1>4. made' = made + 1 /\ issued' = Append(issued, [idx |-> i, gen |-> g])
  BY DEF Issue, g
<1>5. made' \in 0 .. MaxStores /\ made + 1 \in StoreId
  BY <1>4 DEF TableInv, StoreId
<1> DEFINE x == [gen |-> g, store |-> made + 1]
<1>6. /\ slots' \in Seq(SlotType) /\ DOMAIN slots' = DOMAIN slots
      /\ slots'[i] = x
      /\ \A j \in DOMAIN slots : j # i => slots'[j] = slots[j]
  <2>1. x \in SlotType
    BY <1>2, <1>5 DEF SlotType
  <2> HIDE DEF x
  <2>2. slots' = [slots EXCEPT ![i] = x]
    BY <1>3 DEF x
  <2>3. QED
    BY <1>1, <2>1, <2>2, UpdateFacts DEF TableInv
<1>7. /\ issued' \in Seq([idx : Nat, gen : Nat]) /\ Len(issued') = made'
      /\ issued'[made + 1] = [idx |-> i, gen |-> g]
      /\ \A s \in 1 .. made : issued'[s] = issued[s]
  <2>1. [idx |-> i, gen |-> g] \in [idx : Nat, gen : Nat]
    BY <1>1, <1>2 DEF TableInv
  <2>2. QED
    BY <1>4, <2>1, AppendFacts DEF TableInv
<1>8. \A j \in DOMAIN slots' : slots'[j].gen < made'
  <2> SUFFICES ASSUME NEW j \in DOMAIN slots PROVE slots'[j].gen < made'
    BY <1>6
  <2>1. CASE j = i
    <3>1. slots'[j].gen = g
      BY <1>6, <2>1
    <3>2. QED
      BY <1>2, <1>4, <3>1 DEF TableInv
  <2>2. CASE j # i
    <3>1. slots'[j].gen = slots[j].gen /\ slots[j].gen < made /\ slots[j].gen \in Nat
      BY <1>6, <2>2, TableFacts DEF TableInv
    <3>2. QED
      BY <1>4, <3>1 DEF TableInv
  <2>3. QED
    BY <2>1, <2>2
<1>9. ASSUME NEW s \in 1 .. made'
      PROVE  /\ issued'[s].idx \in DOMAIN slots'
             /\ issued'[s].gen <= slots'[issued'[s].idx].gen
             /\ issued'[s].gen = slots'[issued'[s].idx].gen
                  => slots'[issued'[s].idx].store \in {s, None}
  <2>1. CASE s = made + 1
    <3>1. issued'[s] = [idx |-> i, gen |-> g]
      BY <1>7, <2>1
    <3>2. issued'[s].idx = i /\ issued'[s].gen = g /\ slots'[i].gen = g /\ slots'[i].store = s
      BY <1>6, <2>1, <3>1
    <3>3. QED
      BY <1>1, <1>2, <1>6, <3>2
  <2>2. CASE s \in 1 .. made
    <3>1. issued'[s] = issued[s]
      BY <1>7, <2>2
    <3>2. issued[s].gen \in Nat
      BY <2>2, TableFacts
    <3>3. CASE issued[s].idx = i
      <4>1. issued[s].gen <= slots[i].gen
        BY <2>2, <3>3 DEF TableInv
      <4>2. slots'[i].gen = g
        BY <1>6
      <4>3. issued[s].gen < g
        BY <1>1, <1>2, <3>2, <4>1 DEF SlotType
      <4>4. QED
        BY <1>1, <1>2, <1>6, <3>1, <3>2, <3>3, <4>2, <4>3
    <3>4. CASE issued[s].idx # i
      <4>1. issued[s].idx \in DOMAIN slots /\ slots'[issued[s].idx] = slots[issued[s].idx]
        BY <1>6, <2>2, <3>4 DEF TableInv
      <4>2. QED
        BY <1>6, <2>2, <3>1, <4>1 DEF TableInv
    <3>5. QED
      BY <3>3, <3>4
  <2>3. s = made + 1 \/ s \in 1 .. made
    BY <1>4, TableFacts
  <2>4. QED
    BY <2>1, <2>2, <2>3
<1>10. QED
  BY <1>5, <1>6, <1>7, <1>8, <1>9 DEF TableInv

LEMMA NewInFreshSlot ==
  ASSUME TableInv, made < MaxStores,
         slots' = Append(slots, [gen |-> 0, store |-> made + 1]),
         Issue(Len(slots) + 1, 0)
  PROVE  TableInv'
<1>1. made' = made + 1 /\ issued' = Append(issued, [idx |-> Len(slots) + 1, gen |-> 0])
  BY DEF Issue
<1>2. made' \in 0 .. MaxStores /\ made + 1 \in StoreId
  BY <1>1 DEF TableInv, StoreId
<1>3. /\ slots' \in Seq(SlotType)
      /\ DOMAIN slots' = 1 .. Len(slots) + 1
      /\ \A j \in DOMAIN slots : slots'[j] = slots[j]
      /\ slots'[Len(slots) + 1] = [gen |-> 0, store |-> made + 1]
  <2> DEFINE x == [gen |-> 0, store |-> made + 1]
  <2>1. x \in SlotType
    BY <1>2 DEF SlotType
  <2>2. slots' = Append(slots, x)
    OBVIOUS
  <2>3. slots \in Seq(SlotType)
    BY DEF TableInv
  <2> HIDE DEF x
  <2>4. QED
    BY <2>1, <2>2, <2>3, AppendFacts DEF x
<1>4. /\ issued' \in Seq([idx : Nat, gen : Nat]) /\ Len(issued') = made'
      /\ issued'[made + 1] = [idx |-> Len(slots) + 1, gen |-> 0]
      /\ \A s \in 1 .. made : issued'[s] = issued[s]
  <2>1. [idx |-> Len(slots) + 1, gen |-> 0] \in [idx : Nat, gen : Nat]
    BY DEF TableInv
  <2>2. QED
    BY <1>1, <2>1, AppendFacts DEF TableInv
<1>5. \A j \in DOMAIN slots' : slots'[j].gen < made'
  <2> SUFFICES ASSUME NEW j \in DOMAIN slots' PROVE slots'[j].gen < made'
    OBVIOUS
  <2>1. CASE j = Len(slots) + 1
    <3>1. slots'[j].gen = 0
      BY <1>3, <2>1
    <3>2. QED
      BY <1>1, <3>1 DEF TableInv
  <2>2. CASE j # Len(slots) + 1
    <3>1. j \in DOMAIN slots
      BY <1>3, <2>2 DEF TableInv
    <3>2. slots'[j].gen = slots[j].gen /\ slots[j].gen < made /\ slots[j].gen \in Nat
      BY <1>3, <3>1, TableFacts DEF TableInv
    <3>3. QED
      BY <1>1, <3>2 DEF TableInv
  <2>3. QED
    BY <2>1, <2>2
<1>6. ASSUME NEW s \in 1 .. made'
      PROVE  /\ issued'[s].idx \in DOMAIN slots'
             /\ issued'[s].gen <= slots'[issued'[s].idx].gen
             /\ issued'[s].gen = slots'[issued'[s].idx].gen
                  => slots'[issued'[s].idx].store \in {s, None}
  <2>1. CASE s = made + 1
    <3>1. issued'[s] = [idx |-> Len(slots) + 1, gen |-> 0]
      BY <1>4, <2>1
    <3>2. /\ issued'[s].idx = Len(slots) + 1 /\ issued'[s].gen = 0
          /\ slots'[Len(slots) + 1].gen = 0 /\ slots'[Len(slots) + 1].store = s
      <4>1. issued'[s].idx = Len(slots) + 1 /\ issued'[s].gen = 0
        BY <3>1
      <4>2. slots'[Len(slots) + 1] = [gen |-> 0, store |-> s]
        BY <1>3, <2>1
      <4>3. QED
        BY <4>1, <4>2
    <3>3. Len(slots) \in Nat
      BY DEF TableInv
    <3>4. QED
      BY <1>3, <3>2, <3>3
  <2>2. CASE s \in 1 .. made
    <3>1. issued'[s] = issued[s]
      BY <1>4, <2>2
    <3>2. issued[s].idx \in DOMAIN slots
      BY <2>2 DEF TableInv
    <3>3. Len(slots) \in Nat /\ DOMAIN slots = 1 .. Len(slots)
      BY DEF TableInv
    <3>4. issued[s].idx \in DOMAIN slots'
      BY <1>3, <3>2, <3>3
    <3>5. slots'[issued[s].idx] = slots[issued[s].idx]
      BY <1>3, <3>2
    <3>6. QED
      BY <2>2, <3>1, <3>4, <3>5 DEF TableInv
  <2>3. s = made + 1 \/ s \in 1 .. made
    BY <1>1, TableFacts
  <2>4. QED
    BY <2>1, <2>2, <2>3
<1>7. QED
  BY <1>2, <1>3, <1>4, <1>5, <1>6 DEF TableInv

LEMMA DropKeepsTable ==
  ASSUME TableInv, NEW t \in Thread, Drop(t)
  PROVE  TableInv'
<1>1. made' = made /\ issued' = issued
  BY DEF Drop
<1>2. CASE Resolve(job[t].h) = None
  BY <1>1, <1>2 DEF Drop, TableInv
<1>3. CASE Resolve(job[t].h) # None
  <2> DEFINE i == job[t].h.idx
  <2>1. i \in DOMAIN slots /\ slots' = [slots EXCEPT ![i].store = None]
    BY <1>3 DEF Drop, Resolve
  <2> HIDE DEF i
  <2> DEFINE x == [slots[i] EXCEPT !.store = None]
  <2>2. slots[i] \in SlotType /\ slots \in Seq(SlotType)
    BY <2>1, TableFacts DEF TableInv
  <2>3. x \in SlotType /\ x.gen = slots[i].gen /\ x.store = None
    BY <2>2 DEF SlotType
  <2>4. slots' = [slots EXCEPT ![i] = x]
    BY <2>1
  <2> HIDE DEF x
  <2>5. /\ slots' \in Seq(SlotType) /\ DOMAIN slots' = DOMAIN slots /\ slots'[i] = x
        /\ \A j \in DOMAIN slots : j # i => slots'[j] = slots[j]
    BY <2>1, <2>2, <2>3, <2>4, UpdateFacts
  <2>6. \A j \in DOMAIN slots : /\ slots'[j].gen = slots[j].gen
                               /\ slots'[j].store \in {slots[j].store, None}
    BY <2>3, <2>5
  <2>7. QED
    BY <1>1, <2>5, <2>6 DEF TableInv
<1>4. QED
  BY <1>2, <1>3

LEMMA TableStep == ASSUME NoWrap PROVE TableInv /\ [Next]_vars => TableInv'
<1> SUFFICES ASSUME TableInv, [Next]_vars PROVE TableInv'
  OBVIOUS
<1>1. ASSUME NEW t \in Thread, StoreNew(t) PROVE TableInv'
  <2>1. CASE \E i \in FreeSlots :
               LET g == NextGen(slots[i].gen) IN
               slots' = [slots EXCEPT ![i] = [gen |-> g, store |-> made + 1]] /\ Issue(i, g)
    BY <1>1, <2>1, NewInUsedSlot DEF StoreNew
  <2>2. CASE slots' = Append(slots, [gen |-> 0, store |-> made + 1]) /\ Issue(Len(slots) + 1, 0)
    BY <1>1, <2>2, NewInFreshSlot DEF StoreNew
  <2>3. QED
    BY <1>1, <2>1, <2>2 DEF StoreNew
<1>2. ASSUME NEW t \in Thread, Drop(t) PROVE TableInv'
  BY <1>2, DropKeepsTable
<1>3. CASE UNCHANGED <<slots, made, issued>>
  BY <1>3 DEF TableInv
<1>4. ASSUME NEW t \in Thread, Step(t), ~ Drop(t) PROVE UNCHANGED <<slots, made, issued>>
  BY <1>4 DEF Step, Clone, SetValue, ReadToken, SetGuest, RunHook, HookReturns,
       HookRegisters, FindSlot, TakeHooks, Install
<1>5. ASSUME NEW t \in Thread, NEW op \in Op, NEW s \in 1 .. made, NEW k \in Token,
             Call(t, op, s, k)
      PROVE  UNCHANGED <<slots, made, issued>>
  BY <1>5 DEF Call
<1>6. CASE UNCHANGED vars
  BY <1>3, <1>6 DEF vars
<1>7. QED
  BY <1>1, <1>2, <1>3, <1>4, <1>5, <1>6 DEF Next

LEMMA TableInit == Init => TableInv
  BY DEF Init, TableInv

(* A handle names the store it was made for or nothing (ffi.rs:21), for    *)
(* any number of threads, slots and frees short of the wrap.               *)
THEOREM NoABA == ASSUME NoWrap PROVE Spec => []HandleKeepsItsStore
  BY TableInit, TableStep, InvKeepsHandles, PTL DEF Spec

-----------------------------------------------------------------------------
(* Whose handle a call works with *)

(* A job is a record of its four fields; one that runs has a handle that   *)
(* ksub_store_new returned.                                                *)
JobFields == {"op", "h", "store", "tok"}

JobInv ==
  /\ DOMAIN pc = Thread /\ DOMAIN job = Thread
  /\ \A t \in Thread : DOMAIN job[t] = JobFields
  /\ \A t \in Thread : pc[t] # "idle" => \E s \in 1 .. made : job[t].h = issued[s]

LEMMA JobInit == Init => JobInv
  BY DEF Init, JobInv, NoJob, JobFields

(* What a step of a call may do to the calls: its own ends, or goes on     *)
(* with the handle it has.                                                 *)
CallGoesOn(t) ==
  /\ DOMAIN pc' = Thread /\ DOMAIN job' = Thread
  /\ \A u \in Thread : u # t => pc'[u] = pc[u] /\ job'[u] = job[u]
  /\ DOMAIN job'[t] = JobFields
  /\ pc'[t] = "idle" \/ (pc[t] # "idle" /\ job'[t].h = job[t].h)

LEMMA CallGoesOnKeeps ==
  ASSUME JobInv, NEW t \in Thread, CallGoesOn(t), UNCHANGED <<made, issued>>
  PROVE  JobInv'
  BY DEF JobInv, CallGoesOn

LEMMA ReturnGoesOn ==
  ASSUME JobInv, NEW t \in Thread, NEW from, Return(t, from)
  PROVE  CallGoesOn(t)
  BY DEF JobInv, CallGoesOn, Return, Go, NoJob, JobFields

LEMMA GoKeepsHandle ==
  ASSUME JobInv, NEW t \in Thread, NEW from, from # "idle", NEW to, Go(t, from, to),
         \/ job' = job
         \/ \E v : job' = [job EXCEPT ![t].store = v]
         \/ \E v : job' = [job EXCEPT ![t].tok = v]
  PROVE  CallGoesOn(t)
<1>1. /\ DOMAIN pc' = Thread /\ pc[t] # "idle"
      /\ \A u \in Thread : u # t => pc'[u] = pc[u]
  BY DEF JobInv, Go
<1>2. DOMAIN job[t] = JobFields /\ DOMAIN job = Thread
  BY DEF JobInv
<1>3. CASE job' = job
  BY <1>1, <1>2, <1>3 DEF CallGoesOn
<1>4. ASSUME NEW v, job' = [job EXCEPT ![t].store = v] PROVE CallGoesOn(t)
  BY <1>1, <1>2, <1>4 DEF CallGoesOn, JobFields
<1>5. ASSUME NEW v, job' = [job EXCEPT ![t].tok = v] PROVE CallGoesOn(t)
  BY <1>1, <1>2, <1>5 DEF CallGoesOn, JobFields
<1>6. QED
  BY <1>3, <1>4, <1>5

LEMMA JobStep == TableInv /\ JobInv /\ [Next]_vars => JobInv'
<1> SUFFICES ASSUME TableInv, JobInv, [Next]_vars PROVE JobInv'
  OBVIOUS
<1>1. ASSUME NEW t \in Thread, StoreNew(t) PROVE JobInv'
  <2>1. pc' = pc /\ job' = job /\ made' = made + 1
        /\ \A s \in 1 .. made : issued'[s] = issued[s]
    <3>1. PICK i, g : issued' = Append(issued, [idx |-> i, gen |-> g])
      BY <1>1 DEF StoreNew, Issue
    <3>2. issued \in Seq([idx : Nat, gen : Nat]) /\ Len(issued) = made
      BY DEF TableInv
    <3>3. \A s \in 1 .. made : issued'[s] = issued[s]
      BY <3>1, <3>2
    <3>4. QED
      BY <1>1, <3>3 DEF StoreNew, Issue
  <2>2. 1 .. made \subseteq 1 .. made + 1
    BY TableFacts
  <2>3. QED
    BY <2>1, <2>2 DEF JobInv
<1>2. ASSUME NEW t \in Thread, Step(t) PROVE JobInv'
  <2>1. UNCHANGED <<made, issued>>
    BY <1>2 DEF Step, Clone, SetValue, ReadToken, SetGuest, RunHook, HookReturns, HookRegisters,
         FindSlot, TakeHooks, Install, Drop
  <2>2. CallGoesOn(t)
    <3>1. CASE Clone(t)
      BY <3>1, ReturnGoesOn, GoKeepsHandle DEF Clone
    <3>2. CASE SetValue(t) \/ SetGuest(t) \/ HookReturns(t) \/ Install(t) \/ Drop(t)
      BY <3>2, ReturnGoesOn DEF SetValue, SetGuest, HookReturns, Install, Drop
    <3>3. CASE ReadToken(t) \/ RunHook(t) \/ HookRegisters(t) \/ TakeHooks(t)
      BY <3>3, GoKeepsHandle DEF ReadToken, RunHook, HookRegisters, TakeHooks
    <3>4. CASE FindSlot(t)
      BY <3>4, ReturnGoesOn, GoKeepsHandle DEF FindSlot
    <3>5. QED
      BY <1>2, <3>1, <3>2, <3>3, <3>4 DEF Step
  <2>3. QED
    BY <2>1, <2>2, CallGoesOnKeeps
<1>3. ASSUME NEW t \in Thread, NEW op \in Op, NEW s \in 1 .. made, NEW k \in Token,
             Call(t, op, s, k)
      PROVE  JobInv'
  <2>1. DOMAIN pc' = Thread /\ DOMAIN job' = Thread
    BY <1>3 DEF Call, Go, JobInv
  <2>2. \A u \in Thread : u # t => pc'[u] = pc[u] /\ job'[u] = job[u]
    BY <1>3 DEF Call, Go, JobInv
  <2>3. DOMAIN job'[t] = JobFields /\ job'[t].h = issued[s]
    BY <1>3 DEF Call, JobInv, JobFields
  <2>4. made' = made /\ issued' = issued
    BY <1>3 DEF Call
  <2>5. QED
    BY <2>1, <2>2, <2>3, <2>4 DEF JobInv
<1>4. CASE UNCHANGED vars
  BY <1>4 DEF vars, JobInv
<1>5. QED
  BY <1>1, <1>2, <1>3, <1>4 DEF Next

-----------------------------------------------------------------------------
(* Frees *)

LEMMA StoreNewFreesNone ==
  ASSUME TableInv, NEW t \in Thread, StoreNew(t), NEW s, s # None, Live(s)
  PROVE  \E i \in DOMAIN slots' : slots'[i].store = s
<1>1. PICK i \in DOMAIN slots : slots[i].store = s
  BY DEF Live
<1>2. CASE \E j \in FreeSlots : \E r : slots' = [slots EXCEPT ![j] = r]
  BY <1>1, <1>2 DEF FreeSlots
<1>3. CASE \E r : slots' = Append(slots, r)
  <2>1. i \in DOMAIN slots' /\ slots'[i] = slots[i]
    BY <1>1, <1>3 DEF TableInv
  <2>2. QED
    BY <1>1, <2>1
<1>4. QED
  BY <1>2, <1>3 DEF StoreNew

LEMMA DropFreesItsOwn ==
  ASSUME TableInv, JobInv, NEW t \in Thread, Drop(t), NEW s \in 1 .. made, Live(s)
  PROVE  (\E i \in DOMAIN slots' : slots'[i].store = s) \/ job[t].h = issued[s]
<1>1. PICK i \in DOMAIN slots : slots[i].store = s
  BY DEF Live
<1>2. CASE Resolve(job[t].h) = None
  BY <1>1, <1>2 DEF Drop
<1>3. CASE Resolve(job[t].h) # None
  <2> DEFINE h == job[t].h
  <2>1. /\ h.idx \in DOMAIN slots /\ slots[h.idx].gen = h.gen
        /\ slots[h.idx].store # None
        /\ slots' = [slots EXCEPT ![h.idx].store = None]
    BY <1>3 DEF Drop, Resolve
  <2>2. PICK r \in 1 .. made : h = issued[r]
    BY DEF JobInv, Drop, Return, Go
  <2>3. slots[h.idx].store = r
    BY <2>1, <2>2 DEF TableInv
  <2>4. CASE i = h.idx
    BY <1>1, <2>2, <2>3, <2>4
  <2>5. CASE i # h.idx
    BY <1>1, <2>1, <2>5
  <2>6. QED
    BY <2>4, <2>5
<1>4. QED
  BY <1>2, <1>3

FreeAction ==
  \A s \in 1 .. made : Live(s) =>
    \/ \E i \in DOMAIN slots' : slots'[i].store = s
    \/ \E t \in Thread : Drop(t) /\ job[t].h = issued[s]

LEMMA FreeStep == TableInv /\ JobInv /\ [Next]_vars => [FreeAction]_vars
<1> SUFFICES ASSUME TableInv, JobInv, [Next]_vars, NEW s \in 1 .. made, Live(s)
             PROVE  \/ \E i \in DOMAIN slots' : slots'[i].store = s
                    \/ \E t \in Thread : Drop(t) /\ job[t].h = issued[s]
  BY DEF FreeAction
<1>1. s # None
  BY DEF TableInv
<1>2. CASE \E t \in Thread : StoreNew(t)
  BY <1>1, <1>2, StoreNewFreesNone
<1>3. CASE \E t \in Thread : Drop(t)
  BY <1>3, DropFreesItsOwn
<1>4. CASE UNCHANGED slots
  BY <1>4 DEF Live
<1>5. ASSUME NEW t \in Thread, Step(t), ~ Drop(t) PROVE UNCHANGED slots
  BY <1>5 DEF Step, Clone, SetValue, ReadToken, SetGuest, RunHook, HookReturns,
       HookRegisters, FindSlot, TakeHooks, Install
<1>6. ASSUME NEW t \in Thread, NEW op \in Op, NEW r \in 1 .. made, NEW k \in Token,
             Call(t, op, r, k)
      PROVE  UNCHANGED slots
  BY <1>6 DEF Call
<1>7. CASE UNCHANGED vars
  BY <1>4, <1>7 DEF vars
<1>8. QED
  BY <1>2, <1>3, <1>4, <1>5, <1>6, <1>7 DEF Next

(* A store goes only by a free with its own handle, whoever uses the slot  *)
(* again between the two critical sections of ksub_store_free.             *)
THEOREM FreesOwnStore == ASSUME NoWrap PROVE Spec => OnlyOwnHandleFrees
<1>1. Init => TableInv /\ JobInv
  BY TableInit, JobInit
<1>2. TableInv /\ JobInv /\ [Next]_vars => (TableInv /\ JobInv)' /\ [FreeAction]_vars
  BY TableStep, JobStep, FreeStep
<1>3. QED
  BY <1>1, <1>2, PTL DEF Spec, OnlyOwnHandleFrees, FreeAction

-----------------------------------------------------------------------------
(* Types *)

CallPC == {"idle", "clone", "run", "write", "hook", "hooks", "enter", "drop"}

SlotTypeOK == [gen : 0 .. GenLimit - 1, store : StoreId \cup {None}]

(* A call that runs has a store that was made, and a token to write where  *)
(* it will write one.                                                      *)
RunningJob(l, j) ==
  IF l = "idle" THEN j = NoJob ELSE
    /\ j \in Job
    /\ l \in {"run", "write", "hook"} => j.store \in 1 .. made
    /\ j.op = "set_value" \/ l = "write" => j.tok \in Token

StoresMade == \A i \in DOMAIN slots : slots[i].store \in (1 .. made) \cup {None}

TypeInv == TypeOK /\ StoresMade /\ \A t \in Thread : RunningJob(pc[t], job[t])

LEMMA TypeInit == Init => TypeInv
<1>1. SUFFICES ASSUME Init PROVE TypeInv
  OBVIOUS
<1>2. InitialToken \in Token
  BY DEF InitialToken
<1>3. slots \in Seq(SlotTypeOK) /\ Len(slots) = 0 /\ DOMAIN slots = {}
  BY <1>1 DEF Init
<1>4. 1 .. 0 = {}
  OBVIOUS
<1>5. issued \in [1 .. made -> Handle] /\ tokens \in [1 .. made -> Token] /\ made \in 0 .. MaxStores
  BY <1>1, <1>4 DEF Init
<1>6. TypeOK
  BY <1>1, <1>3, <1>5 DEF Init, TypeOK, SlotTypeOK
<1>7. QED
  BY <1>1, <1>3, <1>6 DEF Init, TypeInv, StoresMade, RunningJob

LEMMA ResolveMade ==
  ASSUME StoresMade, NEW h
  PROVE  Resolve(h) \in (1 .. made) \cup {None}
  BY DEF StoresMade, Resolve

(* A step of thread t that changes its own call, and perhaps a token or    *)
(* the store of a slot.                                                    *)
LEMMA CallTypes ==
  ASSUME TypeInv, NEW t \in Thread, NEW l \in CallPC, NEW j,
         pc' = [pc EXCEPT ![t] = l], job' = [job EXCEPT ![t] = j],
         UNCHANGED <<lock, made, issued>>, hooks' \in {hooks, t, None},
         slots' \in Seq(SlotTypeOK), Len(slots') <= MaxSlots, StoresMade',
         tokens' \in [1 .. made -> Token], RunningJob(l, j)
  PROVE  TypeInv'
<1>1. j \in {NoJob} \cup Job
  BY DEF RunningJob
<1>2. TypeOK'
  BY <1>1 DEF TypeInv, TypeOK, CallPC, SlotTypeOK
<1>3. \A u \in Thread : RunningJob(pc'[u], job'[u])
  BY DEF TypeInv, TypeOK
<1>4. \A u \in Thread : RunningJob(pc[u], job[u])'
  BY <1>3 DEF RunningJob
<1>5. QED
  BY <1>2, <1>4 DEF TypeInv

LEMMA NewStoreTypes ==
  ASSUME TypeInv, NEW t \in Thread, StoreNew(t)
  PROVE  TypeInv'
<1>1. InitialToken \in Token
  BY DEF InitialToken
<1>2. /\ made \in Nat /\ made' = made + 1 /\ made' \in StoreId /\ made' \in 0 .. MaxStores
      /\ slots \in Seq(SlotTypeOK) /\ Len(slots) \in Nat /\ Len(slots) <= MaxSlots
      /\ issued \in [1 .. made -> Handle] /\ tokens \in [1 .. made -> Token]
  <2>1. /\ made \in 0 .. MaxStores /\ slots \in Seq(SlotTypeOK) /\ Len(slots) <= MaxSlots
        /\ issued \in [1 .. made -> Handle] /\ tokens \in [1 .. made -> Token]
    BY DEF TypeInv, TypeOK, SlotTypeOK
  <2>2. made < MaxStores /\ made' = made + 1
    BY DEF StoreNew, Issue
  <2>3. QED
    BY <2>1, <2>2, ElementFacts DEF StoreId
<1>3. PICK i, g :
        /\ i \in 1 .. MaxSlots /\ g \in 0 .. GenLimit - 1 /\ Issue(i, g)
        /\ \/ i \in DOMAIN slots /\ slots' = [slots EXCEPT ![i] = [gen |-> g, store |-> made + 1]]
           \/ Len(slots) < MaxSlots /\ slots' = Append(slots, [gen |-> g, store |-> made + 1])
  <2>1. CASE \E i \in FreeSlots : LET g == NextGen(slots[i].gen) IN
               slots' = [slots EXCEPT ![i] = [gen |-> g, store |-> made + 1]] /\ Issue(i, g)
    <3>1. PICK i \in DOMAIN slots :
            /\ slots' = [slots EXCEPT ![i] = [gen |-> NextGen(slots[i].gen), store |-> made + 1]]
            /\ Issue(i, NextGen(slots[i].gen))
      BY <2>1 DEF FreeSlots
    <3>2. slots[i] \in SlotTypeOK /\ i \in 1 .. MaxSlots
      <4>1. slots[i] \in SlotTypeOK /\ i \in 1 .. Len(slots)
        BY <1>2, <3>1, ElementFacts
      <4>2. QED
        BY <1>2, <4>1
    <3>3. NextGen(slots[i].gen) \in 0 .. GenLimit - 1
      <4>1. slots[i].gen \in 0 .. GenLimit - 1
        BY <3>2 DEF SlotTypeOK
      <4>2. QED
        BY <4>1 DEF NextGen
    <3>4. QED
      BY <3>1, <3>2, <3>3
  <2>2. CASE Len(slots) < MaxSlots /\ slots' = Append(slots, [gen |-> 0, store |-> made + 1])
             /\ Issue(Len(slots) + 1, 0)
    <3>1. Len(slots) + 1 \in 1 .. MaxSlots /\ 0 \in 0 .. GenLimit - 1
      BY <1>2, <2>2
    <3>2. QED
      BY <2>2, <3>1
  <2>3. QED
    BY <2>1, <2>2 DEF StoreNew
<1>4. /\ issued' = Append(issued, [idx |-> i, gen |-> g]) /\ tokens' = Append(tokens, InitialToken)
      /\ [idx |-> i, gen |-> g] \in Handle
  BY <1>3 DEF Issue, Handle
<1>5. issued' \in [1 .. made' -> Handle] /\ tokens' \in [1 .. made' -> Token]
  <2>1. /\ issued \in Seq(Handle) /\ Len(issued) = made /\ tokens \in Seq(Token) /\ Len(tokens) = made
    BY <1>2
  <2>2. /\ issued' \in Seq(Handle) /\ Len(issued') = made + 1
        /\ tokens' \in Seq(Token) /\ Len(tokens') = made + 1
    BY <1>1, <1>4, <2>1
  <2>3. QED
    BY <1>2, <2>2
<1>6. PICK r \in SlotTypeOK :
        /\ r = [gen |-> g, store |-> made + 1]
        /\ \/ slots' = [slots EXCEPT ![i] = r] /\ i \in DOMAIN slots
           \/ slots' = Append(slots, r) /\ Len(slots) < MaxSlots
  <2>1. [gen |-> g, store |-> made + 1] \in SlotTypeOK
    BY <1>2, <1>3 DEF SlotTypeOK
  <2>2. QED
    BY <1>3, <2>1
<1>7. /\ slots' \in Seq(SlotTypeOK) /\ Len(slots') <= MaxSlots
      /\ \A k \in DOMAIN slots' : slots'[k] = r \/ (k \in DOMAIN slots /\ slots'[k] = slots[k])
  <2>1. CASE slots' = [slots EXCEPT ![i] = r] /\ i \in DOMAIN slots
    <3>1. slots' \in Seq(SlotTypeOK) /\ DOMAIN slots' = DOMAIN slots
          /\ slots'[i] = r /\ \A k \in DOMAIN slots : k # i => slots'[k] = slots[k]
      BY <1>2, <2>1, UpdateFacts
    <3>2. Len(slots') = Len(slots)
      BY <1>2, <2>1
    <3>3. QED
      BY <1>2, <3>1, <3>2
  <2>2. CASE slots' = Append(slots, r) /\ Len(slots) < MaxSlots
    <3>1. /\ slots' \in Seq(SlotTypeOK) /\ Len(slots') = Len(slots) + 1
          /\ DOMAIN slots = 1 .. Len(slots) /\ DOMAIN slots' = 1 .. Len(slots) + 1
          /\ slots'[Len(slots) + 1] = r /\ \A k \in 1 .. Len(slots) : slots'[k] = slots[k]
      BY <1>2, <2>2, AppendFacts
    <3>2. Len(slots') <= MaxSlots
      BY <1>2, <2>2, <3>1
    <3>3. \A k \in 1 .. Len(slots) + 1 : k = Len(slots) + 1 \/ k \in 1 .. Len(slots)
      BY <1>2
    <3>4. QED
      BY <3>1, <3>2, <3>3
  <2>3. QED
    BY <1>6, <2>1, <2>2
<1>8. r.store \in 1 .. made' /\ 1 .. made \subseteq 1 .. made'
  BY <1>2, <1>6
<1>9. StoresMade'
  BY <1>7, <1>8 DEF TypeInv, StoresMade
<1>10. UNCHANGED <<lock, hooks, pc, job>>
  BY DEF StoreNew, Locked
<1>11. TypeOK'
  BY <1>2, <1>5, <1>7, <1>10 DEF TypeInv, TypeOK, SlotTypeOK
<1>12. \A u \in Thread : RunningJob(pc[u], job[u])'
  BY <1>8, <1>10 DEF TypeInv, RunningJob
<1>13. QED
  BY <1>9, <1>11, <1>12 DEF TypeInv

LEMMA StepTypes ==
  ASSUME TypeInv, NEW t \in Thread, Step(t)
  PROVE  TypeInv'
<1>1. /\ slots \in Seq(SlotTypeOK) /\ Len(slots) <= MaxSlots /\ StoresMade
      /\ tokens \in [1 .. made -> Token] /\ RunningJob(pc[t], job[t])
      /\ pc \in [Thread -> CallPC] /\ job \in [Thread -> {NoJob} \cup Job]
      /\ "idle" \in CallPC /\ RunningJob("idle", NoJob)
      /\ job = [job EXCEPT ![t] = job[t]]
  BY DEF TypeInv, TypeOK, SlotTypeOK, CallPC, RunningJob
<1>2. /\ UNCHANGED <<lock, made, issued>> /\ hooks' \in {hooks, t, None}
      /\ pc[t] # "idle" => job[t] \in Job
  BY <1>1 DEF Step, Clone, SetValue, ReadToken, SetGuest, RunHook, HookReturns, HookRegisters,
       FindSlot, TakeHooks, Install, Drop, Locked, RunningJob
<1>3. ASSUME NEW from, Return(t, from), UNCHANGED <<slots, tokens>>
      PROVE  TypeInv'
  BY <1>1, <1>2, <1>3, CallTypes DEF Return, Go, StoresMade
<1>4. CASE Clone(t)
  <2>1. CASE Resolve(job[t].h) = None
    BY <1>3, <1>4, <2>1 DEF Clone
  <2>2. CASE Resolve(job[t].h) # None
    <3> DEFINE j == [job[t] EXCEPT !.store = Resolve(job[t].h)]
    <3>1. /\ pc[t] = "clone" /\ pc' = [pc EXCEPT ![t] = "run"] /\ job' = [job EXCEPT ![t] = j]
          /\ UNCHANGED <<slots, tokens>>
      BY <1>1, <1>4, <2>2 DEF Clone, Go
    <3>2. Resolve(job[t].h) \in 1 .. made /\ Resolve(job[t].h) \in StoreId
      BY <1>1, <2>2, ResolveMade DEF TypeInv, TypeOK, StoreId
    <3>3. j \in Job /\ j.store = Resolve(job[t].h) /\ j.op = job[t].op /\ j.tok = job[t].tok
      BY <1>2, <3>1, <3>2 DEF Job
    <3>4. RunningJob("run", j)
      BY <1>1, <3>1, <3>2, <3>3 DEF RunningJob
    <3>5. QED
      BY <1>1, <1>2, <3>1, <3>4, CallTypes DEF CallPC, StoresMade
  <2>3. QED
    BY <2>1, <2>2
<1>5. CASE SetValue(t) \/ SetGuest(t)
  <2>1. PICK from \in {"run", "write"} : Return(t, from)
    BY <1>5 DEF SetValue, SetGuest
  <2>2. job[t].tok \in Token /\ tokens' = [tokens EXCEPT ![job[t].store] = job[t].tok] /\ slots' = slots
    BY <1>1, <1>5 DEF SetValue, SetGuest, Return, Go, RunningJob
  <2>3. tokens' \in [1 .. made -> Token]
    BY <1>1, <2>2
  <2>4. QED
    BY <1>1, <1>2, <2>1, <2>2, <2>3, CallTypes DEF Return, Go, StoresMade
<1>6. CASE ReadToken(t)
  <2> DEFINE j == [job[t] EXCEPT !.tok = tokens[job[t].store]]
  <2>1. /\ pc[t] = "run" /\ pc' = [pc EXCEPT ![t] = "write"] /\ job' = [job EXCEPT ![t] = j]
        /\ UNCHANGED <<slots, tokens>>
    BY <1>1, <1>6 DEF ReadToken, Go
  <2>2. job[t].store \in 1 .. made /\ tokens[job[t].store] \in Token
    BY <1>1, <2>1 DEF RunningJob
  <2>3. j \in Job /\ j.store = job[t].store /\ j.tok \in Token
    BY <1>2, <2>1, <2>2 DEF Job
  <2>4. RunningJob("write", j)
    BY <2>2, <2>3 DEF RunningJob
  <2>5. QED
    BY <1>1, <1>2, <2>1, <2>4, CallTypes DEF CallPC, StoresMade
<1>7. CASE RunHook(t)
  <2>1. pc[t] = "run" /\ pc' = [pc EXCEPT ![t] = "hook"] /\ UNCHANGED <<slots, tokens, job>>
    BY <1>7 DEF RunHook, Go
  <2>2. RunningJob("hook", job[t])
    BY <1>1, <2>1 DEF RunningJob
  <2>3. QED
    BY <1>1, <1>2, <2>1, <2>2, CallTypes DEF CallPC, StoresMade
<1>8. CASE HookReturns(t) \/ Install(t)
  BY <1>3, <1>8 DEF HookReturns, Install
<1>moves. ASSUME NEW from \in {"clone", "hook", "hooks"}, NEW to \in {"hooks", "enter", "drop"},
                 Go(t, from, to), UNCHANGED <<slots, tokens, job>>
          PROVE  TypeInv'
  <2>1. pc[t] = from /\ pc' = [pc EXCEPT ![t] = to]
    BY <1>moves DEF Go
  <2>2. RunningJob(to, job[t])
    BY <1>1, <2>1 DEF RunningJob
  <2>3. QED
    <3>1. to \in CallPC /\ job' = [job EXCEPT ![t] = job[t]] /\ StoresMade'
      BY <1>1, <1>2, <1>moves DEF CallPC, StoresMade
    <3>2. slots' = slots /\ tokens' = tokens
      BY <1>moves
    <3>3. QED
      BY <1>1, <1>2, <2>1, <2>2, <3>1, <3>2, CallTypes
<1>9. CASE FindSlot(t)
  <2>1. CASE Resolve(job[t].h) = None
    BY <1>3, <1>9, <2>1 DEF FindSlot
  <2>2. CASE Resolve(job[t].h) # None
    BY <1>9, <1>moves, <2>2 DEF FindSlot
  <2>3. QED
    BY <2>1, <2>2
<1>10. CASE Drop(t)
  <2>1. Return(t, "drop") /\ tokens' = tokens
    BY <1>10 DEF Drop
  <2>2. CASE slots' = slots
    BY <1>3, <2>1, <2>2
  <2>3. CASE /\ Resolve(job[t].h) # None
             /\ slots' = [slots EXCEPT ![job[t].h.idx].store = None]
    <3>1. job[t].h.idx \in DOMAIN slots
      BY <2>3 DEF Resolve
    <3>2. PICK k \in DOMAIN slots : slots' = [slots EXCEPT ![k].store = None]
      BY <2>3, <3>1
    <3>3. slots[k] \in SlotTypeOK
      BY <1>1, <3>2, ElementFacts
    <3>4. PICK r \in SlotTypeOK : r.store = None /\ slots' = [slots EXCEPT ![k] = r]
      BY <3>2, <3>3 DEF SlotTypeOK
    <3>5. /\ slots' \in Seq(SlotTypeOK) /\ Len(slots') <= MaxSlots
          /\ \A m \in DOMAIN slots' : slots'[m] = r \/ (m \in DOMAIN slots /\ slots'[m] = slots[m])
      <4>1. slots' \in Seq(SlotTypeOK) /\ DOMAIN slots' = DOMAIN slots
            /\ slots'[k] = r /\ \A m \in DOMAIN slots : m # k => slots'[m] = slots[m]
        <5>1. slots \in Seq(SlotTypeOK) /\ k \in DOMAIN slots
          BY <1>1
        <5>2. QED
          BY <3>4, <5>1, UpdateFacts, Zenon
      <4>2. Len(slots') = Len(slots)
        BY <1>1, <3>4
      <4>3. QED
        BY <1>1, <4>1, <4>2
    <3>6. StoresMade'
      BY <1>1, <1>2, <3>4, <3>5 DEF StoresMade
    <3>7. QED
      BY <1>1, <1>2, <2>1, <3>5, <3>6, CallTypes DEF Return, Go
  <2>4. QED
    BY <1>10, <2>2, <2>3 DEF Drop
<1>11. CASE HookRegisters(t) \/ TakeHooks(t)
  BY <1>moves, <1>11 DEF HookRegisters, TakeHooks
<1>12. QED
  BY <1>4, <1>5, <1>6, <1>7, <1>8, <1>9, <1>10, <1>11 DEF Step

LEMMA NextTypes == TypeInv /\ [Next]_vars => TypeInv'
<1>1. SUFFICES ASSUME TypeInv, [Next]_vars PROVE TypeInv'
  OBVIOUS
<1>2. ASSUME NEW t \in Thread, NEW op \in Op, NEW s \in 1 .. made, NEW k \in Token,
             Call(t, op, s, k)
      PROVE  TypeInv'
  <2> DEFINE j == [op |-> op, h |-> issued[s], store |-> None,
                   tok |-> IF op = "set_value" THEN k ELSE None]
  <2>1. /\ pc' = [pc EXCEPT ![t] = "clone"] /\ job' = [job EXCEPT ![t] = j]
        /\ UNCHANGED <<slots, lock, hooks, made, issued, tokens>>
    BY <1>2 DEF Call, Go
  <2>2. issued[s] \in Handle
    BY <1>1 DEF TypeInv, TypeOK
  <2>3. j \in Job /\ (j.op = "set_value" => j.tok \in Token)
    BY <2>2 DEF Job
  <2>4. RunningJob("clone", j)
    BY <2>3 DEF RunningJob
  <2>5. slots' \in Seq(SlotTypeOK) /\ Len(slots') <= MaxSlots /\ StoresMade' /\ tokens' \in [1 .. made -> Token]
    BY <1>1, <2>1 DEF TypeInv, TypeOK, SlotTypeOK, StoresMade
  <2>6. QED
    BY <1>1, <2>1, <2>4, <2>5, CallTypes DEF CallPC
<1>3. CASE UNCHANGED vars
  BY <1>1, <1>3 DEF vars, TypeInv, TypeOK, StoresMade, RunningJob
<1>4. QED
  BY <1>1, <1>2, <1>3, NewStoreTypes, StepTypes DEF Next

(* The table never grows past its slots, a call that runs works with a     *)
(* store and a token there are, and a handle names its store or nothing    *)
(* (with_store, ksub_store_new).                                           *)
THEOREM TableIsSound == ASSUME NoWrap PROVE Spec => []TableSound
<1>1. TypeInv => TypeOK
  BY DEF TypeInv
<1>2. Spec => []TypeOK
  BY <1>1, TypeInit, NextTypes, PTL DEF Spec
<1>3. QED
  BY <1>2, NoABA, PTL DEF TableSound

=============================================================================
