---------------------------- MODULE WorldProofs ----------------------------
(***************************************************************************)
(* Proofs about WorldLog, for any documents, contents and bounds.          *)
(*                                                                         *)
(* Part 1 is what a replay of the journal computes, part 2 the invariant   *)
(* every failure keeps, part 3 the one that holds while no write fails     *)
(* and `sync` finds no unsaved change, and what follows from it: every     *)
(* prefix of the journal a power cut can leave is closed and promised, so  *)
(* that snapshot, journal and recovery implement DurableWorld.             *)
(***************************************************************************)
EXTENDS WorldLog, WellFoundedInduction, SequenceTheorems, TLAPS

-----------------------------------------------------------------------------
(* Documents and worlds *)

Worlds == {w \in [Doc -> UNION {Contents(d) : d \in Doc}] :
             \A d \in Doc : w[d] \in Contents(d)}

(* A world the Store may be in: closed, and its counters past its atoms.   *)
Good(w) ==
  /\ w \in Worlds
  /\ Closed(w)
  /\ \A a \in Present(w) : a < w[Native]

(* A document is of one kind only. *)
LEMMA Kinds ==
  /\ \A d \in AtomId : d \in Int /\ d \in Doc /\ d # Native /\ d \notin Bubble /\ d \in Guests
  /\ \A d \in Bubble : d \in Doc /\ d # Native /\ d \notin AtomId /\ d \in Guests
  /\ Native \in Doc /\ Native \notin Guests
  /\ \A d \in Doc : d \in Guests \/ d = Native
  /\ \A d \in AtomId : Contents(d) = Version \cup {Gone}
  /\ \A d \in Bubble : Contents(d) = AtomId \cup {Unbound, Gone}
  /\ Contents(Native) = 0 .. MaxAtomId + 1
  /\ AtomId = 0 .. MaxAtomId /\ MaxAtomId \in Nat
  /\ Gone \notin AtomId /\ Gone # Unbound /\ Gone \notin Version /\ Unbound \notin AtomId
BY WorldAssumption DEF AtomId, Doc, Guests, Contents

LEMMA WorldIs ==
  ASSUME NEW w PROVE w \in Worlds <=> w = [d \in Doc |-> w[d]] /\ \A d \in Doc : w[d] \in Contents(d)
BY DEF Worlds

LEMMA WorldTyped == ASSUME NEW w \in Worlds PROVE IsWorld(w)
BY DEF Worlds, IsWorld

LEMMA MarksApart ==
  NoFile \notin Worlds /\ Unreadable \notin Worlds /\ NoFile # Unreadable /\ Torn \notin Frame
BY MarksAssumption DEF Worlds

LEMMA EmptyGood == Good(Empty)
<1> USE Kinds
<1>1. Empty \in Worlds
  <2>1. ASSUME NEW d \in Doc PROVE Empty[d] \in Contents(d)
    <3>1. CASE d = Native
      BY <3>1 DEF Empty
    <3>2. CASE d # Native
      BY <3>2 DEF Empty, Guests
    <3> QED BY <3>1, <3>2
  <2>2. Empty = [d \in Doc |-> Empty[d]]
    BY DEF Empty
  <2> QED BY <2>1, <2>2, WorldIs, Zenon
<1>2. Present(Empty) = {} /\ \A b \in Bubble : Empty[b] \notin AtomId
  BY DEF Present, Empty
<1> QED BY <1>1, <1>2 DEF Good, Closed

LEMMA Least ==
  ASSUME NEW S \in SUBSET Nat, S # {} PROVE \E m \in S : \A x \in S : m <= x
<1>1. \E m \in S : \A x \in S : <<x, m>> \notin OpToRel(<, Nat)
  BY NatLessThanWellFounded, WFMin, Zenon
<1>2. \A x, m \in Nat : <<x, m>> \in OpToRel(<, Nat) <=> x < m
  BY Zenon DEF OpToRel
<1>3. \E m \in S : \A x \in S : ~ x < m
  BY <1>1, <1>2, Zenon
<1> QED BY <1>3

LEMMA Greatest ==
  ASSUME NEW n \in Nat, NEW S \in SUBSET (0 .. n), S # {}
  PROVE  \E m \in S : \A x \in S : x <= m
<1> DEFINE T == {n - x : x \in S}
<1>1. T \in SUBSET Nat /\ T # {}
  <2>1. PICK x : x \in S
    OBVIOUS
  <2>2. n - x \in T
    BY <2>1
  <2>3. \A y \in S : n - y \in Nat
    OBVIOUS
  <2> QED BY <2>2, <2>3
<1> HIDE DEF T
<1>2. PICK t \in T : \A y \in T : t <= y
  BY <1>1, Least
<1>3. PICK m \in S : t = n - m
  BY <1>2 DEF T
<1>4. ASSUME NEW x \in S PROVE x <= m
  <2>1. n - x \in T
    BY DEF T
  <2> QED BY <1>2, <1>3, <2>1
<1> QED BY <1>4

-----------------------------------------------------------------------------
(* What a replay computes *)

(* A frame whose content is one its document may have. *)
Sound    == {f \in Frame : f.val \in Contents(f.id)}
Journals == Seq(Sound \cup {Torn})

Whole(s, n) == \A i \in 1 .. n : s[i] # Torn

(* The first n frames of s put over k in order. *)
UpTo(k, s, n) ==
  [d \in Doc |->
     LET at == {i \in 1 .. n : s[i].id = d}
     IN IF at = {} THEN k[d]
        ELSE s[CHOOSE i \in at : \A j \in at : j <= i].val]

LEMMA SoundFrame ==
  ASSUME NEW s \in Journals, NEW n \in 0 .. Len(s), Whole(s, n), NEW i \in 1 .. n
  PROVE  s[i] \in Sound /\ s[i].id \in Doc /\ s[i].val \in Contents(s[i].id)
BY DEF Journals, Whole, Sound, Frame

LEMMA UpToAt ==
  ASSUME NEW k, NEW s, NEW n \in Nat, NEW d \in Doc
  PROVE  \/ /\ \A i \in 1 .. n : s[i].id # d
            /\ UpTo(k, s, n)[d] = k[d]
         \/ \E i \in 1 .. n :
              /\ s[i].id = d
              /\ \A j \in 1 .. n : s[j].id = d => j <= i
              /\ UpTo(k, s, n)[d] = s[i].val
<1> DEFINE at == {i \in 1 .. n : s[i].id = d}
<1>1. UpTo(k, s, n)[d] = IF at = {} THEN k[d]
                         ELSE s[CHOOSE i \in at : \A j \in at : j <= i].val
  BY DEF UpTo
<1>2. CASE at = {}
  BY <1>1, <1>2
<1>3. CASE at # {}
  <2>1. at \in SUBSET (0 .. n)
    OBVIOUS
  <2>2. \E i \in at : \A j \in at : j <= i
    BY <1>3, <2>1, Greatest
  <2> QED BY <1>1, <1>3, <2>2
<1> QED BY <1>2, <1>3

LEMMA UpToWorld ==
  ASSUME NEW k \in Worlds, NEW s \in Journals, NEW n \in 0 .. Len(s), Whole(s, n)
  PROVE  UpTo(k, s, n) \in Worlds
<1>1. ASSUME NEW d \in Doc PROVE UpTo(k, s, n)[d] \in Contents(d)
  <2>1. n \in Nat
    BY DEF Journals
  <2>2. k[d] \in Contents(d)
    BY DEF Worlds
  <2> QED BY <2>1, <2>2, UpToAt, SoundFrame
<1>2. UpTo(k, s, n) = [d \in Doc |-> UpTo(k, s, n)[d]]
  BY DEF UpTo
<1> QED BY <1>1, <1>2, WorldIs, Zenon

LEMMA UpToNone ==
  ASSUME NEW k \in Worlds, NEW s PROVE UpTo(k, s, 0) = k
<1>1. \A d \in Doc : UpTo(k, s, 0)[d] = k[d]
  BY UpToAt
<1>2. UpTo(k, s, 0) = [d \in Doc |-> UpTo(k, s, 0)[d]]
  BY DEF UpTo
<1>3. k = [d \in Doc |-> k[d]]
  BY WorldIs
<1> QED BY <1>1, <1>2, <1>3

LEMMA UpToPrefix ==
  ASSUME NEW k, NEW s, NEW t, NEW n \in Nat, \A i \in 1 .. n : s[i] = t[i]
  PROVE  UpTo(k, s, n) = UpTo(k, t, n)
<1>1. ASSUME NEW d \in Doc
      PROVE  /\ {i \in 1 .. n : s[i].id = d} = {i \in 1 .. n : t[i].id = d}
             /\ UpTo(k, s, n)[d] = UpTo(k, t, n)[d]
  <2>1. {i \in 1 .. n : s[i].id = d} = {i \in 1 .. n : t[i].id = d}
    OBVIOUS
  <2>2. PICK x : UpTo(k, s, n)[d] = x
    OBVIOUS
  <2> QED BY <2>1, UpToAt
<1>2. /\ UpTo(k, s, n) = [d \in Doc |-> UpTo(k, s, n)[d]]
      /\ UpTo(k, t, n) = [d \in Doc |-> UpTo(k, t, n)[d]]
  BY DEF UpTo
<1> QED BY <1>1, <1>2

LEMMA UpToNext ==
  ASSUME NEW k, NEW s, NEW n \in Nat, NEW m, m = n + 1, NEW d \in Doc
  PROVE  UpTo(k, s, m)[d] = IF s[m].id = d THEN s[m].val ELSE UpTo(k, s, n)[d]
<1>1. m \in Nat /\ m \in 1 .. m
  OBVIOUS
<1>2. CASE s[m].id = d
  <2>1. PICK i \in 1 .. m :
              /\ s[i].id = d
              /\ \A j \in 1 .. m : s[j].id = d => j <= i
              /\ UpTo(k, s, m)[d] = s[i].val
    BY <1>1, <1>2, UpToAt
  <2>2. i = m
    BY <1>1, <1>2, <2>1
  <2> QED BY <1>2, <2>1, <2>2
<1>3. CASE s[m].id # d
  <2>1. ASSUME NEW i \in 1 .. m, s[i].id = d PROVE i \in 1 .. n
    BY <1>3, <2>1
  <2>2. CASE \A i \in 1 .. n : s[i].id # d
    <3>1. \A i \in 1 .. m : s[i].id # d
      BY <2>1, <2>2
    <3>2. UpTo(k, s, n)[d] = k[d] /\ UpTo(k, s, m)[d] = k[d]
      BY <1>1, <2>2, <3>1, UpToAt
    <3> QED BY <1>3, <3>2
  <2>3. CASE \E i \in 1 .. n : s[i].id = d
    <3>1. PICK i \in 1 .. n :
              /\ s[i].id = d
              /\ \A j \in 1 .. n : s[j].id = d => j <= i
              /\ UpTo(k, s, n)[d] = s[i].val
      BY <2>3, UpToAt
    <3>2. i \in 1 .. m
      OBVIOUS
    <3>3. PICK h \in 1 .. m :
              /\ s[h].id = d
              /\ \A j \in 1 .. m : s[j].id = d => j <= h
              /\ UpTo(k, s, m)[d] = s[h].val
      BY <1>1, <3>1, <3>2, UpToAt
    <3>4. h \in 1 .. n /\ i <= h /\ h <= i
      BY <2>1, <3>1, <3>2, <3>3
    <3>5. h = i
      BY <3>4
    <3> QED BY <1>3, <3>1, <3>3, <3>5
  <2> QED BY <2>2, <2>3
<1> QED BY <1>2, <1>3

(* Frames that say of a document what k says too may be put over k as well *)
(* as over what k replaces.                                                *)
LEMMA UpToOver ==
  ASSUME NEW k, NEW l, NEW s, NEW n \in Nat, NEW d \in Doc, UpTo(k, s, n)[d] = l[d]
  PROVE  UpTo(l, s, n)[d] = l[d]
<1>1. CASE \A i \in 1 .. n : s[i].id # d
  BY <1>1, UpToAt
<1>2. CASE \E i \in 1 .. n : s[i].id = d
  <2>1. PICK i \in 1 .. n :
            /\ s[i].id = d
            /\ \A j \in 1 .. n : s[j].id = d => j <= i
            /\ UpTo(k, s, n)[d] = s[i].val
    BY <1>2, UpToAt
  <2>2. PICK h \in 1 .. n :
            /\ s[h].id = d
            /\ \A j \in 1 .. n : s[j].id = d => j <= h
            /\ UpTo(l, s, n)[d] = s[h].val
    BY <1>2, UpToAt
  <2>3. h <= i /\ i <= h
    BY <2>1, <2>2
  <2>4. h = i
    BY <2>3
  <2> QED BY <2>1, <2>2, <2>4
<1> QED BY <1>1, <1>2

-----------------------------------------------------------------------------
(* What a load makes of it *)

LEMMA NextAtom ==
  ASSUME NEW w \in Worlds
  PROVE  \E n \in {w[Native]} \cup {a + 1 : a \in Present(w)} :
            w[Native] <= n /\ \A a \in Present(w) : a < n
<1> DEFINE S == {w[Native]} \cup {a + 1 : a \in Present(w)}
<1>1. Present(w) \subseteq 0 .. MaxAtomId /\ MaxAtomId + 1 \in Nat
  BY Kinds DEF Present
<1>2. w[Native] \in 0 .. MaxAtomId + 1
  BY Kinds DEF Worlds
<1>3. S \in SUBSET (0 .. MaxAtomId + 1) /\ S # {}
  <2>1. ASSUME NEW x \in S PROVE x \in 0 .. MaxAtomId + 1
    <3>1. CASE x = w[Native]
      BY <1>2, <3>1
    <3>2. CASE \E a \in Present(w) : x = a + 1
      <4>1. PICK a \in Present(w) : x = a + 1
        BY <3>2
      <4>2. a \in 0 .. MaxAtomId /\ MaxAtomId \in Nat
        BY <1>1, Kinds
      <4> QED BY <4>1, <4>2
    <3> QED BY <2>1, <3>1, <3>2
  <2> QED BY <2>1
<1> HIDE DEF S
<1>4. PICK n \in S : \A x \in S : x <= n
  BY <1>1, <1>3, Greatest
<1>5. w[Native] \in S /\ \A a \in Present(w) : a + 1 \in S
  BY DEF S
<1>6. w[Native] <= n /\ \A a \in Present(w) : a < n
  <2>1. ASSUME NEW a \in Present(w) PROVE a < n
    <3>1. a + 1 <= n /\ a \in Int /\ n \in Int
      BY <1>1, <1>3, <1>4, <1>5
    <3> QED BY <3>1
  <2> QED BY <1>4, <1>5, <2>1
<1> QED BY <1>4, <1>6 DEF S

(* Whatever was read, what a load installs is a world the Store may be in; *)
(* of a closed world it keeps what the guests wrote, of a good one all.    *)
LEMMA Installs ==
  ASSUME NEW w \in Worlds
  PROVE  /\ Good(Installed(w))
         /\ Closed(w) => \A d \in Guests : Installed(w)[d] = w[d]
         /\ Good(w) => Installed(w) = w
<1> DEFINE inst == Installed(w)
<1>1. \A d \in AtomId : inst[d] = w[d]
  BY Kinds DEF Installed
<1>2. \A b \in Bubble : inst[b] = IF w[b] \in AtomId \ Present(w) THEN Unbound ELSE w[b]
  BY Kinds DEF Installed
<1>3. /\ inst[Native] \in {w[Native]} \cup {a + 1 : a \in Present(w)}
      /\ w[Native] <= inst[Native] /\ \A a \in Present(w) : a < inst[Native]
  <2>1. inst[Native] = CHOOSE n \in {w[Native]} \cup {a + 1 : a \in Present(w)} :
                         w[Native] <= n /\ \A a \in Present(w) : a < n
    BY Kinds DEF Installed
  <2> QED BY <2>1, NextAtom
<1>4. inst = [d \in Doc |-> inst[d]]
  BY DEF Installed
<1> HIDE DEF inst
<1>5. \A d \in Doc : w[d] \in Contents(d)
  BY DEF Worlds
<1>6. inst[Native] \in 0 .. MaxAtomId + 1
  <2>1. CASE inst[Native] = w[Native]
    BY <1>5, <2>1, Kinds
  <2>2. CASE \E a \in Present(w) : inst[Native] = a + 1
    BY <2>2, Kinds DEF Present
  <2> QED BY <1>3, <2>1, <2>2
<1>7. inst \in Worlds
  <2>1. ASSUME NEW d \in Doc PROVE inst[d] \in Contents(d)
    <3>1. CASE d \in AtomId
      BY <1>1, <1>5, <3>1
    <3>2. CASE d \in Bubble
      BY <1>2, <1>5, <3>2, Kinds
    <3>3. CASE d = Native
      BY <1>6, <3>3, Kinds
    <3> QED BY <3>1, <3>2, <3>3 DEF Doc
  <2> QED BY <1>4, <2>1, WorldIs, Zenon
<1>8. Present(inst) = Present(w)
  BY <1>1 DEF Present
<1>9. Closed(inst)
  BY <1>2, <1>8, Kinds DEF Closed
<1>10. Closed(w) => \A d \in Guests : inst[d] = w[d]
  BY <1>1, <1>2 DEF Closed, Guests
<1>11. ASSUME Good(w) PROVE inst = w
  <2>1. inst[Native] <= w[Native]
    <3>1. CASE \E a \in Present(w) : inst[Native] = a + 1
      <4>1. PICK a \in Present(w) : inst[Native] = a + 1
        BY <3>1
      <4>2. a < w[Native] /\ a \in Int /\ w[Native] \in Int
        BY <1>5, <1>11, Kinds DEF Good, Present
      <4> QED BY <4>1, <4>2
    <3>2. CASE inst[Native] = w[Native]
      BY <1>5, <3>2, Kinds
    <3> QED BY <1>3, <3>1, <3>2
  <2>2. inst[Native] = w[Native]
    BY <1>3, <1>5, <1>6, <2>1, Kinds
  <2>3. \A d \in Doc : inst[d] = w[d]
    BY <1>10, <1>11, <2>2, Kinds DEF Good
  <2>4. w = [d \in Doc |-> w[d]]
    BY WorldIs
  <2> QED BY <1>4, <2>3, <2>4
<1>12. Good(inst)
  BY <1>3, <1>7, <1>8, <1>9 DEF Good
<1> QED BY <1>10, <1>11, <1>12 DEF inst

(* The part of a journal that recover_with keeps: one length, and there is *)
(* one; a replay is what that part says.                                   *)
JournalRead ==
  kafs \in Journals =>
    /\ IntactLen \in 0 .. Len(kafs)
    /\ Whole(kafs, IntactLen)
    /\ IntactLen = Len(kafs) \/ kafs[IntactLen + 1] = Torn
    /\ \A n \in 0 .. Len(kafs) :
         Whole(kafs, n) /\ (n = Len(kafs) \/ kafs[n + 1] = Torn) => n = IntactLen
    /\ Replayed = UpTo(kafd, kafs, IntactLen)

LEMMA JournalReads == JournalRead
<1> SUFFICES ASSUME kafs \in Journals PROVE JournalRead
  BY DEF JournalRead
<1> DEFINE P(n) == Whole(kafs, n) /\ (n = Len(kafs) \/ kafs[n + 1] = Torn)
           ends == {n \in 0 .. Len(kafs) : n = Len(kafs) \/ kafs[n + 1] = Torn}
<1>1. Len(kafs) \in Nat
  BY DEF Journals
<1>2. ends \in SUBSET Nat /\ ends # {}
  <2>1. Len(kafs) \in ends
    BY <1>1
  <2> QED BY <2>1
<1>3. PICK m \in ends : \A n \in ends : m <= n
  BY <1>2, Least
<1>4. m \in 0 .. Len(kafs) /\ P(m)
  <2>1. ASSUME NEW i \in 1 .. m, kafs[i] = Torn PROVE FALSE
    <3>1. i - 1 \in 0 .. Len(kafs) /\ (i - 1) + 1 = i
      BY <1>1, <1>3
    <3>2. i - 1 \in ends
      BY <2>1, <3>1
    <3>3. m <= i - 1
      BY <1>3, <3>2
    <3> QED BY <1>1, <1>3, <3>3
  <2> QED BY <1>3, <2>1 DEF Whole
<1>5. ASSUME NEW n \in 0 .. Len(kafs), NEW k \in 0 .. Len(kafs), P(n), P(k)
      PROVE  n = k
  <2>1. ASSUME NEW x \in 0 .. Len(kafs), NEW y \in 0 .. Len(kafs), P(x), P(y), x < y
        PROVE  FALSE
    <3>1. x + 1 \in 1 .. y /\ kafs[x + 1] = Torn
      BY <1>1, <2>1
    <3> QED BY <2>1, <3>1 DEF Whole
  <2>2. ~ n < k /\ ~ k < n
    BY <1>5, <2>1
  <2> QED BY <1>1, <2>2
<1>6. IntactLen = m
  <2>1. IntactLen = CHOOSE n \in 0 .. Len(kafs) : P(n)
    BY DEF IntactLen, Intact, Whole
  <2>2. IntactLen \in 0 .. Len(kafs) /\ P(IntactLen)
    BY <1>4, <2>1
  <2> QED BY <1>4, <1>5, <2>2
<1>7. Replayed = UpTo(kafd, kafs, m)
  <2>1. \A i \in DOMAIN kafs : Intact(i) <=> i \in 1 .. m
    <3>1. DOMAIN kafs = 1 .. Len(kafs)
      BY DEF Journals
    <3>2. ASSUME NEW i \in 1 .. m PROVE Intact(i)
      BY <1>1, <1>4 DEF Intact, Whole
    <3>3. ASSUME NEW i \in 1 .. Len(kafs), Intact(i), ~ i <= m PROVE FALSE
      <4>1. m + 1 \in 1 .. i /\ kafs[m + 1] = Torn
        BY <1>1, <1>4, <3>3
      <4> QED BY <3>3, <4>1 DEF Intact
    <3>4. ASSUME NEW i \in 1 .. Len(kafs) PROVE Intact(i) <=> i \in 1 .. m
      <4>1. CASE i <= m
        <5>1. i \in 1 .. m
          BY <1>1, <1>4, <4>1
        <5> QED BY <3>2, <5>1
      <4>2. CASE ~ i <= m
        <5>1. ~ Intact(i)
          BY <3>3, <4>2
        <5> QED BY <4>2, <5>1
      <4> QED BY <4>1, <4>2
    <3> QED BY <3>1, <3>4
  <2>2. 1 .. m \subseteq DOMAIN kafs
    BY <1>1, <1>4 DEF Journals
  <2>3. \A d \in Doc : {i \in DOMAIN kafs : Intact(i) /\ kafs[i].id = d}
                         = {i \in 1 .. m : kafs[i].id = d}
    BY <2>1, <2>2
  <2> DEFINE Says(at, d) ==
        IF at = {} THEN kafd[d] ELSE kafs[CHOOSE i \in at : \A j \in at : j <= i].val
  <2>4. \A d \in Doc :
          Replayed[d] = Says({i \in DOMAIN kafs : Intact(i) /\ kafs[i].id = d}, d)
    BY DEF Replayed
  <2>5. \A d \in Doc : UpTo(kafd, kafs, m)[d] = Says({i \in 1 .. m : kafs[i].id = d}, d)
    BY DEF UpTo
  <2> HIDE DEF Says
  <2>6. \A d \in Doc : Replayed[d] = UpTo(kafd, kafs, m)[d]
    BY <2>3, <2>4, <2>5
  <2>7. /\ Replayed = [d \in Doc |-> Replayed[d]]
        /\ UpTo(kafd, kafs, m) = [d \in Doc |-> UpTo(kafd, kafs, m)[d]]
    BY DEF Replayed, UpTo
  <2> QED BY <2>6, <2>7
<1> QED BY <1>4, <1>5, <1>6, <1>7 DEF JournalRead

LEMMA JournalReadsNext == JournalRead'
BY JournalReads, PTL

(* What a restart would load is a world the Store may be in, if the        *)
(* snapshot can be read.                                                   *)
Restorable ==
  kafs \in Journals /\ kafd \in {NoFile} \cup Worlds =>
    /\ Good(Recoverable)
    /\ kafd \in Worlds =>
         /\ UpTo(kafd, kafs, IntactLen) \in Worlds
         /\ Recoverable = Installed(UpTo(kafd, kafs, IntactLen))

LEMMA RestoreGood == Restorable
<1> SUFFICES ASSUME kafs \in Journals, kafd \in {NoFile} \cup Worlds PROVE Restorable
  BY DEF Restorable
<1>1. CASE kafd = NoFile
  BY <1>1, EmptyGood, MarksApart DEF Restorable, Recoverable
<1>2. CASE kafd \in Worlds
  <2>1. Replayed = UpTo(kafd, kafs, IntactLen)
    BY JournalReads DEF JournalRead
  <2>2. UpTo(kafd, kafs, IntactLen) \in Worlds
    BY <1>2, JournalReads, UpToWorld DEF JournalRead
  <2>3. Recoverable = Installed(UpTo(kafd, kafs, IntactLen))
    BY <1>2, <2>1, MarksApart DEF Recoverable
  <2> QED BY <2>2, <2>3, Installs DEF Restorable
<1> QED BY <1>1, <1>2

LEMMA RestoreGoodNext == Restorable'
BY RestoreGood, PTL

-----------------------------------------------------------------------------
(* Journals that grow by a frame or are cut *)

LEMMA JournalCut ==
  ASSUME NEW s \in Journals, NEW n \in 0 .. Len(s)
  PROVE  /\ SubSeq(s, 1, n) \in Journals
         /\ Len(SubSeq(s, 1, n)) = n
         /\ \A i \in 1 .. n : SubSeq(s, 1, n)[i] = s[i]
<1>1. s \in Seq(Sound \cup {Torn}) /\ Len(s) \in Nat
  BY DEF Journals
<1>2. SubSeq(s, 1, n) \in Seq(Sound \cup {Torn}) /\ Len(SubSeq(s, 1, n)) = n
  BY <1>1
<1>3. \A i \in 1 .. n : SubSeq(s, 1, n)[i] = s[i]
  BY <1>1
<1> QED BY <1>2, <1>3 DEF Journals

LEMMA JournalGrown ==
  ASSUME NEW s \in Journals, NEW f \in Sound \cup {Torn}
  PROVE  /\ Append(s, f) \in Journals
         /\ Len(s) \in Nat
         /\ Len(Append(s, f)) = Len(s) + 1
         /\ Append(s, f)[Len(s) + 1] = f
         /\ \A i \in 1 .. Len(s) : Append(s, f)[i] = s[i]
<1>1. s \in Seq(Sound \cup {Torn}) /\ Len(s) \in Nat
  BY DEF Journals
<1>2. Append(s, f) \in Seq(Sound \cup {Torn})
  BY <1>1
<1> QED BY <1>1, <1>2 DEF Journals

(* A power cut: a prefix is left, then perhaps a torn frame.               *)
LEMMA JournalLost ==
  ASSUME NEW s \in Journals, NEW n \in 0 .. Len(s), NEW t,
         t = SubSeq(s, 1, n) \/ t = Append(SubSeq(s, 1, n), Torn)
  PROVE  /\ t \in Journals
         /\ Len(t) = n \/ (Len(t) = n + 1 /\ t[n + 1] = Torn)
         /\ \A i \in 1 .. n : t[i] = s[i]
<1> DEFINE r == SubSeq(s, 1, n)
<1>1. r \in Journals /\ Len(r) = n /\ \A i \in 1 .. n : r[i] = s[i]
  BY JournalCut
<1> HIDE DEF r
<1>2. CASE t = r
  BY <1>1, <1>2
<1>3. CASE t = Append(r, Torn)
  BY <1>1, <1>3, JournalGrown
<1> QED BY <1>2, <1>3 DEF r

-----------------------------------------------------------------------------
(* What every failure keeps *)

(* The Store, what the process believes to be on disk, and the snapshot it *)
(* saves are worlds the Store may be in.                                   *)
StoreInv == Good(mem) /\ Good(keys) /\ Good(target)

DiskInv ==
  /\ kafd \in {NoFile, Unreadable} \cup Worlds
  /\ kafs \in Journals
  /\ synced \in 0 .. Len(kafs)
  /\ \A d \in Doc : may[d] \subseteq Contents(d)

(* The Store does not change under a save, and a compact that has written  *)
(* the snapshot has written that Store; a world that could not be read     *)
(* stops every save of the process that found it, and nothing else does.   *)
SaveInv ==
  /\ pc \in {"down", "idle", "append", "check", "reset"}
  /\ opened \in BOOLEAN /\ full \in BOOLEAN /\ writable \in BOOLEAN
  /\ todo \subseteq Doc
  /\ pc = "down" => writable
  /\ pc \in {"append", "check", "reset"} => target = mem /\ writable
  /\ pc = "reset" => kafd = target
  /\ kafd = Unreadable => pc = "down" \/ (pc = "idle" /\ ~ writable)
  /\ ~ writable => kafd = Unreadable

BaseInv == StoreInv /\ DiskInv /\ SaveInv

LEMMA BaseInit == Init => BaseInv
<1> SUFFICES ASSUME Init PROVE BaseInv
  OBVIOUS
<1>1. StoreInv
  BY EmptyGood DEF Init, StoreInv
<1>2. DiskInv
  <2>1. <<>> \in Journals /\ Len(<<>>) = 0
    BY DEF Journals
  <2>2. \A d \in Doc : Empty[d] \in Contents(d)
    BY EmptyGood DEF Good, Worlds
  <2> QED BY <2>1, <2>2 DEF Init, DiskInv
<1>3. SaveInv
  BY MarksApart DEF Init, SaveInv
<1> QED BY <1>1, <1>2, <1>3 DEF BaseInv

(* Nothing a guest or the collector does to the Store leaves a binding to  *)
(* an atom that is gone, or an atom the counter would give out again.      *)
LEMMA StoreStaysGood == ASSUME Good(mem), StoreChanges PROVE Good(mem')
<1> USE Kinds
<1>1. mem \in Worlds /\ mem = [d \in Doc |-> mem[d]]
  BY WorldIs DEF Good
<1>2. /\ \A d \in Doc : mem[d] \in Contents(d)
      /\ mem[Native] \in 0 .. MaxAtomId + 1
      /\ \A a \in AtomId : mem[a] \in Version \cup {Gone}
      /\ \A b \in Bubble : mem[b] \in AtomId \cup {Unbound, Gone}
      /\ \A b \in Bubble : mem[b] \in AtomId => mem[mem[b]] # Gone
      /\ \A a \in AtomId : mem[a] # Gone => a < mem[Native]
  BY <1>1 DEF Worlds, Good, Closed, Present
<1>3. ASSUME mem' = [d \in Doc |-> mem'[d]],
             mem'[Native] \in 0 .. MaxAtomId + 1,
             \A a \in AtomId : mem'[a] \in Version \cup {Gone},
             \A b \in Bubble : mem'[b] \in AtomId \cup {Unbound, Gone},
             \A b \in Bubble : mem'[b] \in AtomId => mem'[mem'[b]] # Gone,
             \A a \in AtomId : mem'[a] # Gone => a < mem'[Native]
      PROVE  Good(mem')
  <2>1. \A d \in Doc : mem'[d] \in Contents(d)
    BY <1>3 DEF Guests
  <2>2. mem' \in Worlds
    BY <1>3, <2>1, WorldIs, Zenon
  <2> QED BY <1>3, <2>2 DEF Good, Closed, Present
<1>4. ASSUME NEW v \in Version, NewAtom(v) PROVE Good(mem')
  <2>1. /\ mem[Native] \in AtomId
        /\ mem' = [mem EXCEPT ![mem[Native]] = v, ![Native] = @ + 1]
    BY <1>4 DEF NewAtom
  <2>2. /\ mem' = [d \in Doc |-> mem'[d]]
        /\ mem'[Native] = mem[Native] + 1
        /\ mem'[mem[Native]] = v
        /\ \A d \in Guests : d # mem[Native] => mem'[d] = mem[d]
    <3>1. DOMAIN mem = Doc
      BY <1>1
    <3>2. PICK n \in AtomId : n = mem[Native]
      BY <2>1
    <3>3. n # Native /\ n \in Doc /\ Native \in Doc
      BY <3>2
    <3>4. mem' = [d \in Doc |-> IF d = Native THEN n + 1 ELSE IF d = n THEN v ELSE mem[d]]
      BY <2>1, <3>1, <3>2, <3>3
    <3> QED BY <3>2, <3>3, <3>4 DEF Guests
  <2>3. mem'[Native] \in 0 .. MaxAtomId + 1
    BY <2>1, <2>2
  <2>4. \A a \in AtomId : mem'[a] \in Version \cup {Gone}
    BY <1>2, <1>4, <2>2
  <2>5. \A b \in Bubble : mem'[b] = mem[b]
    BY <2>1, <2>2
  <2>6. \A b \in Bubble : mem'[b] \in AtomId => mem'[mem'[b]] # Gone
    BY <1>2, <1>4, <2>2, <2>5
  <2>7. \A a \in AtomId : mem'[a] # Gone => a < mem'[Native]
    <3>1. ASSUME NEW a \in AtomId, mem'[a] # Gone PROVE a <= mem[Native]
      <4>1. CASE a = mem[Native]
        BY <4>1
      <4>2. CASE a # mem[Native]
        BY <1>2, <2>2, <3>1, <4>2
      <4> QED BY <4>1, <4>2
    <3> QED BY <1>2, <2>2, <3>1
  <2> QED BY <1>2, <1>3, <2>2, <2>3, <2>4, <2>5, <2>6, <2>7
<1>5. ASSUME NEW a \in AtomId, NEW v \in Version, SetAtom(a, v) PROVE Good(mem')
  <2>1. mem[a] # Gone /\ mem' = [mem EXCEPT ![a] = v]
    BY <1>5 DEF SetAtom, Present
  <2>2. /\ mem' = [d \in Doc |-> mem'[d]] /\ mem'[a] = v
        /\ \A d \in Doc : d # a => mem'[d] = mem[d]
    BY <1>1, <2>1
  <2>3. \A b \in Bubble : mem'[b] \in AtomId => mem'[mem'[b]] # Gone
    BY <1>2, <1>5, <2>2
  <2> QED BY <1>2, <1>3, <1>5, <2>1, <2>2, <2>3
<1>6. ASSUME NEW a \in AtomId, DropAtom(a) PROVE Good(mem')
  <2>1. /\ mem' = [d \in Doc |-> mem'[d]] /\ mem'[a] = Gone
        /\ mem'[Native] = mem[Native]
        /\ \A e \in AtomId : e # a => mem'[e] = mem[e]
        /\ \A b \in Bubble : mem'[b] = IF mem[b] = a THEN Unbound ELSE mem[b]
    BY <1>6 DEF DropAtom
  <2> QED BY <1>2, <1>3, <2>1
<1>7. ASSUME NEW b \in Bubble, NewBubble(b) PROVE Good(mem')
  <2>1. /\ mem' = [d \in Doc |-> mem'[d]] /\ mem'[b] = Unbound
        /\ \A d \in Doc : d # b => mem'[d] = mem[d]
    BY <1>1, <1>7 DEF NewBubble
  <2> QED BY <1>2, <1>3, <2>1
<1>8. ASSUME NEW b \in Bubble, NEW x \in AtomId \cup {Unbound}, Rebind(b, x) PROVE Good(mem')
  <2>1. /\ mem' = [d \in Doc |-> mem'[d]] /\ mem'[b] = x
        /\ x \in AtomId => mem[x] # Gone
        /\ \A d \in Doc : d # b => mem'[d] = mem[d]
    BY <1>1, <1>8 DEF Rebind, Present
  <2> QED BY <1>2, <1>3, <2>1
<1> QED BY <1>4, <1>5, <1>6, <1>7, <1>8 DEF StoreChanges

LEMMA SettledTyped ==
  ASSUME NEW w, Good(w), Settled(w) PROVE \A d \in Doc : may'[d] \subseteq Contents(d)
BY DEF Settled, Good, Worlds

LEMMA AttemptTyped ==
  ASSUME BaseInv, Attempt PROVE \A d \in Doc : may'[d] \subseteq Contents(d)
<1>1. \A d \in Doc : mem[d] \in Contents(d)
  BY DEF BaseInv, StoreInv, Good, Worlds
<1> QED BY <1>1 DEF Attempt, BaseInv, DiskInv

(* The journal cut behind its last whole frame. *)
LEMMA CutTyped ==
  ASSUME DiskInv, kafs' = SubSeq(kafs, 1, IntactLen), synced' = IntactLen
  PROVE  /\ kafs' \in Journals /\ synced' \in 0 .. Len(kafs')
         /\ Len(kafs') = IntactLen
         /\ \A i \in 1 .. IntactLen : kafs'[i] = kafs[i]
<1>1. kafs \in Journals /\ IntactLen \in 0 .. Len(kafs) /\ Len(kafs) \in Nat
  BY JournalReads DEF JournalRead, DiskInv, Journals
<1>2. kafs' \in Journals /\ Len(kafs') = IntactLen /\ \A i \in 1 .. IntactLen : kafs'[i] = kafs[i]
  BY <1>1, JournalCut
<1> QED BY <1>1, <1>2

LEMMA FrameTyped ==
  ASSUME BaseInv, NEW d \in Doc PROVE [id |-> d, val |-> target[d]] \in Sound
<1>1. target[d] \in Contents(d)
  BY DEF BaseInv, StoreInv, Good, Worlds
<1> QED BY <1>1 DEF Sound, Frame

LEMMA BaseStep == BaseInv /\ [Next]_vars => BaseInv'
<1> SUFFICES ASSUME BaseInv, [Next]_vars PROVE BaseInv'
  OBVIOUS
<1>1. StoreInv /\ DiskInv /\ SaveInv
  BY DEF BaseInv
<1>2. kafs \in Journals /\ Len(kafs) \in Nat /\ synced \in 0 .. Len(kafs)
  BY <1>1 DEF DiskInv, Journals
<1> USE DEF files, process
<1>3. CASE LoadNothing
  BY <1>1, <1>3, MarksApart DEF LoadNothing, BaseInv, StoreInv, DiskInv, SaveInv
<1>4. CASE LoadWorld
  <2>1. kafd \in Worlds
    BY <1>1, <1>4 DEF LoadWorld, DiskInv
  <2>2. Good(Recoverable)
    BY <1>2, <2>1, RestoreGood DEF Restorable
  <2>3. StoreInv'
    BY <1>1, <1>4, <2>2 DEF LoadWorld, StoreInv
  <2>4. DiskInv'
    BY <1>1, <1>4, <2>1, <2>2, CutTyped, SettledTyped DEF LoadWorld, DiskInv
  <2>5. SaveInv'
    BY <1>1, <1>4, <2>1, MarksApart DEF LoadWorld, SaveInv
  <2> QED BY <2>3, <2>4, <2>5 DEF BaseInv
<1>5. CASE LoadFails
  BY <1>1, <1>5, MarksApart DEF LoadFails, BaseInv, StoreInv, DiskInv, SaveInv
<1>6. CASE SaveBegin
  <2>1. StoreInv'
    BY <1>1, <1>6 DEF SaveBegin, StoreInv
  <2>2. kafs' \in Journals /\ synced' \in 0 .. Len(kafs')
    BY <1>1, <1>2, <1>6, CutTyped DEF SaveBegin
  <2>3. DiskInv'
    BY <1>1, <1>6, <2>2, AttemptTyped DEF SaveBegin, DiskInv
  <2>4. todo' \subseteq Doc
    BY <1>6, Kinds DEF SaveBegin, Changed
  <2>5. opened' \in BOOLEAN /\ pc' \in {"append", "check"}
    BY <1>1, <1>6 DEF SaveBegin, SaveInv
  <2>6. SaveInv'
    BY <1>1, <1>6, <2>4, <2>5 DEF SaveBegin, SaveInv
  <2> QED BY <2>1, <2>3, <2>6 DEF BaseInv
<1>7. CASE AppendFrame
  <2>1. PICK d \in todo : /\ kafs' = Append(kafs, [id |-> d, val |-> target[d]])
                          /\ todo' = todo \ {d}
    BY <1>7 DEF AppendFrame
  <2>2. [id |-> d, val |-> target[d]] \in Sound
    BY <1>1, <2>1, FrameTyped DEF SaveInv
  <2>3. kafs' \in Journals /\ synced \in 0 .. Len(kafs')
    BY <1>2, <2>1, <2>2, JournalGrown
  <2>4. StoreInv'
    BY <1>1, <1>7 DEF AppendFrame, StoreInv
  <2>5. DiskInv'
    BY <1>1, <1>7, <2>3 DEF AppendFrame, DiskInv
  <2>6. SaveInv'
    BY <1>1, <1>7, <2>1 DEF AppendFrame, SaveInv
  <2> QED BY <2>4, <2>5, <2>6 DEF BaseInv
<1>8. CASE Commit
  <2>1. StoreInv' /\ Good(target)
    BY <1>1, <1>8 DEF Commit, StoreInv
  <2>2. DiskInv'
    BY <1>1, <1>2, <1>8, <2>1, SettledTyped DEF Commit, DiskInv
  <2>3. SaveInv'
    BY <1>1, <1>8 DEF Commit, SaveInv
  <2> QED BY <2>1, <2>2, <2>3 DEF BaseInv
<1>9. CASE SaveFails
  <2>1. kafs' \in Journals /\ synced \in 0 .. Len(kafs')
    <3>1. CASE kafs' = kafs
      BY <1>2, <3>1
    <3>2. CASE kafs' = Append(kafs, Torn)
      BY <1>2, <3>2, JournalGrown
    <3> QED BY <1>9, <3>1, <3>2 DEF SaveFails
  <2>2. StoreInv'
    BY <1>1, <1>9 DEF SaveFails, StoreInv
  <2>3. DiskInv'
    BY <1>1, <1>9, <2>1 DEF SaveFails, DiskInv
  <2>4. SaveInv'
    BY <1>1, <1>9 DEF SaveFails, SaveInv
  <2> QED BY <2>2, <2>3, <2>4 DEF BaseInv
<1>10. CASE SaveEnd
  <2>1. StoreInv' /\ Good(target)
    BY <1>1, <1>10 DEF SaveEnd, StoreInv
  <2>2. DiskInv'
    BY <1>1, <1>10, <2>1, SettledTyped DEF SaveEnd, DiskInv
  <2>3. SaveInv'
    BY <1>1, <1>10 DEF SaveEnd, SaveInv
  <2> QED BY <2>1, <2>2, <2>3 DEF BaseInv
<1>11. CASE WriteSnapshot
  <2>1. StoreInv' /\ mem \in Worlds
    BY <1>1, <1>11 DEF WriteSnapshot, StoreInv, Good
  <2>2. DiskInv'
    BY <1>1, <1>11, <2>1, AttemptTyped DEF WriteSnapshot, DiskInv
  <2>3. SaveInv'
    BY <1>1, <1>11, <2>1, MarksApart DEF WriteSnapshot, CompactDue, SaveInv
  <2> QED BY <2>1, <2>2, <2>3 DEF BaseInv
<1>12. CASE WriteFails
  BY <1>1, <1>12 DEF WriteFails, CompactDue, BaseInv, StoreInv, DiskInv, SaveInv
<1>13. CASE ResetJournal
  <2>1. StoreInv' /\ Good(target)
    BY <1>1, <1>13 DEF ResetJournal, StoreInv
  <2>2. <<>> \in Journals /\ Len(<<>>) = 0
    BY DEF Journals
  <2>3. DiskInv'
    BY <1>1, <1>13, <2>1, <2>2, SettledTyped DEF ResetJournal, DiskInv
  <2>4. SaveInv'
    BY <1>1, <1>13 DEF ResetJournal, SaveInv
  <2> QED BY <2>1, <2>3, <2>4 DEF BaseInv
<1>14. CASE ResetFails
  <2>1. kafs' \in Journals /\ synced' \in 0 .. Len(kafs')
    <3>1. <<>> \in Journals /\ Len(<<>>) = 0
      BY DEF Journals
    <3>2. QED
      BY <1>1, <1>14, <3>1 DEF ResetFails, DiskInv
  <2>2. StoreInv' /\ SaveInv'
    BY <1>1, <1>14 DEF ResetFails, StoreInv, SaveInv
  <2>3. DiskInv'
    BY <1>1, <1>14, <2>1 DEF ResetFails, DiskInv
  <2> QED BY <2>2, <2>3 DEF BaseInv
<1>15. CASE Change
  <2>1. StoreInv'
    BY <1>1, <1>15, StoreStaysGood DEF Change, StoreInv
  <2>2. DiskInv' /\ SaveInv'
    BY <1>1, <1>15 DEF Change, DiskInv, SaveInv
  <2> QED BY <2>1, <2>2 DEF BaseInv
<1>16. CASE Crash
  <2>1. StoreInv'
    BY <1>16, EmptyGood DEF Crash, StoreInv
  <2>2. kafs' \in Journals
    BY <1>2, <1>16, JournalLost DEF Crash
  <2>3. DiskInv'
    BY <1>1, <1>16, <2>2 DEF Crash, DiskInv, Journals
  <2>4. SaveInv'
    BY <1>1, <1>16 DEF Crash, SaveInv
  <2> QED BY <2>1, <2>3, <2>4 DEF BaseInv
<1>17. CASE Corrupt
  <2>1. StoreInv' /\ DiskInv'
    BY <1>1, <1>17 DEF Corrupt, StoreInv, DiskInv
  <2>2. SaveInv'
    BY <1>1, <1>17 DEF Corrupt, SaveInv
  <2> QED BY <2>1, <2>2 DEF BaseInv
<1>18. CASE UNCHANGED vars
  BY <1>1, <1>18 DEF vars, BaseInv, StoreInv, DiskInv, SaveInv
<1> QED BY <1>3, <1>4, <1>5, <1>6, <1>7, <1>8, <1>9, <1>10, <1>11, <1>12, <1>13,
           <1>14, <1>15, <1>16, <1>17, <1>18 DEF Next

LEMMA Base == Spec => []BaseInv
BY BaseInit, BaseStep, PTL DEF Spec

(* A snapshot that could not be read is still there when the system goes   *)
(* down, and so is its journal, whatever fails and whoever asks for a save *)
(* (Storage.load suspends every save, disk.rs).                            *)
THEOREM UnreadableStays == Spec => UnreadableKept
<1>1. BaseInv /\ [Next]_vars
        => [kafd = Unreadable => kafd' = Unreadable /\ (kafs' = kafs \/ pc' = "down")]_vars
  <2> SUFFICES ASSUME BaseInv, Next, kafd = Unreadable
               PROVE  kafd' = Unreadable /\ (kafs' = kafs \/ pc' = "down")
    OBVIOUS
  <2>1. pc = "down" \/ (pc = "idle" /\ ~ writable)
    BY DEF BaseInv, SaveInv
  <2>2. CASE LoadNothing \/ LoadWorld
    BY <2>2, MarksApart DEF LoadNothing, LoadWorld
  <2>3. CASE LoadFails \/ Change \/ Crash \/ Corrupt
    BY <2>3 DEF LoadFails, Change, Crash, Corrupt, files
  <2>4. CASE SaveBegin \/ AppendFrame \/ Commit \/ SaveFails \/ SaveEnd
    BY <2>1, <2>4 DEF SaveBegin, AppendFrame, Commit, SaveFails, SaveEnd
  <2>5. CASE WriteSnapshot \/ WriteFails \/ ResetJournal \/ ResetFails
    BY <2>1, <2>5 DEF WriteSnapshot, WriteFails, ResetJournal, ResetFails, CompactDue
  <2> QED BY <2>2, <2>3, <2>4, <2>5 DEF Next
<1> QED BY <1>1, Base, PTL DEF Spec, UnreadableKept

(* Frames put over nothing. *)
BareSnapshot == kafs = <<>> /\ kafd \in Worlds /\ Good(kafd) => Recoverable = kafd

LEMMA SnapshotAlone == BareSnapshot
<1> SUFFICES ASSUME kafs = <<>>, kafd \in Worlds, Good(kafd) PROVE Recoverable = kafd
  BY DEF BareSnapshot
<1>1. kafs \in Journals /\ Len(kafs) = 0
  BY DEF Journals
<1>2. IntactLen = 0
  BY <1>1, JournalReads DEF JournalRead
<1>3. Recoverable = Installed(kafd)
  BY <1>1, <1>2, RestoreGood, UpToNone DEF Restorable
<1> QED BY <1>3, Installs

LEMMA SnapshotAloneNext == BareSnapshot'
BY SnapshotAlone, PTL

(* Whatever failed or torn writes came before, a compact that succeeds     *)
(* leaves on disk exactly the world it was given (WorldLog::compact).      *)
THEOREM CompactLeaves == Spec => CompactHeals
<1>1. BaseInv /\ [Next]_vars => [ResetJournal => Recoverable' = target]_vars
  <2> SUFFICES ASSUME BaseInv, ResetJournal PROVE Recoverable' = target
    OBVIOUS
  <2>1. kafd' = target /\ kafs' = <<>>
    BY DEF BaseInv, SaveInv, ResetJournal
  <2>2. Good(target) /\ target \in Worlds
    BY DEF BaseInv, StoreInv, Good
  <2> QED BY <2>1, <2>2, SnapshotAloneNext DEF BareSnapshot
<1> QED BY <1>1, Base, PTL DEF Spec, CompactHeals

(* Every variable is of its type, and the journal holds frames and torn    *)
(* bytes only.                                                             *)
THEOREM TypeCorrect == Spec => []TypeOK
<1>1. BaseInv => TypeOK
  <2> SUFFICES ASSUME BaseInv PROVE TypeOK
    OBVIOUS
  <2>1. kafs \in Seq(Frame \cup {Torn})
    <3>1. Sound \cup {Torn} \subseteq Frame \cup {Torn}
      BY DEF Sound
    <3> QED BY <3>1 DEF BaseInv, DiskInv, Journals
  <2>2. IsWorld(mem) /\ IsWorld(keys) /\ IsWorld(target)
    BY WorldTyped DEF BaseInv, StoreInv, Good
  <2>3. kafd \in {NoFile, Unreadable} \/ IsWorld(kafd)
    BY WorldTyped DEF BaseInv, DiskInv
  <2> QED BY <2>1, <2>2, <2>3 DEF BaseInv, DiskInv, SaveInv, TypeOK
<1> QED BY <1>1, Base, PTL

-----------------------------------------------------------------------------
(* What holds while no write fails and `sync` finds nothing unsaved *)

Reliable == ~ MayFail /\ ~ MayTear /\ ~ DirtySync

Up == pc # "down" /\ writable

Content(m) == UpTo(kafd, kafs, m)

(* The lengths a power cut may leave of the journal. *)
Kept == {m \in 0 .. Len(kafs) : Whole(kafs, m) /\ (synced <= m \/ kafs[m + 1] = Torn)}

RankIn(t, d) ==
  IF d = Native THEN 2 * MaxAtomId + 4
  ELSE IF d \in Bubble THEN MaxAtomId + 1
  ELSE IF t[d] = Gone THEN MaxAtomId + 2 + d
  ELSE d

(* Before the first compact there is no file, and so no journal. *)
FirstInv ==
  /\ kafd = NoFile =>
       /\ kafs = <<>> /\ full /\ pc \in {"down", "idle"}
       /\ may = [d \in Doc |-> {Empty[d]}]
  /\ Up /\ full =>
       /\ kafs = <<>> /\ pc \in {"idle", "reset"}
       /\ pc = "idle" => kafd = NoFile

(* A process that loaded the world has a journal of whole frames, synced   *)
(* but for those it is appending.                                          *)
WholeInv ==
  Up => Whole(kafs, Len(kafs)) /\ (pc # "append" => synced = Len(kafs))

(* Frames are appended in the order of their ranks; what is believed to be *)
(* on disk and what is being saved are promised.                           *)
OrderInv ==
  /\ pc = "append" =>
       \A d \in Guests \ todo, e \in todo :
         keys[d] # target[d] => RankIn(target, d) <= RankIn(target, e)
  /\ pc = "check" => keys = target
  /\ Up /\ ~ full => \A d \in Guests : keys[d] \in may[d]
  /\ pc \in {"append", "check", "reset"} => \A d \in Guests : target[d] \in may[d]

(* The disk says of every document what the keys say, or, once its frame   *)
(* is out, what is being saved.                                            *)
KeysInv ==
  kafd \in Worlds =>
    /\ Up /\ ~ full => \A d \in Guests :
         Content(Len(kafs))[d] =
           IF pc = "append" /\ d \notin todo THEN target[d] ELSE keys[d]
    /\ pc = "reset" => \A d \in Guests : Content(Len(kafs))[d] = target[d]

(* A power cut leaves a closed world of promised contents.                 *)
Promising(m) ==
  Closed(Content(m)) /\ \A d \in Guests : Content(m)[d] \in may[d]

KeptInv == kafd \in Worlds => \A m \in Kept : Promising(m)

LoadedInv  == BaseInv /\ FirstInv /\ WholeInv /\ OrderInv /\ KeysInv
JournalInv == LoadedInv /\ KeptInv

LEMMA RankIs == \A d \in Doc : Rank(d) = RankIn(target, d)
BY DEF Rank, RankIn

(* A world half of which is saved is closed: an atom's frame goes out      *)
(* before the bubbles that bind it, and a frame that says an atom is gone  *)
(* after those of the bubbles that no longer do.                           *)
LEMMA HalfSavedClosed ==
  ASSUME NEW k, Good(k), NEW t, Good(t), NEW rest, NEW c,
         \A d \in Guests : c[d] = IF d \notin rest THEN t[d] ELSE k[d],
         \A d \in Guests \ rest, e \in rest : k[d] # t[d] => RankIn(t, d) <= RankIn(t, e)
  PROVE  Closed(c)
<1> SUFFICES ASSUME NEW b \in Bubble, c[b] \in AtomId PROVE c[c[b]] # Gone
  BY DEF Closed, Present
<1> USE Kinds
<1>1. PICK x \in AtomId : x = c[b]
  OBVIOUS
<1>2. /\ k[b] = x => k[x] # Gone
      /\ t[b] = x => t[x] # Gone
  BY <1>1 DEF Good, Closed, Present
<1>3. RankIn(t, b) = MaxAtomId + 1
  BY DEF RankIn
<1>4. CASE b \notin rest
  <2>1. t[b] = x
    BY <1>1, <1>4
  <2>2. CASE x \notin rest
    BY <1>1, <1>2, <2>1, <2>2
  <2>3. CASE x \in rest
    <3>1. RankIn(t, x) = x
      BY <1>2, <2>1 DEF RankIn
    <3>2. ~ (RankIn(t, b) <= RankIn(t, x))
      BY <1>3, <3>1
    <3>3. k[b] = t[b]
      BY <1>4, <2>3, <3>2
    <3> QED BY <1>1, <1>2, <2>1, <2>3, <3>3
  <2> QED BY <2>2, <2>3
<1>5. CASE b \in rest
  <2>1. k[b] = x
    BY <1>1, <1>5
  <2>2. CASE x \in rest
    BY <1>1, <1>2, <2>1, <2>2
  <2>3. CASE x \notin rest /\ t[x] = Gone
    <3>1. RankIn(t, x) = MaxAtomId + 2 + x
      BY <2>3 DEF RankIn
    <3>2. ~ (RankIn(t, x) <= RankIn(t, b))
      BY <1>3, <3>1
    <3>3. k[x] # t[x]
      BY <1>2, <2>1, <2>3
    <3> QED BY <1>5, <2>3, <3>2, <3>3
  <2>4. CASE x \notin rest /\ t[x] # Gone
    BY <1>1, <2>4
  <2> QED BY <2>2, <2>3, <2>4
<1> QED BY <1>4, <1>5

(* What the guests wrote is all that being closed depends on. *)
LEMMA ClosedAlike ==
  ASSUME NEW w, Closed(w), NEW c, \A d \in Guests : c[d] = w[d] PROVE Closed(c)
BY Kinds DEF Closed, Present

(* With all its frames on disk, the journal of a running process leads to  *)
(* a closed world of promised contents.                                    *)
Latest == LoadedInv /\ kafd \in Worlds /\ Up => Promising(Len(kafs))

LEMMA LatestPromising == Latest
<1> SUFFICES ASSUME LoadedInv, kafd \in Worlds, Up PROVE Promising(Len(kafs))
  BY DEF Latest
<1> DEFINE c == Content(Len(kafs))
<1>1. Good(keys) /\ Good(target) /\ Closed(keys) /\ Closed(target)
  BY DEF LoadedInv, BaseInv, StoreInv, Good
<1>2. CASE full
  <2>1. pc = "reset"
    BY <1>2, MarksApart DEF LoadedInv, FirstInv
  <2>2. \A d \in Guests : c[d] = target[d] /\ target[d] \in may[d]
    BY <2>1 DEF LoadedInv, KeysInv, OrderInv
  <2> HIDE DEF c
  <2>3. Closed(c)
    BY <1>1, <2>2, ClosedAlike
  <2> QED BY <2>2, <2>3 DEF Promising, c
<1>3. CASE ~ full
  <2>1. \A d \in Guests : c[d] = IF pc = "append" /\ d \notin todo THEN target[d] ELSE keys[d]
    BY <1>3 DEF LoadedInv, KeysInv
  <2>2. \A d \in Guests : c[d] \in may[d]
    BY <1>3, <2>1 DEF LoadedInv, OrderInv
  <2> HIDE DEF c
  <2>3. CASE pc = "append"
    <3>1. \A d \in Guests : c[d] = IF d \notin todo THEN target[d] ELSE keys[d]
      BY <2>1, <2>3
    <3>2. Closed(c)
      BY <1>1, <2>3, <3>1, HalfSavedClosed DEF LoadedInv, OrderInv
    <3> QED BY <2>2, <3>2 DEF Promising, c
  <2>4. CASE pc # "append"
    <3>1. Closed(c)
      BY <1>1, <2>1, <2>4, ClosedAlike
    <3> QED BY <2>2, <3>1 DEF Promising, c
  <2> QED BY <2>3, <2>4
<1> QED BY <1>2, <1>3

LEMMA LatestPromisingNext == Latest'
BY LatestPromising, PTL

-----------------------------------------------------------------------------
(* The steps *)

LEMMA NothingFails ==
  ASSUME Reliable PROVE ~ SaveFails /\ ~ WriteFails /\ ~ ResetFails
BY DEF Reliable, SaveFails, WriteFails, ResetFails

LEMMA JournalFacts ==
  ASSUME BaseInv
  PROVE  /\ kafs \in Journals /\ Len(kafs) \in Nat /\ synced \in 0 .. Len(kafs)
         /\ IntactLen \in 0 .. Len(kafs) /\ Whole(kafs, IntactLen)
         /\ kafs = <<>> <=> Len(kafs) = 0
<1>1. kafs \in Journals /\ Len(kafs) \in Nat /\ synced \in 0 .. Len(kafs)
  BY DEF BaseInv, DiskInv, Journals
<1>2. kafs = <<>> <=> Len(kafs) = 0
  BY <1>1, EmptySeq DEF Journals
<1> QED BY <1>1, <1>2, JournalReads DEF JournalRead

(* A process that loaded the world finds no tail to cut. *)
LEMMA NoTail ==
  ASSUME BaseInv, WholeInv, Up
  PROVE  IntactLen = Len(kafs) /\ SubSeq(kafs, 1, IntactLen) = kafs
<1>1. kafs \in Journals /\ Len(kafs) \in Nat
  BY JournalFacts
<1>2. IntactLen = Len(kafs)
  BY <1>1, JournalReads DEF JournalRead, WholeInv
<1>3. SubSeq(kafs, 1, Len(kafs)) = kafs
  BY <1>1 DEF Journals
<1> QED BY <1>2, <1>3

LEMMA SaveBeginDisk ==
  ASSUME BaseInv, WholeInv, SaveBegin PROVE UNCHANGED <<kafd, kafs, synced>>
<1>1. Up /\ pc # "append"
  BY DEF SaveBegin, Up
<1>2. synced = Len(kafs)
  BY <1>1 DEF WholeInv
<1> QED BY <1>1, <1>2, NoTail DEF SaveBegin

(* A process that is up has read its snapshot, or there was none. *)
LEMMA UpReads == ASSUME BaseInv, Up PROVE kafd \in {NoFile} \cup Worlds
BY DEF BaseInv, DiskInv, SaveInv, Up

LEMMA CrashLeaves ==
  ASSUME BaseInv, Crash
  PROVE  \E n \in synced .. Len(kafs) :
           /\ n \in 0 .. Len(kafs) /\ kafs' \in Journals
           /\ Len(kafs') = n \/ (Len(kafs') = n + 1 /\ kafs'[n + 1] = Torn /\ n < Len(kafs))
           /\ \A i \in 1 .. n : kafs'[i] = kafs[i]
           /\ synced' = Len(kafs')
<1>1. kafs \in Journals /\ Len(kafs) \in Nat /\ synced \in 0 .. Len(kafs)
  BY JournalFacts
<1>2. PICK n \in synced .. Len(kafs) :
         \/ kafs' = SubSeq(kafs, 1, n)
         \/ n < Len(kafs) /\ kafs' = Append(SubSeq(kafs, 1, n), Torn)
  BY DEF Crash
<1>3. n \in 0 .. Len(kafs)
  BY <1>1
<1>4. CASE kafs' = SubSeq(kafs, 1, n)
  <2>1. kafs' \in Journals /\ Len(kafs') = n /\ \A i \in 1 .. n : kafs'[i] = kafs[i]
    BY <1>1, <1>3, <1>4, JournalCut
  <2> QED BY <1>3, <2>1 DEF Crash
<1>5. CASE n < Len(kafs) /\ kafs' = Append(SubSeq(kafs, 1, n), Torn)
  <2> DEFINE r == SubSeq(kafs, 1, n)
  <2>1. r \in Journals /\ Len(r) = n /\ \A i \in 1 .. n : r[i] = kafs[i]
    BY <1>1, <1>3, JournalCut
  <2>2. kafs' = Append(r, Torn)
    BY <1>5
  <2> HIDE DEF r
  <2>3. /\ kafs' \in Journals /\ Len(kafs') = n + 1 /\ kafs'[n + 1] = Torn
        /\ \A i \in 1 .. n : kafs'[i] = kafs[i]
    BY <2>1, <2>2, JournalGrown
  <2> QED BY <1>3, <1>5, <2>3 DEF Crash
<1> QED BY <1>2, <1>4, <1>5

LEMMA FirstStep ==
  ASSUME Reliable, BaseInv, FirstInv, WholeInv, [Next]_vars PROVE FirstInv'
<1> USE DEF files, process
<1>1. kafd = NoFile => kafs = <<>> /\ Len(kafs) = 0
  BY JournalFacts DEF FirstInv
<1>2. CASE LoadNothing
  BY <1>2 DEF LoadNothing, FirstInv, Up
<1>3. CASE LoadWorld
  BY <1>3 DEF LoadWorld, FirstInv, Up
<1>4. CASE LoadFails
  BY <1>4, MarksApart DEF LoadFails, FirstInv, Up
<1>5. CASE SaveBegin
  BY <1>5, SaveBeginDisk DEF SaveBegin, FirstInv, Up
<1>6. CASE AppendFrame \/ Commit
  BY <1>6 DEF AppendFrame, Commit, FirstInv, BaseInv, SaveInv, Up
<1>7. CASE SaveEnd
  BY <1>7 DEF SaveEnd, FirstInv, BaseInv, SaveInv, Up
<1>8. CASE WriteSnapshot
  <2>1. kafd' # NoFile
    BY <1>8, MarksApart DEF WriteSnapshot, BaseInv, StoreInv, Good
  <2> QED BY <1>8, <2>1 DEF WriteSnapshot, CompactDue, FirstInv, BaseInv, SaveInv, Up
<1>9. CASE ResetJournal
  BY <1>9 DEF ResetJournal, FirstInv, Up
<1>10. CASE Change
  BY <1>10 DEF Change, FirstInv, Up
<1>11. CASE Crash
  <2>1. kafd = NoFile => kafs' = <<>>
    <3> SUFFICES ASSUME kafd = NoFile PROVE kafs' = <<>>
      OBVIOUS
    <3>1. Len(kafs) = 0
      BY <1>1
    <3>2. PICK n \in synced .. Len(kafs) :
           /\ n \in 0 .. Len(kafs) /\ kafs' \in Journals
           /\ Len(kafs') = n \/ (Len(kafs') = n + 1 /\ kafs'[n + 1] = Torn /\ n < Len(kafs))
      BY <1>11, CrashLeaves
    <3>3. kafs' \in Journals /\ Len(kafs') = 0
      BY <3>1, <3>2
    <3> QED BY <3>3, EmptySeq DEF Journals
  <2>2. pc' = "down" /\ full' /\ UNCHANGED <<kafd, may>>
    BY <1>11 DEF Crash
  <2> QED BY <2>1, <2>2 DEF FirstInv, Up
<1>12. CASE Corrupt
  BY <1>12, MarksApart DEF Corrupt, FirstInv, Up
<1>13. CASE UNCHANGED vars
  BY <1>13 DEF vars, FirstInv, Up
<1> QED BY <1>2, <1>3, <1>4, <1>5, <1>6, <1>7, <1>8, <1>9, <1>10, <1>11, <1>12, <1>13,
           NothingFails DEF Next

LEMMA WholeStep ==
  ASSUME Reliable, BaseInv, FirstInv, WholeInv, [Next]_vars PROVE WholeInv'
<1> USE DEF files, process
<1>1. kafs \in Journals /\ Len(kafs) \in Nat /\ synced \in 0 .. Len(kafs)
  BY JournalFacts
<1>2. CASE LoadNothing
  <2>1. kafs = <<>> /\ Len(kafs) = 0 /\ synced = 0
    BY <1>1, <1>2, JournalFacts DEF LoadNothing, FirstInv
  <2>2. Whole(kafs, Len(kafs)) /\ synced = Len(kafs)
    BY <2>1 DEF Whole
  <2> QED BY <1>2, <2>2 DEF LoadNothing, WholeInv
<1>3. CASE LoadWorld
  <2>1. kafs' = SubSeq(kafs, 1, IntactLen) /\ synced' = IntactLen
    BY <1>3 DEF LoadWorld
  <2>2. Len(kafs') = IntactLen /\ \A i \in 1 .. IntactLen : kafs'[i] = kafs[i]
    BY <2>1, CutTyped DEF BaseInv
  <2>3. Whole(kafs, IntactLen)
    BY JournalFacts
  <2>4. Whole(kafs', IntactLen)
    BY <2>2, <2>3 DEF Whole
  <2> QED BY <2>1, <2>2, <2>4 DEF WholeInv
<1>4. CASE LoadFails
  BY <1>4 DEF LoadFails, WholeInv, Up
<1>5. CASE SaveBegin
  <2>1. Up /\ pc # "append"
    BY <1>5 DEF SaveBegin, Up
  <2> QED BY <1>5, <2>1, SaveBeginDisk DEF WholeInv
<1>6. CASE AppendFrame
  <2>1. PICK d \in todo : kafs' = Append(kafs, [id |-> d, val |-> target[d]])
    BY <1>6 DEF AppendFrame
  <2> DEFINE f == [id |-> d, val |-> target[d]]
  <2>2. f \in Sound /\ f # Torn
    BY <2>1, FrameTyped, MarksApart DEF BaseInv, SaveInv, Sound
  <2>3. kafs' = Append(kafs, f)
    BY <2>1
  <2> HIDE DEF f
  <2>4. /\ Len(kafs') = Len(kafs) + 1 /\ kafs'[Len(kafs) + 1] = f
        /\ \A i \in 1 .. Len(kafs) : kafs'[i] = kafs[i]
    BY <1>1, <2>2, <2>3, JournalGrown
  <2>5. Up /\ Whole(kafs, Len(kafs))
    BY <1>6 DEF AppendFrame, WholeInv, BaseInv, SaveInv, Up
  <2>6. Whole(kafs', Len(kafs'))
    <3> SUFFICES ASSUME NEW i \in 1 .. Len(kafs) + 1 PROVE kafs'[i] # Torn
      BY <2>4 DEF Whole
    <3>1. CASE i = Len(kafs) + 1
      BY <2>2, <2>4, <3>1
    <3>2. CASE i # Len(kafs) + 1
      <4>1. i \in 1 .. Len(kafs)
        BY <1>1, <3>2
      <4> QED BY <2>4, <2>5, <4>1 DEF Whole
    <3> QED BY <3>1, <3>2
  <2>7. pc' = "append"
    BY <1>6 DEF AppendFrame
  <2> QED BY <2>6, <2>7 DEF WholeInv
<1>7. CASE Commit
  BY <1>7 DEF Commit, WholeInv, Up
<1>8. CASE SaveEnd
  BY <1>8 DEF SaveEnd, WholeInv, Up
<1>9. CASE WriteSnapshot
  BY <1>9 DEF WriteSnapshot, CompactDue, WholeInv, BaseInv, SaveInv, Up
<1>10. CASE ResetJournal
  BY <1>10 DEF ResetJournal, WholeInv, Whole
<1>11. CASE Change
  BY <1>11 DEF Change, WholeInv, Up
<1>12. CASE Crash
  BY <1>12 DEF Crash, WholeInv, Up
<1>13. CASE Corrupt
  BY <1>13 DEF Corrupt, WholeInv, Up
<1>14. CASE UNCHANGED vars
  BY <1>14 DEF vars, WholeInv, Up
<1> QED BY <1>2, <1>3, <1>4, <1>5, <1>6, <1>7, <1>8, <1>9, <1>10, <1>11, <1>12, <1>13,
           <1>14, NothingFails DEF Next

LEMMA OrderStep ==
  ASSUME Reliable, LoadedInv, [Next]_vars PROVE OrderInv'
<1> USE DEF files, process
<1>1. BaseInv /\ FirstInv /\ WholeInv /\ OrderInv /\ Guests \subseteq Doc
  BY DEF LoadedInv, Guests, Doc
<1>2. CASE LoadNothing
  BY <1>1, <1>2 DEF LoadNothing, OrderInv, FirstInv, Up
<1>3. CASE LoadWorld
  BY <1>1, <1>3 DEF LoadWorld, OrderInv, Settled
<1>4. CASE LoadFails
  BY <1>4 DEF LoadFails, OrderInv, Up
<1>5. CASE SaveBegin
  <2>1. Up /\ ~ full /\ ~ full' /\ pc' \in {"append", "check"}
    BY <1>5 DEF SaveBegin, Up
  <2>2. \A d \in Guests : keys[d] \in may'[d] /\ mem[d] \in may'[d]
    BY <1>1, <1>5, <2>1 DEF SaveBegin, OrderInv, Attempt
  <2>3. \A d \in Guests \ todo' : keys'[d] = target'[d]
    BY <1>1, <1>5 DEF SaveBegin, Changed
  <2>4. pc' = "check" => keys' = target'
    <3> SUFFICES ASSUME pc' = "check" PROVE keys = mem
      BY <1>5 DEF SaveBegin
    <3>1. \A d \in Doc : keys[d] = mem[d]
      BY <1>5 DEF SaveBegin, Changed
    <3>2. keys = [d \in Doc |-> keys[d]] /\ mem = [d \in Doc |-> mem[d]]
      BY <1>1, WorldIs DEF BaseInv, StoreInv, Good
    <3> QED BY <3>1, <3>2
  <2>5. keys' = keys /\ target' = mem
    BY <1>5 DEF SaveBegin
  <2>6. (\A d \in Guests : keys[d] \in may[d])'
    BY <2>2, <2>5
  <2>7. (\A d \in Guests : target[d] \in may[d])'
    BY <2>2, <2>5
  <2> QED BY <2>1, <2>3, <2>4, <2>6, <2>7 DEF OrderInv
<1>6. CASE AppendFrame
  <2>1. PICK d \in todo : /\ \A e \in todo : Rank(d) <= Rank(e)
                          /\ todo' = todo \ {d}
    BY <1>6 DEF AppendFrame
  <2>2. \A e \in todo : RankIn(target, d) <= RankIn(target, e)
    BY <1>1, <2>1, RankIs DEF BaseInv, SaveInv
  <2>3. UNCHANGED <<pc, keys, target, may, full, writable>> /\ pc = "append"
    BY <1>6 DEF AppendFrame
  <2>4. ASSUME NEW g \in Guests \ todo', NEW e \in todo', keys[g] # target[g]
        PROVE  RankIn(target, g) <= RankIn(target, e)
    <3>1. CASE g = d
      BY <2>1, <2>2, <3>1
    <3>2. CASE g # d
      BY <1>1, <2>1, <2>3, <2>4, <3>2 DEF OrderInv
    <3> QED BY <3>1, <3>2
  <2> QED BY <1>1, <2>3, <2>4 DEF OrderInv, Up
<1>7. CASE Commit
  BY <1>1, <1>7 DEF Commit, OrderInv, Settled
<1>8. CASE SaveEnd
  BY <1>1, <1>8 DEF SaveEnd, OrderInv, Settled
<1>9. CASE WriteSnapshot
  BY <1>1, <1>9 DEF WriteSnapshot, CompactDue, OrderInv, Attempt, Up
<1>10. CASE ResetJournal
  BY <1>1, <1>10 DEF ResetJournal, OrderInv, Settled
<1>11. CASE Change
  BY <1>1, <1>11 DEF Change, OrderInv, Up
<1>12. CASE Crash
  BY <1>12 DEF Crash, OrderInv, Up
<1>13. CASE Corrupt
  BY <1>13 DEF Corrupt, OrderInv, Up
<1>14. CASE UNCHANGED vars
  BY <1>1, <1>14 DEF vars, OrderInv, Up
<1> QED BY <1>2, <1>3, <1>4, <1>5, <1>6, <1>7, <1>8, <1>9, <1>10, <1>11, <1>12, <1>13,
           <1>14, NothingFails DEF Next

LEMMA KeysStep ==
  ASSUME Reliable, JournalInv, [Next]_vars PROVE KeysInv'
<1> USE DEF files, process
<1>1. BaseInv /\ FirstInv /\ WholeInv /\ OrderInv /\ KeysInv /\ KeptInv /\ Guests \subseteq Doc
  BY DEF JournalInv, LoadedInv, Guests, Doc
<1>2. kafs \in Journals /\ Len(kafs) \in Nat
  BY <1>1, JournalFacts
<1>3. ASSUME pc' = "down" \/ kafd' \notin Worlds PROVE KeysInv'
  BY <1>3 DEF KeysInv, Up
<1>4. CASE LoadNothing
  BY <1>3, <1>4, MarksApart DEF LoadNothing
<1>5. CASE LoadWorld
  <2>1. kafd \in Worlds /\ kafd' = kafd
    BY <1>1, <1>5 DEF LoadWorld, BaseInv, DiskInv
  <2> DEFINE w == Content(IntactLen)
  <2>2. w \in Worlds /\ Recoverable = Installed(w)
    BY <1>1, <2>1, RestoreGood DEF Restorable, BaseInv, DiskInv, Content
  <2>3. Closed(w)
    <3>1. IntactLen \in Kept
      BY <1>1, JournalFacts, JournalReads DEF JournalRead, Kept
    <3> QED BY <1>1, <2>1, <3>1 DEF KeptInv, Promising
  <2>4. kafs' = SubSeq(kafs, 1, IntactLen) /\ synced' = IntactLen /\ keys' = Recoverable
    BY <1>5 DEF LoadWorld
  <2>5. Len(kafs') = IntactLen /\ \A i \in 1 .. IntactLen : kafs'[i] = kafs[i]
    BY <1>1, <2>4, CutTyped DEF BaseInv
  <2>6. UpTo(kafd', kafs', Len(kafs')) = w
    <3>1. IntactLen \in Nat
      BY <1>1, JournalFacts
    <3> QED BY <2>1, <2>5, <3>1, UpToPrefix DEF Content
  <2> HIDE DEF w
  <2>7. \A d \in Guests : w[d] = keys'[d]
    BY <2>2, <2>3, <2>4, Installs
  <2>8. pc' = "idle"
    BY <1>5 DEF LoadWorld
  <2> QED BY <2>6, <2>7, <2>8 DEF KeysInv, Content
<1>6. CASE LoadFails
  BY <1>3, <1>6, MarksApart DEF LoadFails
<1>7. CASE SaveBegin
  <2>1. UNCHANGED <<kafd, kafs>>
    BY <1>1, <1>7, SaveBeginDisk
  <2>2. Up /\ ~ full /\ pc = "idle" /\ keys' = keys /\ target' = mem /\ pc' # "reset"
    BY <1>7 DEF SaveBegin, Up
  <2>3. kafd \in Worlds => \A d \in Guests : Content(Len(kafs))[d] = keys[d]
    BY <1>1, <2>2 DEF KeysInv
  <2>4. \A d \in Guests \ todo' : keys[d] = mem[d]
    BY <1>1, <1>7 DEF SaveBegin, Changed
  <2>5. kafd' \in Worlds => \A d \in Guests : UpTo(kafd', kafs', Len(kafs'))[d] = keys[d]
    BY <2>1, <2>3 DEF Content
  <2> QED BY <2>2, <2>4, <2>5 DEF KeysInv, Content
<1>8. CASE AppendFrame
  <2>1. PICK d \in todo : /\ kafs' = Append(kafs, [id |-> d, val |-> target[d]])
                          /\ todo' = todo \ {d}
    BY <1>8 DEF AppendFrame
  <2>2. UNCHANGED <<kafd, pc, keys, target, full, writable>> /\ pc = "append"
    BY <1>8 DEF AppendFrame
  <2> DEFINE f == [id |-> d, val |-> target[d]]
             n == Len(kafs)
  <2>3. f \in Sound /\ f.id = d /\ f.val = target[d] /\ kafs' = Append(kafs, f)
    BY <1>1, <2>1, FrameTyped DEF BaseInv, SaveInv
  <2> HIDE DEF f
  <2>4. Len(kafs') = n + 1 /\ kafs'[n + 1] = f /\ \A i \in 1 .. n : kafs'[i] = kafs[i]
    BY <1>2, <2>3, JournalGrown
  <2>5. UpTo(kafd, kafs', n) = Content(n)
    BY <1>2, <2>4, UpToPrefix DEF Content
  <2>6. \A g \in Guests : UpTo(kafd, kafs', n + 1)[g]
                            = IF g = d THEN target[d] ELSE Content(n)[g]
    <3> SUFFICES ASSUME NEW g \in Guests
                 PROVE  UpTo(kafd, kafs', n + 1)[g]
                          = IF g = d THEN target[d] ELSE Content(n)[g]
      OBVIOUS
    <3>1. UpTo(kafd, kafs', n + 1)[g]
            = IF kafs'[n + 1].id = g THEN kafs'[n + 1].val ELSE UpTo(kafd, kafs', n)[g]
      <4>1. PICK m : m = n + 1
        OBVIOUS
      <4>2. n \in Nat /\ g \in Doc
        BY <1>1, <1>2
      <4> HIDE DEF n
      <4>3. UpTo(kafd, kafs', m)[g]
              = IF kafs'[m].id = g THEN kafs'[m].val ELSE UpTo(kafd, kafs', n)[g]
        BY <4>1, <4>2, UpToNext
      <4> QED BY <4>1, <4>3
    <3> QED BY <2>3, <2>4, <2>5, <3>1
  <2>7. Up => ~ full
    BY <1>1, <2>2 DEF FirstInv
  <2>8. Up
    BY <1>1, <2>2 DEF BaseInv, SaveInv, Up
  <2>9. kafd \in Worlds => \A g \in Guests :
          Content(n)[g] = IF g \notin todo THEN target[g] ELSE keys[g]
    BY <1>1, <2>2, <2>7, <2>8 DEF KeysInv
  <2>10. kafd' \in Worlds => \A g \in Guests :
          UpTo(kafd', kafs', Len(kafs'))[g] = IF g \notin todo' THEN target[g] ELSE keys[g]
    BY <2>1, <2>2, <2>4, <2>6, <2>9
  <2> QED BY <2>2, <2>10 DEF KeysInv, Content
<1>9. CASE Commit
  <2>1. /\ UNCHANGED <<kafd, kafs, full, writable>> /\ keys' = target
        /\ pc = "append" /\ pc' = "check" /\ todo = {}
    BY <1>9 DEF Commit
  <2>2. Up /\ ~ full
    BY <1>1, <2>1 DEF BaseInv, SaveInv, FirstInv, Up
  <2>3. kafd \in Worlds => \A d \in Guests : UpTo(kafd, kafs, Len(kafs))[d] = target[d]
    BY <1>1, <2>1, <2>2 DEF KeysInv, Content
  <2>4. kafd' \in Worlds => \A d \in Guests : UpTo(kafd', kafs', Len(kafs'))[d] = keys'[d]
    BY <2>1, <2>3
  <2> QED BY <2>1, <2>4 DEF KeysInv, Content
<1>10. CASE SaveEnd
  <2>1. /\ UNCHANGED <<kafd, kafs, full, writable>> /\ keys' = target
        /\ pc = "check" /\ pc' = "idle"
    BY <1>10 DEF SaveEnd
  <2>2. Up /\ ~ full /\ keys = target
    BY <1>1, <2>1 DEF BaseInv, SaveInv, FirstInv, OrderInv, Up
  <2>3. kafd \in Worlds => \A d \in Guests : UpTo(kafd, kafs, Len(kafs))[d] = target[d]
    BY <1>1, <2>1, <2>2 DEF KeysInv, Content
  <2>4. kafd' \in Worlds => \A d \in Guests : UpTo(kafd', kafs', Len(kafs'))[d] = keys'[d]
    BY <2>1, <2>3
  <2> QED BY <2>1, <2>4 DEF KeysInv, Content
<1>11. CASE WriteSnapshot
  <2>1. /\ kafd' = mem /\ target' = mem /\ pc' = "reset"
        /\ UNCHANGED <<kafs, keys, full, writable>> /\ mem \in Worlds
    BY <1>1, <1>11 DEF WriteSnapshot, BaseInv, StoreInv, Good
  <2>2. Up /\ pc \in {"idle", "check"}
    BY <1>1, <1>11 DEF WriteSnapshot, CompactDue, BaseInv, SaveInv, Up
  <2>3. CASE full
    <3>1. Len(kafs) = 0
      BY <1>1, <2>2, <2>3, JournalFacts DEF FirstInv
    <3>2. UpTo(mem, kafs, Len(kafs)) = mem
      BY <2>1, <3>1, UpToNone
    <3>3. \A d \in Guests : UpTo(kafd', kafs', Len(kafs'))[d] = target'[d]
      BY <2>1, <3>2
    <3> QED BY <2>1, <2>3, <3>3 DEF KeysInv, Content
  <2>4. CASE ~ full
    <3>1. kafd \in Worlds
      BY <1>1, <2>2, <2>4, UpReads DEF FirstInv
    <3>2. \A d \in Guests : Content(Len(kafs))[d] = keys[d]
      BY <1>1, <2>2, <2>4, <3>1 DEF KeysInv
    <3>3. \A d \in Guests : keys[d] = mem[d]
      <4>1. CASE pc = "check"
        BY <1>1, <4>1 DEF OrderInv, BaseInv, SaveInv
      <4>2. CASE pc = "idle"
        <5>1. Changed = {}
          BY <1>11, <2>4, <4>2 DEF WriteSnapshot, CompactDue, Reliable
        <5> QED BY <1>1, <5>1 DEF Changed
      <4> QED BY <2>2, <4>1, <4>2
    <3>4. \A d \in Guests : UpTo(kafd, kafs, Len(kafs))[d] = mem[d]
      BY <3>2, <3>3 DEF Content
    <3>5. \A d \in Guests : UpTo(mem, kafs, Len(kafs))[d] = mem[d]
      BY <1>1, <1>2, <3>4, UpToOver
    <3>6. \A d \in Guests : /\ UpTo(kafd', kafs', Len(kafs'))[d] = target'[d]
                            /\ UpTo(kafd', kafs', Len(kafs'))[d] = keys'[d]
      BY <2>1, <3>3, <3>5
    <3> QED BY <2>1, <3>6 DEF KeysInv, Content
  <2> QED BY <2>3, <2>4
<1>12. CASE ResetJournal
  <2>1. kafd' = target /\ kafs' = <<>> /\ keys' = target /\ pc' = "idle" /\ target \in Worlds
    BY <1>1, <1>12 DEF ResetJournal, BaseInv, StoreInv, Good, SaveInv
  <2>2. UpTo(kafd', kafs', Len(kafs')) = target
    BY <2>1, UpToNone
  <2> QED BY <2>1, <2>2 DEF KeysInv, Content
<1>13. CASE Change
  <2>1. UNCHANGED <<kafd, kafs, pc, keys, full, writable, target, todo>>
    BY <1>13 DEF Change
  <2> QED BY <1>1, <2>1 DEF KeysInv, Content, Up
<1>14. CASE Crash
  BY <1>3, <1>14 DEF Crash
<1>15. CASE Corrupt
  BY <1>3, <1>15, MarksApart DEF Corrupt
<1>16. CASE UNCHANGED vars
  <2>1. UNCHANGED <<kafd, kafs, pc, keys, full, writable, target, todo>>
    BY <1>16 DEF vars
  <2> QED BY <1>1, <2>1 DEF KeysInv, Content, Up
<1> QED BY <1>4, <1>5, <1>6, <1>7, <1>8, <1>9, <1>10, <1>11, <1>12, <1>13, <1>14,
           <1>15, <1>16, NothingFails DEF Next

LEMMA LoadedStep == Reliable /\ JournalInv /\ [Next]_vars => LoadedInv'
<1> SUFFICES ASSUME Reliable, JournalInv, [Next]_vars PROVE LoadedInv'
  OBVIOUS
<1>1. BaseInv /\ FirstInv /\ WholeInv /\ LoadedInv
  BY DEF JournalInv, LoadedInv
<1>2. BaseInv'
  BY <1>1, BaseStep
<1>3. FirstInv'
  BY <1>1, FirstStep
<1>4. WholeInv'
  BY <1>1, WholeStep
<1>5. OrderInv' /\ KeysInv'
  BY <1>1, OrderStep, KeysStep
<1> QED BY <1>2, <1>3, <1>4, <1>5 DEF LoadedInv

(* A length the disk keeps its promise at stays one while the snapshot,    *)
(* the frames up to it and the promise stay.                               *)
LEMMA PromiseStays ==
  ASSUME NEW m \in Nat, Promising(m), UNCHANGED <<kafd, may>>,
         \A i \in 1 .. m : kafs'[i] = kafs[i]
  PROVE  Promising(m)'
<1>1. UpTo(kafd', kafs', m) = Content(m)
  BY UpToPrefix DEF Content
<1> QED BY <1>1 DEF Promising, Content

LEMMA KeptStep ==
  ASSUME Reliable, JournalInv, LoadedInv', [Next]_vars PROVE KeptInv'
<1> USE DEF files, process
<1> SUFFICES ASSUME kafd' \in Worlds, NEW m \in Kept' PROVE Promising(m)'
  BY DEF KeptInv
<1>1. BaseInv /\ FirstInv /\ WholeInv /\ KeptInv /\ BaseInv' /\ WholeInv'
  BY DEF JournalInv, LoadedInv
<1>2. kafs \in Journals /\ Len(kafs) \in Nat /\ synced \in 0 .. Len(kafs)
  BY <1>1, JournalFacts
<1>3. /\ m \in 0 .. Len(kafs') /\ Len(kafs') \in Nat
      /\ Whole(kafs', m) /\ (synced' <= m \/ kafs'[m + 1] = Torn)
      /\ synced' \in 0 .. Len(kafs')
  BY <1>1 DEF Kept, BaseInv, DiskInv, Journals
<1>4. m \in Nat
  BY <1>3
<1>5. ASSUME UNCHANGED <<kafd, kafs, synced, may>> PROVE Promising(m)'
  <2>1. kafd \in Worlds /\ m \in Kept
    BY <1>3, <1>5 DEF Kept
  <2>2. Promising(m)
    BY <1>1, <2>1 DEF KeptInv
  <2> QED BY <1>4, <1>5, <2>2, PromiseStays
<1>6. CASE UNCHANGED vars
  BY <1>5, <1>6 DEF vars
<1>7. CASE Up' /\ Next
  <2>1. Promising(Len(kafs))'
    BY <1>7, LatestPromisingNext DEF Latest
  <2>2. CASE m = Len(kafs')
    BY <2>1, <2>2 DEF Promising, Content
  <2>3. CASE m # Len(kafs')
    <3>1. m + 1 \in 1 .. Len(kafs')
      BY <1>3, <2>3
    <3>2. kafs'[m + 1] # Torn
      BY <1>1, <1>7, <3>1 DEF WholeInv, Whole
    <3>3. synced' <= m /\ synced' # Len(kafs')
      BY <1>3, <2>3, <3>2
    <3>4. pc' = "append"
      BY <1>1, <1>7, <3>3 DEF WholeInv
    <3>5. CASE SaveBegin
      <4>1. UNCHANGED <<kafs, synced>> /\ Up /\ pc # "append"
        BY <1>1, <3>5, SaveBeginDisk DEF SaveBegin, Up
      <4> QED BY <1>1, <3>3, <4>1 DEF WholeInv
    <3>6. CASE AppendFrame
      <4>1. PICK d \in todo : kafs' = Append(kafs, [id |-> d, val |-> target[d]])
        BY <3>6 DEF AppendFrame
      <4>2. [id |-> d, val |-> target[d]] \in Sound
        BY <1>1, <4>1, FrameTyped DEF BaseInv, SaveInv
      <4>3. Len(kafs') = Len(kafs) + 1 /\ \A i \in 1 .. Len(kafs) : kafs'[i] = kafs[i]
        BY <1>2, <4>1, <4>2, JournalGrown
      <4>4. UNCHANGED <<kafd, synced, may>>
        BY <3>6 DEF AppendFrame
      <4>5. m \in 0 .. Len(kafs) /\ synced <= m
        BY <1>2, <1>3, <3>1, <3>3, <4>3, <4>4
      <4>6. \A i \in 1 .. m : kafs'[i] = kafs[i]
        BY <1>2, <4>3, <4>5
      <4>7. m \in Kept
        BY <1>3, <4>5, <4>6 DEF Kept, Whole
      <4>8. Promising(m)
        BY <1>1, <4>4, <4>7 DEF KeptInv
      <4> QED BY <1>4, <4>4, <4>6, <4>8, PromiseStays
    <3>7. ~ (LoadNothing \/ LoadWorld \/ LoadFails \/ Commit \/ SaveEnd)
      BY <3>4 DEF LoadNothing, LoadWorld, LoadFails, Commit, SaveEnd
    <3>8. ~ (WriteSnapshot \/ ResetJournal \/ Change \/ Crash \/ Corrupt)
      BY <3>4 DEF WriteSnapshot, ResetJournal, Change, Crash, Corrupt
    <3> QED BY <1>7, <3>5, <3>6, <3>7, <3>8, NothingFails DEF Next
  <2> QED BY <2>2, <2>3
<1>8. CASE ~ Up' /\ Next
  <2>1. pc' = "down"
    BY <1>1, <1>8, MarksApart DEF BaseInv, SaveInv, Up
  <2>2. CASE Crash
    <3>1. PICK n \in synced .. Len(kafs) :
           /\ n \in 0 .. Len(kafs) /\ kafs' \in Journals
           /\ Len(kafs') = n \/ (Len(kafs') = n + 1 /\ kafs'[n + 1] = Torn /\ n < Len(kafs))
           /\ \A i \in 1 .. n : kafs'[i] = kafs[i]
           /\ synced' = Len(kafs')
      BY <1>1, <2>2, CrashLeaves
    <3>2. UNCHANGED <<kafd, may>> /\ pc # "down"
      BY <2>2 DEF Crash
    <3>3. Up
      BY <1>1, <3>2, MarksApart DEF BaseInv, SaveInv, Up
    <3>4. Whole(kafs, Len(kafs))
      BY <1>1, <3>3 DEF WholeInv
    <3>5. m = n
      <4>1. CASE m < n
        <5>1. m + 1 \in 1 .. n /\ m + 1 \in 1 .. Len(kafs)
          BY <1>2, <1>3, <3>1, <4>1
        <5>2. kafs'[m + 1] # Torn
          BY <3>1, <3>4, <5>1 DEF Whole
        <5>3. synced' <= m
          BY <1>3, <5>2
        <5> QED BY <1>3, <3>1, <4>1, <5>3
      <4>2. CASE n < m
        <5>1. m = n + 1 /\ kafs'[m] = Torn /\ m \in 1 .. m
          BY <1>3, <3>1, <4>2
        <5> QED BY <1>3, <5>1 DEF Whole
      <4> QED BY <1>3, <3>1, <4>1, <4>2
    <3>6. m \in Kept
      BY <1>2, <1>3, <3>1, <3>5 DEF Kept, Whole
    <3>7. Promising(m)
      BY <1>1, <3>2, <3>6 DEF KeptInv
    <3> QED BY <1>4, <3>1, <3>2, <3>5, <3>7, PromiseStays
  <2>3. ~ Corrupt
    BY MarksApart DEF Corrupt
  <2>4. ~ (LoadNothing \/ LoadWorld \/ LoadFails \/ SaveBegin \/ AppendFrame)
    BY <2>1 DEF LoadNothing, LoadWorld, LoadFails, SaveBegin, AppendFrame
  <2>5. ~ (Commit \/ SaveEnd \/ WriteSnapshot \/ ResetJournal \/ Change)
    BY <2>1 DEF Commit, SaveEnd, WriteSnapshot, ResetJournal, Change
  <2> QED BY <1>8, <2>2, <2>3, <2>4, <2>5, NothingFails DEF Next
<1> QED BY <1>6, <1>7, <1>8

LEMMA JournalInit == Init => JournalInv
<1> SUFFICES ASSUME Init PROVE JournalInv
  OBVIOUS
<1>1. kafd = NoFile /\ NoFile \notin Worlds /\ pc = "down" /\ kafs = <<>> /\ full
  BY MarksApart DEF Init
<1>2. FirstInv
  BY <1>1 DEF Init, FirstInv, Up
<1>3. WholeInv /\ OrderInv /\ KeysInv /\ KeptInv
  BY <1>1 DEF WholeInv, OrderInv, KeysInv, KeptInv, Up
<1> QED BY <1>2, <1>3, BaseInit DEF JournalInv, LoadedInv

LEMMA Journal == ASSUME Reliable PROVE Spec => []JournalInv
<1>1. JournalInv /\ [Next]_vars => JournalInv'
  BY LoadedStep, KeptStep DEF JournalInv
<1> QED BY <1>1, JournalInit, PTL DEF Spec

(* What the recovery reads is a length the disk keeps its promise at, and  *)
(* when a process is up it is all of the journal.                          *)
LEMMA RecoveryKept ==
  ASSUME JournalInv, kafd \in Worlds
  PROVE  /\ Promising(IntactLen)
         /\ \A d \in Guests : Recoverable[d] = Content(IntactLen)[d]
         /\ Up => IntactLen = Len(kafs)
<1>1. BaseInv /\ WholeInv /\ KeptInv
  BY DEF JournalInv, LoadedInv
<1>2. IntactLen \in Kept
  BY <1>1, JournalFacts, JournalReads DEF JournalRead, Kept
<1>3. Promising(IntactLen)
  BY <1>1, <1>2 DEF KeptInv
<1>4. Content(IntactLen) \in Worlds /\ Recoverable = Installed(Content(IntactLen))
  BY <1>1, RestoreGood DEF Restorable, BaseInv, DiskInv, Content
<1>5. \A d \in Guests : Recoverable[d] = Content(IntactLen)[d]
  BY <1>3, <1>4, Installs DEF Promising
<1> QED BY <1>1, <1>3, <1>5, NoTail

(* No power cut leaves a bubble bound to an atom that is not on disk,      *)
(* between any two frames of a save (WorldLog::save, the order of          *)
(* doc_keys), nor between the snapshot and the reset of a compact.         *)
THEOREM CutsAreSound == ASSUME Reliable PROVE Spec => []WorldSound
<1>1. JournalInv => (kafd \notin {NoFile, Unreadable} => Closed(Replayed))
  <2> SUFFICES ASSUME JournalInv, kafd \notin {NoFile, Unreadable} PROVE Closed(Replayed)
    OBVIOUS
  <2>1. kafd \in Worlds /\ kafs \in Journals
    BY DEF JournalInv, LoadedInv, BaseInv, DiskInv
  <2>2. Replayed = Content(IntactLen)
    BY <2>1, JournalReads DEF JournalRead, Content
  <2> QED BY <2>1, <2>2, RecoveryKept DEF Promising
<1>2. JournalInv /\ TypeOK => WorldSound
  BY <1>1 DEF WorldSound
<1> QED BY <1>2, Journal, TypeCorrect, PTL

(* Between two saves the keys WorldLog works from are what a restart would *)
(* load, so that a document it takes for saved is saved.                   *)
LEMMA KeysOnDisk ==
  ASSUME JournalInv, pc = "idle", writable, ~ full
  PROVE  \A d \in Guests : Recoverable[d] = keys[d]
<1>1. Up
  BY DEF Up
<1>2. kafd \in Worlds
  BY <1>1, UpReads DEF JournalInv, LoadedInv, FirstInv
<1>3. \A d \in Guests : Content(Len(kafs))[d] = keys[d]
  BY <1>1, <1>2 DEF JournalInv, LoadedInv, KeysInv
<1> QED BY <1>1, <1>2, <1>3, RecoveryKept

THEOREM KeysAreSaved == ASSUME Reliable PROVE Spec => []SavedOnDisk
<1>1. JournalInv => SavedOnDisk
  BY KeysOnDisk DEF SavedOnDisk
<1> QED BY <1>1, Journal, PTL

-----------------------------------------------------------------------------
(* Snapshot, journal and recovery implement DurableWorld *)

Readable == kafd # Unreadable

LEMMA StaysReadable == ASSUME ~ MayCorrupt PROVE Spec => []Readable
<1>1. Init => Readable
  BY MarksApart DEF Init, Readable
<1>2. BaseInv /\ Readable /\ [Next]_vars => Readable'
  <2> SUFFICES ASSUME BaseInv, Readable, [Next]_vars, kafd' # kafd PROVE Readable'
    BY DEF Readable
  <2>1. CASE WriteSnapshot
    BY <2>1, MarksApart DEF WriteSnapshot, BaseInv, StoreInv, Good, Readable
  <2>2. ~ (LoadNothing \/ LoadWorld \/ LoadFails \/ SaveBegin \/ AppendFrame \/ Commit)
    BY DEF LoadNothing, LoadWorld, LoadFails, SaveBegin, AppendFrame, Commit, files
  <2>3. ~ (SaveFails \/ SaveEnd \/ WriteFails \/ ResetJournal \/ ResetFails)
    BY DEF SaveFails, SaveEnd, WriteFails, ResetJournal, ResetFails, files
  <2>4. ~ (Change \/ Crash \/ Corrupt \/ UNCHANGED vars)
    BY DEF Change, Crash, Corrupt, vars, files
  <2> QED BY <2>1, <2>2, <2>3, <2>4 DEF Next
<1> QED BY <1>1, <1>2, Base, PTL DEF Spec

(* What a restart would load is among what was promised. *)
KeepsPromise == JournalInv /\ Readable => \A d \in Guests : Recoverable[d] \in may[d]

LEMMA PromiseKept == KeepsPromise
<1> SUFFICES ASSUME JournalInv, Readable, NEW d \in Guests PROVE Recoverable[d] \in may[d]
  BY DEF KeepsPromise
<1>1. CASE kafd = NoFile
  BY <1>1 DEF JournalInv, LoadedInv, FirstInv, Recoverable, Guests, Doc
<1>2. CASE kafd \in Worlds
  BY <1>2, RecoveryKept DEF Promising
<1> QED BY <1>1, <1>2 DEF JournalInv, LoadedInv, BaseInv, DiskInv, Readable

LEMMA PromiseKeptNext == KeepsPromise'
BY PromiseKept, PTL

(* Once a save or a compact has succeeded, a restart loads what it saved. *)
SavedNow ==
  JournalInv /\ Readable /\ pc \in {"check", "idle"} /\ ~ full
    => \A d \in Guests : Recoverable[d] = keys[d]

LEMMA SavedIs == SavedNow
<1> SUFFICES ASSUME JournalInv, Readable, pc \in {"check", "idle"}, ~ full
             PROVE  \A d \in Guests : Recoverable[d] = keys[d]
  BY DEF SavedNow
<1>1. Up
  BY DEF JournalInv, LoadedInv, BaseInv, SaveInv, Readable, Up
<1>2. kafd \in Worlds
  BY <1>1, UpReads DEF JournalInv, LoadedInv, FirstInv
<1>3. \A d \in Guests : Content(Len(kafs))[d] = keys[d]
  BY <1>1, <1>2 DEF JournalInv, LoadedInv, KeysInv
<1> QED BY <1>1, <1>2, <1>3, RecoveryKept

LEMMA SavedIsNext == SavedNow'
BY SavedIs, PTL

LEMMA SameWorlds ==
  /\ Durable!AtomId = AtomId /\ Durable!Doc = Doc /\ Durable!Guests = Guests
  /\ Durable!Empty = Empty
  /\ \A w : Durable!Present(w) = Present(w)
<1>1. Durable!AtomId = AtomId
  BY DEF Durable!AtomId, AtomId
<1>2. Durable!Doc = Doc /\ Durable!Guests = Guests
  BY <1>1 DEF Durable!Doc, Doc, Durable!Guests, Guests
<1>3. Durable!Empty = Empty
  BY <1>2 DEF Durable!Empty, Empty
<1>4. \A w : Durable!Present(w) = Present(w)
  BY <1>1 DEF Durable!Present, Present
<1> QED BY <1>1, <1>2, <1>3, <1>4

LEMMA SameChanges == StoreChanges => Durable!StoreChanges
<1>1. \A v : NewAtom(v) => Durable!NewAtom(v)
  BY SameWorlds DEF NewAtom, Durable!NewAtom
<1>2. \A a, v : SetAtom(a, v) => Durable!SetAtom(a, v)
  BY SameWorlds DEF SetAtom, Durable!SetAtom
<1>3. \A a : DropAtom(a) => Durable!DropAtom(a)
  BY SameWorlds DEF DropAtom, Durable!DropAtom
<1>4. \A b : NewBubble(b) => Durable!NewBubble(b)
  BY DEF NewBubble, Durable!NewBubble
<1>5. \A b, x : Rebind(b, x) => Durable!Rebind(b, x)
  BY SameWorlds DEF Rebind, Durable!Rebind
<1> QED BY <1>1, <1>2, <1>3, <1>4, <1>5, SameWorlds DEF StoreChanges, Durable!StoreChanges

LEMMA InitImplements == Init => Durable!DurableInit
BY SameWorlds DEF Init, Recoverable, Durable!DurableInit

(* Loading the world changes nothing of what a restart would load. *)
LEMMA LoadLeaves ==
  ASSUME JournalInv, JournalInv', LoadWorld PROVE Recoverable' = Recoverable
<1>1. BaseInv /\ BaseInv' /\ WholeInv' /\ kafd \in Worlds /\ kafd' = kafd
  BY DEF JournalInv, LoadedInv, LoadWorld, BaseInv, DiskInv
<1>2. kafs' = SubSeq(kafs, 1, IntactLen) /\ synced' = IntactLen
  BY DEF LoadWorld
<1>3. Len(kafs') = IntactLen /\ \A i \in 1 .. IntactLen : kafs'[i] = kafs[i]
  BY <1>1, <1>2, CutTyped DEF BaseInv
<1>4. Whole(kafs, IntactLen) /\ IntactLen \in Nat
  BY <1>1, JournalFacts
<1>5. Whole(kafs', Len(kafs')) /\ Len(kafs') \in 0 .. Len(kafs')
  BY <1>3, <1>4 DEF Whole
<1>6. IntactLen' = IntactLen
  <2>1. kafs' \in Journals
    BY <1>1 DEF BaseInv, DiskInv
  <2>2. Len(kafs') = IntactLen'
    BY <1>5, <2>1, JournalReadsNext DEF JournalRead
  <2> QED BY <1>3, <2>2
<1>7. UpTo(kafd', kafs', IntactLen') = UpTo(kafd, kafs, IntactLen)
  BY <1>1, <1>3, <1>4, <1>6, UpToPrefix
<1>8. Recoverable = Installed(UpTo(kafd, kafs, IntactLen))
  BY <1>1, RestoreGood DEF Restorable, BaseInv, DiskInv
<1>9. Recoverable' = Installed(UpTo(kafd', kafs', IntactLen'))
  BY <1>1, RestoreGoodNext DEF Restorable, BaseInv, DiskInv
<1> QED BY <1>7, <1>8, <1>9

LEMMA StepImplements ==
  ASSUME Reliable, ~ MayCorrupt, JournalInv, JournalInv', Readable, Readable', [Next]_vars
  PROVE  [Durable!DurableNext]_<<mem, Recoverable, may>>
<1> USE DEF files, process
<1>1. BaseInv /\ FirstInv /\ WholeInv /\ OrderInv /\ FirstInv'
  BY DEF JournalInv, LoadedInv
<1>2. Durable!Promised
  BY PromiseKeptNext, SameWorlds DEF KeepsPromise, Durable!Promised
<1>3. ASSUME UNCHANGED <<kafd, kafs>> PROVE Recoverable' = Recoverable
  BY <1>3 DEF Recoverable, Replayed, Intact
<1>4. CASE LoadNothing \/ UNCHANGED vars
  BY <1>3, <1>4 DEF LoadNothing, vars
<1>5. CASE LoadWorld
  <2>1. Good(Recoverable)
    BY <1>1, <1>5, RestoreGood DEF Restorable, BaseInv, DiskInv, LoadWorld
  <2>2. \A a \in Durable!Present(Recoverable) : a < Recoverable[Native]
    BY <2>1, SameWorlds DEF Good
  <2>3. mem' = Recoverable /\ may' = [d \in Durable!Doc |-> {Recoverable[d]}]
    BY <1>5, SameWorlds DEF LoadWorld, Settled
  <2>4. Recoverable' = Recoverable
    BY <1>5, LoadLeaves
  <2>5. Durable!Restart
    BY <2>2, <2>3, <2>4 DEF Durable!Restart
  <2> QED BY <2>5 DEF Durable!DurableNext
<1>6. CASE SaveBegin \/ WriteSnapshot
  <2>1. UNCHANGED mem /\ may' = [d \in Durable!Doc |-> may[d] \cup {mem[d]}]
    BY <1>6, SameWorlds DEF SaveBegin, WriteSnapshot, Attempt
  <2>2. Durable!Try
    BY <1>2, <2>1 DEF Durable!Try
  <2> QED BY <2>2 DEF Durable!DurableNext
<1>7. CASE AppendFrame
  BY <1>2, <1>7 DEF AppendFrame, Durable!Write, Durable!DurableNext
<1>8. CASE Commit \/ SaveEnd \/ ResetJournal
  <2>1. /\ UNCHANGED mem /\ keys' = target /\ Settled(target)
        /\ pc' \in {"check", "idle"} /\ pc \in {"append", "check", "reset"}
    BY <1>8 DEF Commit, SaveEnd, ResetJournal
  <2>2. target = mem /\ Up
    BY <1>1, <2>1 DEF BaseInv, SaveInv, Up
  <2>3. ~ full'
    <3>1. CASE Commit \/ SaveEnd
      BY <1>1, <2>2, <3>1 DEF Commit, SaveEnd, FirstInv
    <3>2. CASE ResetJournal
      BY <3>2 DEF ResetJournal
    <3> QED BY <1>8, <3>1, <3>2
  <2>4. \A d \in Guests : Recoverable'[d] = mem[d]
    BY <2>1, <2>2, <2>3, SavedIsNext DEF SavedNow
  <2>5. may' = [d \in Doc |-> {mem[d]}]
    BY <2>1, <2>2 DEF Settled
  <2>6. Durable!Acknowledge
    BY <2>1, <2>4, <2>5, SameWorlds DEF Durable!Acknowledge
  <2> QED BY <2>6 DEF Durable!DurableNext
<1>9. CASE Change
  <2>1. Durable!StoreChanges /\ UNCHANGED <<kafd, kafs, may>>
    BY <1>9, SameChanges DEF Change
  <2>2. Durable!Change
    BY <1>3, <2>1 DEF Durable!Change
  <2> QED BY <2>2 DEF Durable!DurableNext
<1>10. CASE Crash
  <2>1. mem' = Durable!Empty /\ UNCHANGED may
    BY <1>10, SameWorlds DEF Crash
  <2>2. Durable!Die
    BY <1>2, <2>1 DEF Durable!Die
  <2> QED BY <2>2 DEF Durable!DurableNext
<1>11. ~ LoadFails /\ ~ Corrupt
  BY DEF LoadFails, Corrupt, Readable
<1> QED BY <1>4, <1>5, <1>6, <1>7, <1>8, <1>9, <1>10, <1>11, NothingFails DEF Next

(* Through power cuts at every step a restart loads, for every document,   *)
(* what the last successful save wrote or a save tried since; a save that  *)
(* succeeds leaves one content (WorldLog over Journal: world.rs, flow.rs). *)
THEOREM Crashproof ==
  ASSUME Reliable, ~ MayCorrupt PROVE Spec => ImplementsDurable
<1>1. JournalInv /\ JournalInv' /\ Readable /\ Readable' /\ [Next]_vars
        => [Durable!DurableNext]_<<mem, Recoverable, may>>
  BY StepImplements
<1> QED BY <1>1, InitImplements, Journal, StaysReadable, PTL
        DEF Spec, ImplementsDurable, Durable!DurableSpec
=============================================================================
