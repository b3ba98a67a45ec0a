----------------------------- MODULE HostProofs -----------------------------
(***************************************************************************)
(* What the names of LuaHost lead to, for any number of names and ids,     *)
(* ticks between the halves of a create, deletions and rollbacks.          *)
(***************************************************************************)
EXTENDS LuaHost, FiniteSetTheorems, TLAPS

USE NativeAssumption DEF Id

-----------------------------------------------------------------------------
(* Least and greatest ids *)

LEMMA Least ==
  ASSUME NEW S \in SUBSET Nat, S # {} PROVE \E m \in S : \A x \in S : m <= x
<1>1. \E m \in S : \A x \in S : <<x, m>> \notin OpToRel(<, Nat)
  BY NatLessThanWellFounded, WFMin, Zenon
<1>2. \A x, m \in Nat : <<x, m>> \in OpToRel(<, Nat) <=> x < m
  BY Zenon DEF OpToRel
<1>3. \E m \in S : \A x \in S : ~ x < m
  BY <1>1, <1>2, Zenon
<1> QED BY <1>3

LEMMA MinMember == ASSUME NEW S \in SUBSET Id, S # {} PROVE Min(S) \in S
<1>1. \E m \in S : \A x \in S : m <= x
  BY Least
<1> QED BY <1>1 DEF Min

LEMMA MaxMember == ASSUME NEW S \in SUBSET Id, S # {} PROVE Max(S) \in S
<1> DEFINE T == {k \in Id : \E s \in S : k = MaxId - s}
<1>1. T # {} /\ T \in SUBSET Nat
  <2>1. PICK s \in S : TRUE
    OBVIOUS
  <2>2. MaxId - s \in T
    BY <2>1
  <2>3. T \in SUBSET Nat
    OBVIOUS
  <2> HIDE DEF T
  <2> QED BY <2>2, <2>3
<1>2. PICK k \in T : \A x \in T : k <= x
  BY <1>1, Least
<1>3. \A y \in S : MaxId - k >= y
  <2> TAKE y \in S
  <2>1. MaxId - y \in T
    OBVIOUS
  <2> QED BY <1>2, <2>1
<1>4. MaxId - k \in S
  BY <1>2
<1>5. \E m \in S : \A y \in S : m >= y
  BY <1>3, <1>4
<1> QED BY <1>5 DEF Max

-----------------------------------------------------------------------------
(* The inductive invariant *)

Snap(a) == saved # None /\ a \in DOMAIN saved

(* Ids are handed out in order and never again; an atom that is present    *)
(* and in the snapshot was made for the name the snapshot says.            *)
CoreInv ==
  /\ core \in SUBSET Id /\ nextId \in 0 .. MaxId + 1
  /\ wrap \in [core -> Name \cup {None}]
  /\ \A a \in core : a < nextId
  /\ saved # None =>
       /\ saved \in Wrappers
       /\ \A a \in DOMAIN saved : a \in Id /\ a < nextId /\ (a \in core => wrap[a] = saved[a])

(* The ids a name may lead to: given out before, and if the atom is here,  *)
(* or can come back from the snapshot, it was made for the name.           *)
Own(n) ==
  {a \in Id : a < nextId /\ (a \in core => wrap[a] = n) /\ (Snap(a) => saved[a] = n)}

Maps == {map \in [Name -> Id \cup {None}] : \A n \in Name : map[n] \in Own(n) \cup {None}}

JobInv ==
  \/ job = NoJob
  \/ job \in [name : Name, id : Id, step : {"made", "named"}] /\ job.id \in Own(job.name)

(* What is looked up by number may be another's: proxies and bindings.     *)
PlainMaps ==
  {map \in [Name -> Id \cup {None}] : \A n \in Plain : map[n] \in Own(n) \cup {None}}

NamesInv == logical \in Maps /\ alias \in Maps /\ proxy \in PlainMaps /\ JobInv

(* What the core has bound is present and Python has it; what only Python  *)
(* has bound is gone and no rollback brings it back.                       *)
BoundInv ==
  /\ rooted \in [Name -> Id \cup {None}] /\ pyBound \in PlainMaps
  /\ \A n \in Name : pyBound[n] # None => pyBound[n] < nextId
  /\ \A n \in Name : rooted[n] # None => rooted[n] \in core /\ pyBound[n] = rooted[n]
  /\ \A n \in Name : pyBound[n] \in core => rooted[n] = pyBound[n]
  /\ \A n \in Name : pyBound[n] # None /\ pyBound[n] \notin core => ~ Snap(pyBound[n])

HistoryInv == phi \in SUBSET Name /\ rolledBack \in BOOLEAN /\ doubled \in SUBSET Name

(* Before a rollback an entry is stale only between the two halves of a    *)
(* create, and then it is that create's.                                   *)
FreshNames ==
  \A n \in Name : logical[n] # None /\ logical[n] \notin core =>
    job.step = "named" /\ job.name = n /\ logical[n] = job.id

(* The one atom of a name is the one being made, or the one the alias has; *)
(* a name that is not plain has none without an alias.                     *)
OneAtom(n) ==
  /\ \A a, b \in Requested(n) : a = b
  /\ job.name = n => Requested(n) \subseteq {job.id}
  /\ job.name # n /\ alias[n] # None => Requested(n) \subseteq {alias[n]}
  /\ job.name # n /\ alias[n] = None /\ n \notin Plain => Requested(n) = {}

OneInv == rolledBack \/ (FreshNames /\ \A n \in Name \ doubled : OneAtom(n))

HostInv == CoreInv /\ NamesInv /\ BoundInv /\ HistoryInv /\ OneInv

-----------------------------------------------------------------------------
(* Looking names up *)

LEMMA NoneApart == None \notin Id /\ \A n \in Name : n # None
  OBVIOUS

LEMMA RequestedFacts ==
  ASSUME CoreInv, NEW n \in Name
  PROVE  Requested(n) \in SUBSET core /\ Requested(n) \subseteq Own(n)
BY DEF CoreInv, Requested, Own, Snap

LEMMA EntryFacts ==
  ASSUME CoreInv, logical \in Maps, NEW n \in Name
  PROVE  /\ Entry(n) \in Own(n) \cup {None}
         /\ logical[n] # None => Entry(n) = logical[n]
         /\ logical[n] = None /\ Requested(n) # {} => Entry(n) \in Requested(n)
         /\ logical[n] = None /\ Requested(n) = {} => Entry(n) = None
<1>1. Requested(n) \in SUBSET Id /\ Requested(n) \subseteq Own(n)
  BY RequestedFacts DEF CoreInv
<1>2. Requested(n) # {} => Min(Requested(n)) \in Requested(n)
  BY <1>1, MinMember
<1>3. logical[n] \in Own(n) \cup {None}
  BY DEF Maps
<1> QED BY <1>1, <1>2, <1>3 DEF Entry

LEMMA PlainFacts ==
  ASSUME NEW n \in Plain PROVE n \in Name /\ n \notin Nat /\ LogicalReal(n) = Entry(n)
BY DEF Plain, Looked, LogicalReal

LEMMA ResolvedFacts ==
  ASSUME CoreInv, logical \in Maps, alias \in Maps, NEW n \in Name
  PROVE  /\ n \in Plain => Resolved(n) \in Own(n) \cup {None}
         /\ Found(n) => Resolved(n) \in core
<1>1. alias[n] \in Own(n) \cup {None}
  BY DEF Maps
<1>2. n \in Plain => Resolved(n) \in Own(n) \cup {None}
  BY <1>1, EntryFacts, PlainFacts DEF Resolved
<1> QED BY <1>2 DEF Found, Present

LEMMA OwnIds == \A n : Own(n) \in SUBSET Id
  BY DEF Own

(* Every way a map is written keeps it a map of own atoms.                 *)
LEMMA MapsExcept ==
  ASSUME NEW map \in Maps, NEW n \in Name, NEW a \in Own(n) \cup {None}
  PROVE  [map EXCEPT ![n] = a] \in Maps
BY OwnIds DEF Maps

LEMMA PlainMapsExcept ==
  ASSUME NEW map \in PlainMaps, NEW n \in Name, NEW a \in Id \cup {None},
         n \in Plain => a \in Own(n) \cup {None}
  PROVE  [map EXCEPT ![n] = a] \in PlainMaps
BY DEF PlainMaps, Plain

LEMMA PlainMapsWithout ==
  ASSUME NEW map \in PlainMaps, NEW gone PROVE Without(map, gone) \in PlainMaps
BY DEF PlainMaps, Without, Plain

LEMMA MapsWithout ==
  ASSUME NEW map \in Maps, NEW gone PROVE Without(map, gone) \in Maps
BY DEF Maps, Without

LEMMA MapsGet == ASSUME NEW map \in Maps, NEW a PROVE GetMap(map, a) \in Maps
BY MapsWithout DEF GetMap

LEMMA MapsLookedUp ==
  ASSUME CoreInv, logical \in Maps, NEW map \in Maps, NEW n \in Name
  PROVE  LookedUp(map, n) \in Maps
<1>1. CASE Looked(n)
  <2>1. PICK s \in Name : s = Reads[n]
    BY <1>1 DEF Looked
  <2>2. [map EXCEPT ![s] = Entry(s)] \in Maps
    BY EntryFacts, MapsExcept
  <2> QED BY <1>1, <2>1, <2>2 DEF LookedUp
<1> QED BY <1>1 DEF LookedUp

LEMMA MapsAfter ==
  ASSUME CoreInv, logical \in Maps, NEW map \in Maps, NEW n \in Name
  PROVE  AfterHas(map, n) \in Maps /\ AfterGet(n) \in Maps
<1>1. AfterHas(map, n) \in Maps /\ AfterHas(logical, n) \in Maps
  BY MapsLookedUp DEF AfterHas
<1> QED BY <1>1, MapsGet DEF AfterGet

-----------------------------------------------------------------------------
(* What a step makes of the atoms *)

(* What a name owned it still owns. *)
Evolves == \A n \in Name : Own(n) \subseteq Own(n)'

LEMMA MapsEvolve == ASSUME Evolves, NEW map \in Maps PROVE map \in Maps'
BY DEF Evolves, Maps

LEMMA PlainMapsEvolve == ASSUME Evolves, NEW map \in PlainMaps PROVE map \in PlainMaps'
BY DEF Evolves, PlainMaps, Plain

LEMMA EnteredMaps ==
  ASSUME Evolves, logical \in Maps, NEW n \in Name, NEW a, a \in Own(n)'
  PROVE  Entered(n, a) \in Maps'
<1>1. logical \in Maps' /\ a \in Id
  BY MapsEvolve DEF Own
<1> QED BY <1>1 DEF Entered, Maps

LEMMA Drops ==
  ASSUME CoreInv, core' \in SUBSET core, wrap' = [a \in core' |-> wrap[a]],
         UNCHANGED <<nextId, saved>>
  PROVE  CoreInv' /\ Evolves
BY DEF CoreInv, Evolves, Own, Snap

LEMMA Stays == ASSUME CoreInv, UNCHANGED <<core, wrap, nextId, saved>> PROVE CoreInv' /\ Evolves
BY DEF CoreInv, Evolves, Own, Snap

LEMMA Snapshots ==
  ASSUME CoreInv, UNCHANGED <<core, wrap, nextId>>, saved' = wrap
  PROVE  CoreInv' /\ Evolves
<1>1. wrap \in Wrappers /\ DOMAIN wrap = core
  BY DEF CoreInv, Wrappers
<1> QED BY <1>1 DEF CoreInv, Evolves, Own, Snap

LEMMA Grows ==
  ASSUME CoreInv, NEW n \in Name, NEW gone, nextId <= MaxId,
         core' = (core \ gone) \cup {nextId},
         wrap' = [a \in (DOMAIN wrap \ gone) \cup {nextId} |->
                    IF a = nextId THEN n ELSE wrap[a]],
         nextId' = nextId + 1, saved' = saved
  PROVE  CoreInv' /\ Evolves /\ nextId \in Own(n)'
<1>1. nextId \notin core /\ ~ Snap(nextId)
  BY DEF CoreInv, Snap
<1>2. CoreInv'
  <2>1. core' \in SUBSET Id /\ nextId' \in 0 .. MaxId + 1 /\ \A a \in core' : a < nextId'
    <3>1. nextId \in Id /\ nextId' \in 0 .. MaxId + 1
      BY DEF CoreInv
    <3>2. \A a \in core' : a \in core \/ a = nextId
      OBVIOUS
    <3>3. \A a \in core : a \in Id /\ a < nextId
      BY DEF CoreInv
    <3> QED BY <3>1, <3>2, <3>3
  <2>2. wrap' \in [core' -> Name \cup {None}]
    <3>1. wrap' = [a \in core' |-> IF a = nextId THEN n ELSE wrap[a]]
      BY DEF CoreInv
    <3>2. \A a \in core' : a = nextId \/ wrap[a] \in Name \cup {None}
      BY DEF CoreInv
    <3> QED BY <3>1, <3>2
  <2>3. saved # None => \A a \in DOMAIN saved :
          a \in Id /\ a < nextId' /\ (a \in core' => wrap'[a] = saved[a])
    BY <1>1 DEF CoreInv, Snap
  <2> QED BY <2>1, <2>2, <2>3 DEF CoreInv
<1>3. Evolves
  BY <1>1 DEF CoreInv, Evolves, Own, Snap
<1>4. nextId \in Own(n)'
  BY <1>1 DEF CoreInv, Own, Snap
<1> QED BY <1>2, <1>3, <1>4

LEMMA Restores == ASSUME CoreInv, RestoreAtoms PROVE CoreInv' /\ Evolves
<1>1. /\ saved # None /\ core' = DOMAIN saved /\ wrap' = saved
      /\ nextId' = nextId /\ saved' = saved
  BY DEF RestoreAtoms
<1>2. saved \in [DOMAIN saved -> Name \cup {None}] /\ DOMAIN saved \in SUBSET Id
  BY <1>1 DEF CoreInv, Wrappers
<1> QED BY <1>1, <1>2 DEF CoreInv, Evolves, Own, Snap

(* Atoms go, and the bindings to them with them; a new atom comes.         *)
LEMMA BoundKept ==
  ASSUME CoreInv, BoundInv, Evolves, NEW gone,
         core \ gone \subseteq core',
         \A a \in core' : a \in core \ gone \/ a = nextId,
         rooted' = Without(rooted, gone), pyBound' = Without(pyBound, gone),
         saved' = saved, nextId' \in {nextId, nextId + 1}
  PROVE  BoundInv'
<1>1. pyBound' \in PlainMaps'
  BY PlainMapsWithout, PlainMapsEvolve DEF BoundInv
<1>2. \A n \in Name : pyBound[n] # None => pyBound[n] \in Id /\ pyBound[n] < nextId
  BY DEF BoundInv, PlainMaps
<1>3. nextId \in Nat /\ nextId' \in Nat /\ nextId <= nextId'
  BY DEF CoreInv
<1> QED BY <1>1, <1>2, <1>3 DEF BoundInv, Without, Snap

LEMMA WithoutNothing ==
  ASSUME NEW map \in [Name -> Id \cup {None}], NEW gone,
         \A n \in Name : map[n] \notin gone
  PROVE  Without(map, gone) = map
BY DEF Without

LEMMA BoundStays ==
  ASSUME CoreInv, BoundInv, Evolves, UNCHANGED <<rooted, pyBound, saved>>,
         core' = core \/ core' = core \cup {nextId}, nextId' \in {nextId, nextId + 1}
  PROVE  BoundInv'
<1>1. rooted' = Without(rooted, {}) /\ pyBound' = Without(pyBound, {})
  BY WithoutNothing DEF BoundInv, PlainMaps
<1> QED BY <1>1, BoundKept

-----------------------------------------------------------------------------
(* Names between two calls *)

(* The atoms that a map leads to are among these ids.                      *)
Within(map, ids) == \A n \in Name : map[n] # None => map[n] \in ids

LEMMA IdleLive == ASSUME Idle, FreshNames PROVE Within(logical, core)
BY DEF Idle, NoJob, FreshNames, Within

LEMMA LiveAfter ==
  ASSUME CoreInv, logical \in Maps, Within(logical, core), NEW map \in Maps, Within(map, core), NEW n \in Name
  PROVE  Within(AfterHas(map, n), core) /\ Within(AfterGet(n), core)
<1>1. \A s \in Name : Entry(s) \in core \cup {None}
  BY EntryFacts, RequestedFacts DEF Within
<1>2. \A other \in Maps : Within(other, core) => Within(AfterHas(other, n), core)
  BY <1>1 DEF Within, Maps, AfterHas, LookedUp, Looked
<1>3. Within(AfterHas(logical, n), core) /\ AfterHas(logical, n) \in Maps
  BY <1>2, MapsAfter
<1>4. Within(AfterGet(n), core)
  BY <1>3 DEF AfterGet, GetMap, Without, Within
<1> QED BY <1>2, <1>4

(* The only atom of a name is the one the host finds.                      *)
LEMMA FoundAtom ==
  ASSUME CoreInv, NamesInv, Idle, FreshNames, NEW n \in Name, OneAtom(n)
  PROVE  /\ Found(n) => Requested(n) \subseteq {Resolved(n)}
         /\ ~ Found(n) => Requested(n) = {}
<1>1. job.name # n
  BY DEF Idle, NoJob
<1>2. Requested(n) \in SUBSET core
  BY RequestedFacts
<1>3. CASE alias[n] # None
  BY <1>1, <1>2, <1>3 DEF OneAtom, Found, Resolved, Present
<1>4. CASE alias[n] = None /\ n \in Plain
  <2>1. Resolved(n) = Entry(n)
    BY <1>4, PlainFacts DEF Resolved
  <2>2. Entry(n) \in core => Entry(n) \in Requested(n)
    <3>1. Entry(n) \in Own(n) \cup {None}
      BY EntryFacts DEF NamesInv
    <3>2. DOMAIN wrap = core
      BY DEF CoreInv
    <3>3. None \notin core
      BY NoneApart DEF CoreInv
    <3> QED BY <3>1, <3>2, <3>3 DEF Own, Requested
  <2>3. Found(n) => Entry(n) \in Requested(n)
    BY <2>1, <2>2 DEF Found, Present
  <2>4. ~ Found(n) => Requested(n) = {}
    <3>1. Within(logical, core)
      BY IdleLive
    <3>2. Entry(n) # None => Entry(n) \in core
      BY <1>2, <3>1, EntryFacts DEF Within, NamesInv
    <3>3. Requested(n) # {} => Entry(n) # None
      <4>1. None \notin Requested(n)
        BY <1>2, NoneApart DEF CoreInv
      <4>2. /\ logical[n] # None => Entry(n) = logical[n]
            /\ logical[n] = None /\ Requested(n) # {} => Entry(n) \in Requested(n)
        BY EntryFacts DEF NamesInv
      <4> QED BY <4>1, <4>2
    <3> QED BY <2>1, <3>2, <3>3 DEF Found, Present
  <2> QED BY <2>1, <2>3, <2>4 DEF OneAtom
<1>5. CASE alias[n] = None /\ n \notin Plain
  BY <1>1, <1>5 DEF OneAtom
<1> QED BY <1>3, <1>4, <1>5

(* Untracking a name, and the proxy made for it.                           *)
LEMMA UntrackedMaps ==
  ASSUME alias \in Maps, proxy \in PlainMaps, NEW n \in Name, Untrack(n)
  PROVE  /\ alias' \in Maps /\ proxy' \in PlainMaps /\ phi' = phi \ {n}
         /\ \A m \in Name \ {n} : alias'[m] = alias[m]
         /\ alias'[n] = None
<1>1. alias' = [alias EXCEPT ![n] = None] /\ proxy' = [proxy EXCEPT ![n] = None]
  BY DEF Untrack
<1>2. alias' \in Maps /\ proxy' \in PlainMaps
  BY <1>1, MapsExcept, PlainMapsExcept
<1> QED BY <1>1, <1>2 DEF Untrack, Maps

LEMMA ProxyOwn ==
  ASSUME proxy \in PlainMaps, NEW n \in Name, NEW a \in Id, n \in Plain => a \in Own(n)
  PROVE  [proxy EXCEPT ![n] = ProxyFor(n, a)] \in PlainMaps
<1>1. ProxyFor(n, a) \in Id \cup {None} /\ (n \in Plain => ProxyFor(n, a) \in Own(n) \cup {None})
  BY DEF ProxyFor, PlainMaps
<1> QED BY <1>1, PlainMapsExcept

(* What a list shows a plain name's proxy for is its alias's atom.         *)
LEMMA ShownOwn ==
  ASSUME CoreInv, NEW kept \in PlainMaps, NEW aliases \in Maps, NEW rows \in SUBSET core,
         NEW map \in Proxies(kept, aliases, rows)
  PROVE  map \in PlainMaps
<1> DEFINE choice == [n \in Name |-> ProxyShown(n, kept, aliases, rows)]
<1>1. ASSUME NEW n \in Name
      PROVE  /\ ProxyShown(n, kept, aliases, rows) \subseteq Id \cup {None}
             /\ n \in Plain => ProxyShown(n, kept, aliases, rows) \subseteq Own(n) \cup {None}
  <2>1. kept[n] \in Id \cup {None} /\ aliases[n] \in Own(n) \cup {None}
    BY DEF PlainMaps, Maps
  <2>2. rows \subseteq Id /\ rows \subseteq Nat
    BY DEF CoreInv
  <2>3. n \in Plain => kept[n] \in Own(n) \cup {None} /\ n \notin rows
    BY <2>2, PlainFacts DEF PlainMaps
  <2> QED BY <2>1, <2>2, <2>3 DEF ProxyShown
<1>2. /\ map \in [Name -> UNION {choice[n] : n \in Name}]
      /\ \A n \in Name : map[n] \in ProxyShown(n, kept, aliases, rows)
  BY DEF Proxies
<1>3. map \in [Name -> Id \cup {None}]
  <2> HIDE DEF choice
  <2> QED BY <1>1, <1>2
<1> QED BY <1>1, <1>2, <1>3, PlainFacts DEF PlainMaps

-----------------------------------------------------------------------------
(* The Store's own steps *)

(* The host's maps and a job are as they were.                             *)
LEMMA HostKept ==
  ASSUME NamesInv, Evolves, UNCHANGED host, logical' \in Maps' PROVE NamesInv'
<1>1. alias' \in Maps' /\ proxy' \in PlainMaps'
  BY MapsEvolve, PlainMapsEvolve DEF NamesInv, host
<1>2. JobInv'
  BY DEF NamesInv, JobInv, Evolves, host
<1> QED BY <1>1, <1>2 DEF NamesInv

LEMMA TickKeeps ==
  ASSUME HostInv, Tick, UNCHANGED <<host, rolledBack, doubled>> PROVE HostInv'
<1> USE DEF HostInv
<1>1. PICK reaped \in SUBSET (core \ {rooted[n] : n \in Name}) :
        /\ core' = core \ reaped
        /\ SyncAfterGc(core \ reaped)
        /\ UNCHANGED <<nextId, rooted, saved>>
  BY DEF Tick
<1>2. DOMAIN wrap = core
  BY DEF CoreInv
<1>3. wrap' = [a \in core' |-> wrap[a]] /\ logical' = Without(logical, reaped)
  <2>1. core \cap (core \ reaped) = core' /\ core \ (core \ reaped) = reaped
    BY <1>1
  <2> QED BY <1>1, <1>2, <2>1 DEF SyncAfterGc
<1>4. CoreInv' /\ Evolves
  BY <1>1, <1>3, Drops
<1>5. NamesInv'
  BY <1>3, <1>4, MapsWithout, MapsEvolve, HostKept DEF NamesInv
<1>6. BoundInv'
  <2> DEFINE gone == Id \ (core \ reaped)
  <2>1. Without(rooted, gone) = rooted
    BY <1>1, WithoutNothing DEF BoundInv
  <2>2. pyBound' = Without(pyBound, gone)
    BY <1>1 DEF SyncAfterGc, PurgePy
  <2>3. core \ gone \subseteq core' /\ \A a \in core' : a \in core \ gone
    BY <1>1 DEF CoreInv
  <2> HIDE DEF gone
  <2> QED BY <1>1, <1>4, <2>1, <2>2, <2>3, BoundKept
<1>7. OneInv'
  <2>1. \A n \in Name : Requested(n)' \subseteq Requested(n)
    BY <1>1, <1>2, <1>3 DEF Requested
  <2>2. FreshNames => FreshNames'
    BY <1>1, <1>3 DEF FreshNames, Without, host
  <2>3. \A n \in Name : OneAtom(n) => OneAtom(n)'
    BY <2>1 DEF OneAtom, host
  <2> QED BY <2>2, <2>3 DEF OneInv
<1> QED BY <1>4, <1>5, <1>6, <1>7 DEF HistoryInv, host

LEMMA UnbindKeeps ==
  ASSUME HostInv, NEW n \in Name, Unbind(n), UNCHANGED <<host, rolledBack, doubled>>
  PROVE  HostInv'
<1> USE DEF HostInv
<1>1. CoreInv' /\ Evolves
  BY Stays DEF Unbind
<1>2. NamesInv'
  BY <1>1, HostKept, MapsEvolve DEF Unbind, NamesInv
<1>3. BoundInv'
  <2>1. pyBound' \in PlainMaps'
    BY <1>1, PlainMapsExcept, PlainMapsEvolve DEF Unbind, BoundInv
  <2> QED BY <2>1 DEF Unbind, BoundInv, Snap, PlainMaps
<1>4. OneInv'
  BY DEF Unbind, OneInv, FreshNames, OneAtom, Requested, host
<1> QED BY <1>1, <1>2, <1>3, <1>4 DEF HistoryInv, host

LEMMA SnapshotKeeps ==
  ASSUME HostInv, SnapshotAtoms, UNCHANGED <<host, rolledBack, doubled>> PROVE HostInv'
<1> USE DEF HostInv
<1>1. CoreInv' /\ Evolves
  BY Snapshots DEF SnapshotAtoms
<1>2. NamesInv'
  BY <1>1, HostKept, MapsEvolve DEF SnapshotAtoms, NamesInv
<1>3. BoundInv'
  <2>1. pyBound' \in PlainMaps'
    BY <1>1, PlainMapsEvolve DEF SnapshotAtoms, BoundInv
  <2>2. DOMAIN wrap = core
    BY DEF CoreInv
  <2> QED BY <2>1, <2>2 DEF SnapshotAtoms, BoundInv, Snap
<1>4. OneInv'
  BY DEF SnapshotAtoms, OneInv, FreshNames, OneAtom, Requested, host
<1> QED BY <1>1, <1>2, <1>3, <1>4 DEF HistoryInv, host

LEMMA RestoreKeeps ==
  ASSUME HostInv, RestoreAtoms, rolledBack' = TRUE, UNCHANGED <<host, doubled>>
  PROVE  HostInv'
<1> USE DEF HostInv
<1>1. CoreInv' /\ Evolves
  BY Restores
<1>2. NamesInv'
  BY <1>1, HostKept, MapsEvolve DEF RestoreAtoms, NamesInv
<1>3. BoundInv'
  <2>1. pyBound' \in PlainMaps'
    BY <1>1, PlainMapsEvolve DEF RestoreAtoms, BoundInv
  <2>2. /\ saved # None /\ core' = DOMAIN saved /\ UNCHANGED <<pyBound, saved, nextId>>
        /\ rooted' = Without(rooted, core \ DOMAIN saved)
    BY DEF RestoreAtoms
  <2> QED BY <2>1, <2>2 DEF BoundInv, Snap, Without
<1> QED BY <1>1, <1>2, <1>3 DEF HistoryInv, OneInv, host

-----------------------------------------------------------------------------
(* Atoms are made *)

(* Names of atoms, once some are gone and one is made for n.               *)
LEMMA NewRequested ==
  ASSUME CoreInv, NEW n \in Name, NEW gone,
         wrap' = [a \in (DOMAIN wrap \ gone) \cup {nextId} |->
                    IF a = nextId THEN n ELSE wrap[a]]
  PROVE  /\ Requested(n)' = (Requested(n) \ gone) \cup {nextId}
         /\ \A m \in Name \ {n} : Requested(m)' = Requested(m) \ gone
<1>1. nextId \notin DOMAIN wrap
  BY DEF CoreInv
<1> QED BY <1>1 DEF Requested

LEMMA AtomNewGrows ==
  ASSUME CoreInv, NEW n \in Name, AtomNew(n), saved' = saved
  PROVE  /\ CoreInv' /\ Evolves /\ nextId \in Own(n)' /\ core' = core \cup {nextId}
         /\ Requested(n)' = Requested(n) \cup {nextId}
         /\ \A m \in Name \ {n} : Requested(m)' = Requested(m)
         /\ nextId' = nextId + 1
<1>1. /\ core' = (core \ {}) \cup {nextId} /\ nextId <= MaxId /\ nextId' = nextId + 1
      /\ wrap' = [a \in (DOMAIN wrap \ {}) \cup {nextId} |->
                    IF a = nextId THEN n ELSE wrap[a]]
  BY DEF AtomNew, FreshId
<1>2. CoreInv' /\ Evolves /\ nextId \in Own(n)'
  BY <1>1, Grows
<1>3. /\ Requested(n)' = (Requested(n) \ {}) \cup {nextId}
      /\ \A m \in Name \ {n} : Requested(m)' = Requested(m) \ {}
  BY <1>1, NewRequested
<1> QED BY <1>1, <1>2, <1>3

LEMMA DirectKeeps ==
  ASSUME HostInv, NEW n \in Name, CreateDirectly(n), Idle, UNCHANGED <<host, rolledBack>>,
         doubled' = doubled \cup {m \in {n} : Taken(m)}
  PROVE  HostInv'
<1> USE DEF HostInv
<1>1. /\ CoreInv' /\ Evolves /\ nextId \in Own(n)' /\ core' = core \cup {nextId}
      /\ Requested(n)' = Requested(n) \cup {nextId}
      /\ \A m \in Name \ {n} : Requested(m)' = Requested(m)
      /\ nextId' = nextId + 1
  BY AtomNewGrows DEF CreateDirectly
<1>2. logical' = Entered(n, nextId)
  BY DEF CreateDirectly, FreshId
<1>3. logical' \in Maps'
  BY <1>1, <1>2, EnteredMaps DEF NamesInv
<1>4. NamesInv'
  BY <1>1, <1>3, HostKept
<1>5. BoundInv'
  BY <1>1, BoundStays DEF CreateDirectly
<1>6. OneInv'
  <2>1. job = NoJob /\ job' = job /\ alias' = alias
    BY DEF Idle, host
  <2>2. FreshNames => FreshNames'
    <3>1. FreshNames => Within(logical, core)
      BY IdleLive
    <3> QED BY <1>1, <1>2, <3>1 DEF FreshNames, Within, NamesInv, Maps, Entered
  <2>3. ASSUME NEW m \in Name \ doubled', m # n, OneAtom(m) PROVE OneAtom(m)'
    BY <1>1, <2>1, <2>3 DEF OneAtom
  <2>4. n \notin doubled' => OneAtom(n)'
    BY <1>1, <2>1 DEF OneAtom, NoJob, Taken
  <2> QED BY <2>2, <2>3, <2>4 DEF OneInv
<1>7. HistoryInv'
  BY DEF HistoryInv, host
<1> QED BY <1>1, <1>4, <1>5, <1>6, <1>7

(* A job is taken up where no atom of the name is left.                    *)
LEMMA OneMade ==
  ASSUME OneInv, Idle, NEW n \in Name, NEW gone,
         job' = [name |-> n, id |-> nextId, step |-> "made"],
         FreshNames => Within(logical', core'),
         Requested(n)' = (Requested(n) \ gone) \cup {nextId},
         \A m \in Name \ {n} : Requested(m)' = Requested(m) \ gone /\ alias'[m] = alias[m],
         FreshNames /\ n \notin doubled => Requested(n) \subseteq gone,
         UNCHANGED <<rolledBack, doubled>>
  PROVE  OneInv'
<1>1. job = NoJob
  BY DEF Idle
<1>2. FreshNames => FreshNames'
  BY DEF FreshNames, Within
<1>3. ASSUME NEW m \in Name \ {n}, OneAtom(m) PROVE OneAtom(m)'
  BY <1>1, <1>3 DEF OneAtom, NoJob
<1>4. FreshNames /\ n \notin doubled => OneAtom(n)'
  BY DEF OneAtom
<1> QED BY <1>2, <1>3, <1>4 DEF OneInv

LEMMA MadeJob ==
  ASSUME NEW n \in Name, nextId \in Id, nextId \in Own(n)',
         job' = [name |-> n, id |-> nextId, step |-> "made"]
  PROVE  JobInv'
BY DEF JobInv

LEMMA CreateKeeps ==
  ASSUME HostInv, NEW n \in Name, HostCreate(n), UNCHANGED <<rolledBack, doubled>>
  PROVE  HostInv'
<1> USE DEF HostInv
<1>1. /\ Idle /\ ~ Found(n) /\ AtomNew(n) /\ logical' = AfterHas(logical, n)
      /\ job' = [name |-> n, id |-> nextId, step |-> "made"] /\ nextId \in Id
      /\ UNCHANGED <<rooted, pyBound, saved, alias, phi, proxy>>
  BY DEF HostCreate, MayCreate, Make, AtomNew, FreshId, CoreInv
<1>2. /\ CoreInv' /\ Evolves /\ nextId \in Own(n)' /\ core' = core \cup {nextId}
      /\ Requested(n)' = Requested(n) \cup {nextId}
      /\ \A m \in Name \ {n} : Requested(m)' = Requested(m)
      /\ nextId' = nextId + 1
  BY <1>1, AtomNewGrows
<1>3. NamesInv'
  <2>1. logical' \in Maps' /\ alias' \in Maps' /\ proxy' \in PlainMaps'
    BY <1>1, <1>2, MapsAfter, MapsEvolve, PlainMapsEvolve DEF NamesInv
  <2> QED BY <1>1, <1>2, <2>1, MadeJob DEF NamesInv
<1>4. BoundInv'
  BY <1>1, <1>2, BoundStays
<1>5. OneInv'
  <2>1. FreshNames => Within(logical', core')
    <3>1. FreshNames => Within(logical', core)
      BY <1>1, IdleLive, LiveAfter DEF NamesInv
    <3> QED BY <1>2, <3>1 DEF Within
  <2>2. ~ rolledBack /\ FreshNames /\ n \notin doubled => Requested(n) \subseteq {}
    BY <1>1, FoundAtom DEF OneInv
  <2>3. CASE rolledBack
    BY <2>3 DEF OneInv
  <2>4. CASE ~ rolledBack
    <3>1. /\ Requested(n)' = (Requested(n) \ {}) \cup {nextId}
          /\ \A m \in Name \ {n} : Requested(m)' = Requested(m) \ {} /\ alias'[m] = alias[m]
      BY <1>1, <1>2
    <3> QED BY <1>1, <2>1, <2>2, <2>4, <3>1, OneMade
  <2> QED BY <2>3, <2>4
<1> QED BY <1>1, <1>2, <1>3, <1>4, <1>5 DEF HistoryInv

LEMMA CloneKeeps ==
  ASSUME HostInv, NEW src \in Name, NEW dst \in Name, HostClone(src, dst),
         UNCHANGED <<rolledBack, doubled>>
  PROVE  HostInv'
<1> USE DEF HostInv
<1> DEFINE seen == AfterHas(AfterHas(logical, src), dst)
<1>1. seen \in Maps /\ (FreshNames /\ Idle => Within(seen, core))
  <2>1. AfterHas(logical, src) \in Maps
    BY MapsAfter DEF NamesInv
  <2>2. FreshNames /\ Idle => Within(AfterHas(logical, src), core)
    BY IdleLive, LiveAfter DEF NamesInv
  <2> QED BY <2>1, <2>2, IdleLive, LiveAfter, MapsAfter DEF NamesInv
<1>2. Idle /\ nextId \in Id /\ nextId <= MaxId /\ saved' = saved
  BY DEF HostClone, CoreInv
<1> HIDE DEF seen
<1>3. CASE Found(dst)
  <2> DEFINE a == Resolved(dst)
  <2>1. /\ core' = (core \ {a}) \cup {nextId}
        /\ wrap' = [b \in (DOMAIN wrap \ {a}) \cup {nextId} |->
                      IF b = nextId THEN dst ELSE wrap[b]]
        /\ nextId' = nextId + 1
        /\ rooted' = Without(rooted, {a}) /\ pyBound' = Without(pyBound, {a})
        /\ logical' = Without(seen, {a})
        /\ job' = [name |-> dst, id |-> nextId, step |-> "made"]
        /\ Untrack(dst)
    BY <1>3 DEF HostClone, FreshId, PurgePy, seen
  <2> HIDE DEF a
  <2>2. CoreInv' /\ Evolves /\ nextId \in Own(dst)'
    BY <1>2, <2>1, Grows
  <2>3. NamesInv'
    <3>1. logical' \in Maps'
      BY <1>1, <2>1, <2>2, MapsWithout, MapsEvolve
    <3>2. alias' \in Maps' /\ proxy' \in PlainMaps'
      BY <2>1, <2>2, UntrackedMaps, MapsEvolve, PlainMapsEvolve DEF NamesInv
    <3> QED BY <1>2, <2>1, <2>2, <3>1, <3>2, MadeJob DEF NamesInv
  <2>4. BoundInv'
    BY <1>2, <2>1, <2>2, BoundKept
  <2>5. OneInv'
    <3>1. /\ Requested(dst)' = (Requested(dst) \ {a}) \cup {nextId}
          /\ \A m \in Name \ {dst} : Requested(m)' = Requested(m) \ {a} /\ alias'[m] = alias[m]
      BY <2>1, NewRequested, UntrackedMaps DEF NamesInv
    <3>2. FreshNames => Within(logical', core')
      BY <1>1, <1>2, <2>1 DEF Within, Without
    <3>3. CASE rolledBack
      BY <3>3 DEF OneInv
    <3>4. CASE ~ rolledBack
      <4>1. FreshNames /\ dst \notin doubled => Requested(dst) \subseteq {a}
        BY <1>2, <1>3, <3>4, FoundAtom DEF OneInv, a
      <4> QED BY <1>2, <2>1, <3>1, <3>2, <4>1, OneMade
    <3> QED BY <3>3, <3>4
  <2>6. HistoryInv'
    BY <2>1, UntrackedMaps DEF HistoryInv, NamesInv
  <2> QED BY <2>2, <2>3, <2>4, <2>5, <2>6
<1>4. CASE ~ Found(dst)
  <2>1. /\ AtomNew(dst) /\ logical' = seen
        /\ job' = [name |-> dst, id |-> nextId, step |-> "made"]
        /\ UNCHANGED <<rooted, pyBound, alias, phi, proxy>>
    BY <1>4 DEF HostClone, Make, FreshId, seen
  <2>2. /\ CoreInv' /\ Evolves /\ nextId \in Own(dst)' /\ core' = core \cup {nextId}
        /\ Requested(dst)' = Requested(dst) \cup {nextId}
        /\ \A m \in Name \ {dst} : Requested(m)' = Requested(m)
        /\ nextId' = nextId + 1
    BY <1>2, <2>1, AtomNewGrows
  <2>3. NamesInv'
    <3>1. logical' \in Maps' /\ alias' \in Maps' /\ proxy' \in PlainMaps'
      BY <1>1, <2>1, <2>2, MapsEvolve, PlainMapsEvolve DEF NamesInv
    <3> QED BY <1>2, <2>1, <2>2, <3>1, MadeJob DEF NamesInv
  <2>4. BoundInv'
    BY <1>2, <2>1, <2>2, BoundStays
  <2>5. OneInv'
    <3>1. /\ Requested(dst)' = (Requested(dst) \ {}) \cup {nextId}
          /\ \A m \in Name \ {dst} : Requested(m)' = Requested(m) \ {} /\ alias'[m] = alias[m]
      BY <2>1, <2>2
    <3>2. FreshNames => Within(logical', core')
      BY <1>1, <1>2, <2>1, <2>2 DEF Within
    <3>3. CASE rolledBack
      BY <3>3 DEF OneInv
    <3>4. CASE ~ rolledBack
      <4>1. FreshNames /\ dst \notin doubled => Requested(dst) \subseteq {}
        BY <1>2, <1>4, <3>4, FoundAtom DEF OneInv
      <4> QED BY <1>2, <2>1, <3>1, <3>2, <4>1, OneMade
    <3> QED BY <3>3, <3>4
  <2> QED BY <2>1, <2>2, <2>3, <2>4, <2>5 DEF HistoryInv
<1> QED BY <1>3, <1>4

-----------------------------------------------------------------------------
(* Atoms are found, named and deleted *)

(* No atom is made and no alias but None is new: a name has no more atoms. *)
LEMMA OneStays ==
  ASSUME OneInv, FreshNames => FreshNames', UNCHANGED <<job, rolledBack, doubled>>,
         \A m \in Name : Requested(m)' \subseteq Requested(m) /\ alias'[m] \in {alias[m], None},
         \A m \in Name : FreshNames /\ OneAtom(m) /\ alias'[m] # alias[m] => Requested(m)' = {}
  PROVE  OneInv'
<1>1. \A m \in Name : FreshNames /\ OneAtom(m) => OneAtom(m)'
  BY DEF OneAtom
<1> QED BY <1>1 DEF OneInv

LEMMA SameAtoms ==
  ASSUME UNCHANGED wrap PROVE \A m \in Name : Requested(m)' = Requested(m)
BY DEF Requested

LEMMA NameItKeeps ==
  ASSUME HostInv, NameIt, UNCHANGED <<rolledBack, doubled>> PROVE HostInv'
<1> USE DEF HostInv
<1>1. /\ job \in [name : Name, id : Id, step : {"made", "named"}] /\ job.step = "made"
      /\ job.id \in Own(job.name)
  BY DEF NameIt, NamesInv, JobInv, NoJob
<1>2. /\ logical' = Entered(job.name, job.id)
      /\ job' = [job EXCEPT !.step = "named"]
      /\ UNCHANGED <<core, nextId, rooted, wrap, pyBound, saved, alias, phi, proxy>>
  BY DEF NameIt
<1>3. CoreInv' /\ Evolves
  BY <1>2, Stays
<1>4. NamesInv'
  <2>0. job.id \in Own(job.name)'
    <3>1. PICK n \in Name : n = job.name
      BY <1>1
    <3>2. job.id \in Own(n)'
      BY <1>1, <1>3, <3>1 DEF Evolves
    <3> QED BY <3>1, <3>2, <1>2 DEF Own
  <2>1. logical' \in Maps' /\ alias' \in Maps' /\ proxy' \in PlainMaps'
    BY <1>1, <1>2, <1>3, <2>0, MapsEvolve, PlainMapsEvolve, EnteredMaps DEF NamesInv
  <2>2. /\ job' \in [name : Name, id : Id, step : {"made", "named"}]
        /\ job'.name = job.name /\ job'.id = job.id
    BY <1>1, <1>2
  <2>3. PICK n \in Name : n = job.name
    BY <1>1
  <2>4. job.id \in Own(n)'
    BY <1>1, <1>3, <2>3 DEF Evolves
  <2>5. JobInv'
    BY <2>2, <2>3, <2>4 DEF JobInv, Own
  <2> QED BY <2>1, <2>5 DEF NamesInv
<1>5. BoundInv'
  BY <1>2, <1>3, BoundStays
<1>6. OneInv'
  <2>1. FreshNames => FreshNames'
    BY <1>1, <1>2 DEF FreshNames, NamesInv, Maps, Entered
  <2>2. \A m \in Name : OneAtom(m) => OneAtom(m)'
    BY <1>1, <1>2, SameAtoms DEF OneAtom
  <2> QED BY <2>1, <2>2 DEF OneInv
<1> QED BY <1>2, <1>3, <1>4, <1>5, <1>6 DEF HistoryInv

LEMMA FinishKeeps ==
  ASSUME HostInv, FinishCreate, UNCHANGED <<rolledBack, doubled>> PROVE HostInv'
<1> USE DEF HostInv
<1> DEFINE n == job.name
           a == job.id
<1>1. n \in Name /\ a \in Id /\ a \in Own(n) /\ job.step = "named"
  BY DEF FinishCreate, NamesInv, JobInv, NoJob
<1>2. /\ alias' = [alias EXCEPT ![n] = a] /\ phi' = phi \cup {n}
      /\ logical' = GetMap(logical, a)
      /\ proxy' = IF Present(a) THEN [proxy EXCEPT ![n] = ProxyFor(n, a)] ELSE proxy
      /\ job' = NoJob
      /\ UNCHANGED <<core, nextId, rooted, wrap, pyBound, saved>>
  BY DEF FinishCreate
<1> HIDE DEF n, a
<1>3. CoreInv' /\ Evolves
  BY <1>2, Stays
<1>4. NamesInv'
  <2>1. logical' \in Maps
    BY <1>2, MapsGet DEF NamesInv
  <2>2. alias' \in Maps
    BY <1>1, <1>2, MapsExcept DEF NamesInv
  <2>3. proxy' \in PlainMaps
    BY <1>1, <1>2, ProxyOwn DEF NamesInv
  <2> QED BY <1>2, <1>3, <2>1, <2>2, <2>3, MapsEvolve, PlainMapsEvolve DEF NamesInv, JobInv
<1>5. BoundInv'
  BY <1>2, <1>3, BoundStays
<1>6. OneInv'
  <2>1. FreshNames => FreshNames'
    <3>1. FreshNames => Within(logical', core)
      BY <1>1, <1>2 DEF FreshNames, Within, GetMap, Without, Present, a
    <3> QED BY <1>2, <3>1 DEF FreshNames, Within
  <2>2. ASSUME NEW m \in Name, OneAtom(m) PROVE OneAtom(m)'
    <3>1. m = n => alias'[m] = a /\ Requested(m) \subseteq {a}
      BY <1>1, <1>2, <2>2 DEF OneAtom, n, a, NamesInv, Maps
    <3>2. m # n => alias'[m] = alias[m] /\ job.name # m
      BY <1>2 DEF n, NamesInv, Maps
    <3>3. a # None /\ Requested(m)' = Requested(m)
      BY <1>1, <1>2, SameAtoms, NoneApart
    <3>4. CASE m = n
      BY <1>2, <3>1, <3>3, <3>4 DEF OneAtom, NoJob
    <3>5. CASE m # n
      BY <1>2, <2>2, <3>2, <3>3, <3>5 DEF OneAtom, NoJob
    <3> QED BY <3>4, <3>5
  <2> QED BY <2>1, <2>2 DEF OneInv
<1> QED BY <1>1, <1>2, <1>3, <1>4, <1>5, <1>6 DEF HistoryInv

(* A look at a name leaves the entries that lead to present atoms.         *)
LEMMA SeenLive ==
  ASSUME HostInv, Idle, NEW n \in Name, NEW gone,
         logical' = Without(AfterGet(n), gone), core \ gone \subseteq core'
  PROVE  FreshNames => FreshNames'
<1>1. FreshNames => Within(AfterGet(n), core)
  BY IdleLive, LiveAfter DEF HostInv, NamesInv
<1>2. FreshNames => Within(logical', core')
  BY <1>1 DEF Within, Without
<1> QED BY <1>2 DEF FreshNames, Within

LEMMA GetKeeps ==
  ASSUME HostInv, NEW n \in Name, HostGet(n), UNCHANGED <<rolledBack, doubled>>
  PROVE  HostInv'
<1> USE DEF HostInv
<1>1. /\ Idle /\ logical' = AfterGet(n)
      /\ UNCHANGED <<core, nextId, rooted, wrap, pyBound, saved, job>>
  BY DEF HostGet
<1>2. CoreInv' /\ Evolves
  BY <1>1, Stays
<1>3. AfterGet(n) \in Maps
  BY MapsAfter DEF NamesInv
<1>4. /\ alias' \in Maps /\ proxy' \in PlainMaps /\ phi' \in SUBSET Name
      /\ \A m \in Name : alias'[m] \in {alias[m], None}
      /\ \A m \in Name : alias'[m] # alias[m] => m = n /\ ~ Found(n)
  <2>1. CASE Found(n)
    <3>1. /\ phi' = phi \cup {n} /\ alias' = alias
          /\ proxy' = [proxy EXCEPT ![n] = ProxyFor(n, Resolved(n))]
      BY <2>1 DEF HostGet
    <3>2. Resolved(n) \in Id /\ (n \in Plain => Resolved(n) \in Own(n))
      BY <2>1, ResolvedFacts DEF Found, NamesInv, CoreInv
    <3> QED BY <3>1, <3>2, ProxyOwn DEF NamesInv, HistoryInv
  <2>2. CASE ~ Found(n)
    BY <2>2, UntrackedMaps DEF HostGet, NamesInv, HistoryInv
  <2> QED BY <2>1, <2>2
<1>5. NamesInv'
  <2>1. JobInv'
    BY <1>1 DEF JobInv, Idle
  <2> QED BY <1>1, <1>2, <1>3, <1>4, <2>1, MapsEvolve, PlainMapsEvolve DEF NamesInv
<1>6. BoundInv'
  BY <1>1, <1>2, BoundStays
<1>7. OneInv'
  <2>1. logical' = Without(AfterGet(n), {})
    BY <1>1, <1>3, WithoutNothing DEF Maps
  <2>2. FreshNames => FreshNames'
    BY <1>1, <2>1, SeenLive
  <2>3. \A m \in Name : FreshNames /\ OneAtom(m) /\ alias'[m] # alias[m] => Requested(m)' = {}
    BY <1>1, <1>4, SameAtoms, FoundAtom
  <2> QED BY <1>1, <1>4, <2>2, <2>3, SameAtoms, OneStays
<1> QED BY <1>2, <1>4, <1>5, <1>6, <1>7 DEF HistoryInv

LEMMA DeleteKeeps ==
  ASSUME HostInv, NEW n \in Name, HostDelete(n), UNCHANGED <<rolledBack, doubled>>
  PROVE  HostInv'
<1> USE DEF HostInv
<1>1. Idle /\ Untrack(n) /\ UNCHANGED <<nextId, saved, job>>
  BY DEF HostDelete
<1>2. PICK gone :
        /\ core' = core \ gone /\ wrap' = [b \in DOMAIN wrap \ gone |-> wrap[b]]
        /\ rooted' = Without(rooted, gone) /\ pyBound' = Without(pyBound, gone)
        /\ logical' = Without(AfterGet(n), gone)
        /\ gone = IF Found(n) THEN {Resolved(n)} ELSE {}
  <2>1. CASE Found(n)
    BY <2>1 DEF HostDelete, DeleteId, PurgePy
  <2>2. CASE ~ Found(n)
    <3>1. core \ {} = core /\ wrap = [b \in DOMAIN wrap \ {} |-> wrap[b]]
      BY DEF CoreInv
    <3>2. rooted = Without(rooted, {}) /\ pyBound = Without(pyBound, {})
      BY WithoutNothing DEF BoundInv, PlainMaps
    <3>3. AfterGet(n) \in Maps
      BY MapsAfter DEF NamesInv
    <3>4. AfterGet(n) = Without(AfterGet(n), {})
      BY <3>3, WithoutNothing DEF Maps
    <3> QED BY <2>2, <3>1, <3>2, <3>4 DEF HostDelete
  <2> QED BY <2>1, <2>2
<1>3. CoreInv' /\ Evolves
  BY <1>1, <1>2, Drops DEF CoreInv
<1>4. /\ alias' \in Maps /\ proxy' \in PlainMaps /\ phi' = phi \ {n}
      /\ \A m \in Name : alias'[m] \in {alias[m], None} /\ (m # n => alias'[m] = alias[m])
  BY <1>1, UntrackedMaps DEF NamesInv
<1>5. NamesInv'
  <2>1. logical' \in Maps
    BY <1>2, MapsAfter, MapsWithout DEF NamesInv
  <2>2. JobInv'
    BY <1>1 DEF JobInv, Idle
  <2> QED BY <1>3, <1>4, <2>1, <2>2, MapsEvolve, PlainMapsEvolve DEF NamesInv
<1>6. BoundInv'
  BY <1>1, <1>2, <1>3, BoundKept
<1>7. OneInv'
  <2>1. \A m \in Name : Requested(m)' \subseteq Requested(m)
    BY <1>2 DEF Requested
  <2>2. FreshNames => FreshNames'
    BY <1>1, <1>2, SeenLive
  <2>3. FreshNames /\ OneAtom(n) => Requested(n)' = {}
    <3>1. FreshNames /\ OneAtom(n) => Requested(n) \subseteq gone
      BY <1>1, <1>2, FoundAtom
    <3> QED BY <1>2, <3>1 DEF Requested
  <2> QED BY <1>1, <1>4, <2>1, <2>2, <2>3, OneStays
<1> QED BY <1>3, <1>4, <1>5, <1>6, <1>7 DEF HistoryInv

LEMMA ConsolidateKeeps ==
  ASSUME HostInv, NEW n \in Name, HostConsolidate(n), UNCHANGED <<rolledBack, doubled>>
  PROVE  HostInv'
<1> USE DEF HostInv
<1>1. /\ Idle /\ Found(n) /\ Bind(n, Resolved(n)) /\ logical' = AfterGet(n)
      /\ UNCHANGED <<core, nextId, wrap, saved, alias, phi, proxy, job>>
  BY DEF HostConsolidate, host
<1>2. CoreInv' /\ Evolves
  BY <1>1, Stays
<1>3. AfterGet(n) \in Maps
  BY MapsAfter DEF NamesInv
<1>4. NamesInv'
  BY <1>1, <1>2, <1>3, MapsEvolve, HostKept DEF host
<1>5. BoundInv'
  <2>1. /\ Resolved(n) \in core /\ Resolved(n) \in Id /\ Resolved(n) < nextId
        /\ n \in Plain => Resolved(n) \in Own(n)
    BY <1>1, ResolvedFacts DEF Found, NamesInv, CoreInv
  <2>2. pyBound' \in PlainMaps'
    BY <1>1, <1>2, <2>1, PlainMapsExcept, PlainMapsEvolve DEF Bind, BoundInv
  <2>3. /\ rooted' = [rooted EXCEPT ![n] = Resolved(n)]
        /\ pyBound' = [pyBound EXCEPT ![n] = Resolved(n)]
    BY <1>1 DEF Bind
  <2> QED BY <1>1, <2>1, <2>2, <2>3 DEF BoundInv, Snap, CoreInv, PlainMaps
<1>6. OneInv'
  <2>1. logical' = Without(AfterGet(n), {})
    BY <1>1, <1>3, WithoutNothing DEF Maps
  <2> QED BY <1>1, <2>1, SeenLive, SameAtoms, OneStays
<1> QED BY <1>1, <1>2, <1>4, <1>5, <1>6 DEF HistoryInv

LEMMA ListKeeps ==
  ASSUME HostInv, HostList, UNCHANGED <<rolledBack, doubled>> PROVE HostInv'
<1> USE DEF HostInv
<1> DEFINE aliased == [n \in Name |-> IF Requested(n) # {} THEN Max(Requested(n)) ELSE alias[n]]
           listed == phi \cup {n \in Name : Requested(n) # {}}
           real(n) == IF aliased[n] # None THEN aliased[n] ELSE LogicalReal(n)
           live == {n \in listed : real(n) # None /\ Present(real(n))}
           tracked(map) == [n \in Name |-> IF n \in listed \ live THEN None ELSE map[n]]
           gone == {real(n) : n \in listed \ live} \ core
<1>1. /\ phi' = live
      /\ alias' = tracked(aliased)
      /\ \E rows \in SUBSET {real(n) : n \in live} :
           proxy' \in Proxies(tracked(proxy), tracked(aliased), rows)
      /\ logical' = Without(logical, gone)
      /\ Idle /\ UNCHANGED <<core, nextId, rooted, wrap, pyBound, saved, job>>
  BY DEF HostList
<1>2. CoreInv' /\ Evolves
  BY <1>1, Stays
<1>3. listed \in SUBSET Name
  BY DEF HistoryInv
<1>4. ASSUME NEW n \in Name
      PROVE  /\ aliased[n] \in Own(n) \cup {None}
             /\ Requested(n) # {} => aliased[n] \in Requested(n)
             /\ Requested(n) = {} => aliased[n] = alias[n]
  <2>1. Requested(n) \in SUBSET Id /\ Requested(n) \subseteq Own(n)
    BY RequestedFacts DEF CoreInv
  <2>2. Requested(n) # {} => Max(Requested(n)) \in Requested(n)
    BY <2>1, MaxMember
  <2>3. alias[n] \in Own(n) \cup {None}
    BY DEF NamesInv, Maps
  <2> QED BY <2>1, <2>2, <2>3
<1> HIDE DEF aliased
<1>5. \A n \in live : n \in Name /\ real(n) \in core
  BY <1>3 DEF Present
<1>6. ASSUME NEW n \in Name, Requested(n) # {}
      PROVE  n \in live
  <2>1. aliased[n] \in Requested(n) /\ Requested(n) \in SUBSET core
    BY <1>4, <1>6, RequestedFacts
  <2>2. real(n) = aliased[n] /\ real(n) # None
    BY <2>1, NoneApart DEF CoreInv
  <2> QED BY <1>6, <2>1, <2>2 DEF Present
<1> HIDE DEF real, listed, live
<1>7. alias' \in Maps
  BY <1>1, <1>4, OwnIds DEF Maps
<1>8. proxy' \in PlainMaps
  <2>1. tracked(proxy) \in PlainMaps
    BY DEF NamesInv, PlainMaps, Plain
  <2>2. PICK rows \in SUBSET {real(n) : n \in live} :
          proxy' \in Proxies(tracked(proxy), tracked(aliased), rows)
    BY <1>1
  <2>3. rows \in SUBSET core
    BY <1>5
  <2>4. tracked(aliased) \in Maps
    BY <1>1, <1>7
  <2> HIDE DEF tracked
  <2> QED BY <2>1, <2>2, <2>3, <2>4, ShownOwn
<1>9. NamesInv'
  <2>1. logical' \in Maps
    BY <1>1, MapsWithout DEF NamesInv
  <2>2. JobInv'
    BY <1>1 DEF JobInv, Idle
  <2> QED BY <1>2, <1>7, <1>8, <2>1, <2>2, MapsEvolve, PlainMapsEvolve DEF NamesInv
<1>10. BoundInv'
  BY <1>1, <1>2, BoundStays
<1>11. OneInv'
  <2>1. FreshNames => FreshNames'
    <3>1. FreshNames => Within(logical, core)
      BY <1>1, IdleLive
    <3>2. FreshNames => Within(logical', core)
      BY <1>1, <3>1 DEF Within, Without
    <3> QED BY <1>1, <3>2 DEF FreshNames, Within
  <2>2. ASSUME NEW m \in Name, OneAtom(m) PROVE OneAtom(m)'
    <3>1. Requested(m)' = Requested(m) /\ job.name # m /\ job' = job
      BY <1>1, SameAtoms DEF Idle, NoJob
    <3>2. alias'[m] \in {aliased[m], None} /\ (m \in live => alias'[m] = aliased[m])
      BY <1>1
    <3>3. Requested(m) \subseteq {aliased[m]}
      BY <1>4, <2>2 DEF OneAtom
    <3>4. alias'[m] = None => Requested(m) = {}
      <4>1. SUFFICES ASSUME Requested(m) # {} PROVE alias'[m] # None
        OBVIOUS
      <4>2. alias'[m] = aliased[m] /\ aliased[m] \in Requested(m)
        BY <1>4, <1>6, <3>2, <4>1
      <4>3. None \notin Requested(m)
        BY RequestedFacts, NoneApart DEF CoreInv
      <4> QED BY <4>2, <4>3
    <3> QED BY <2>2, <3>1, <3>2, <3>3, <3>4 DEF OneAtom
  <2> QED BY <1>1, <2>1, <2>2 DEF OneInv
<1>12. HistoryInv'
  <2>1. phi' \in SUBSET Name
    BY <1>1, <1>5
  <2> QED BY <2>1 DEF HistoryInv
<1> QED BY <1>2, <1>9, <1>10, <1>11, <1>12

LEMMA ListAllKeeps ==
  ASSUME HostInv, HostListAll, UNCHANGED <<rolledBack, doubled>> PROVE HostInv'
<1> USE DEF HostInv
<1>1. /\ proxy' \in Proxies(proxy, alias, core)
      /\ UNCHANGED <<core, nextId, rooted, wrap, logical, pyBound, saved, alias, phi, job>>
  BY DEF HostListAll, native
<1>2. CoreInv' /\ Evolves
  BY <1>1, Stays
<1>3. proxy' \in PlainMaps
  BY <1>1, ShownOwn DEF NamesInv
<1>4. NamesInv'
  <2>1. JobInv'
    BY <1>1, <1>2 DEF NamesInv, JobInv, Evolves
  <2> QED BY <1>1, <1>2, <1>3, <2>1, MapsEvolve, PlainMapsEvolve DEF NamesInv
<1>5. BoundInv'
  BY <1>1, <1>2, BoundStays
<1>6. OneInv'
  BY <1>1 DEF OneInv, FreshNames, OneAtom, Requested
<1> QED BY <1>1, <1>2, <1>4, <1>5, <1>6 DEF HistoryInv

-----------------------------------------------------------------------------
(* Theorems *)

LEMMA HostInvInit == Init => HostInv
<1> SUFFICES ASSUME Init PROVE HostInv
  OBVIOUS
<1> USE DEF Init, NativeInit
<1>1. CoreInv
  BY DEF CoreInv
<1>2. [n \in Name |-> None] \in Maps /\ [n \in Name |-> None] \in PlainMaps
  BY DEF Maps, PlainMaps, Plain
<1>3. NamesInv /\ BoundInv /\ HistoryInv
  <2>1. \A n \in Name : rooted[n] = None /\ pyBound[n] = None
    OBVIOUS
  <2>2. BoundInv
    BY <1>2, <2>1 DEF BoundInv
  <2> QED BY <1>2, <2>2 DEF NamesInv, JobInv, HistoryInv
<1>4. OneInv
  BY DEF OneInv, FreshNames, OneAtom, Requested
<1> QED BY <1>1, <1>3, <1>4 DEF HostInv

LEMMA HostInvStep == HostInv /\ [Next]_vars => HostInv'
<1> SUFFICES ASSUME HostInv, [Next]_vars PROVE HostInv'
  OBVIOUS
<1>1. CASE StoreOp
  BY <1>1, TickKeeps, SnapshotKeeps, UnbindKeeps, RestoreKeeps, DirectKeeps DEF StoreOp
<1>2. CASE HostOp /\ UNCHANGED <<rolledBack, doubled>>
  BY <1>2, NameItKeeps, FinishKeeps, ListKeeps, ListAllKeeps, CreateKeeps, GetKeeps, DeleteKeeps,
     ConsolidateKeeps, CloneKeeps DEF HostOp
<1>3. CASE UNCHANGED vars
  <2>1. CoreInv' /\ Evolves
    BY <1>3, Stays DEF HostInv, vars, native
  <2>2. NamesInv'
    BY <1>3, <2>1, HostKept, MapsEvolve DEF HostInv, NamesInv, vars, native
  <2>3. BoundInv'
    BY <1>3, <2>1, BoundStays DEF HostInv, vars, native
  <2>4. OneInv'
    BY <1>3 DEF HostInv, OneInv, FreshNames, OneAtom, Requested, vars, native, host
  <2> QED BY <1>3, <2>1, <2>2, <2>3, <2>4 DEF HostInv, HistoryInv, vars, host
<1> QED BY <1>1, <1>2, <1>3 DEF Next

LEMMA Inductive == Spec => []HostInv
BY HostInvInit, HostInvStep, PTL DEF Spec

(* The maps beside the core agree with it between any two calls, whatever  *)
(* is reaped, restored or bound, and every variable is of its type         *)
(* (NativeSubstrate._sync_after_gc, restore_atoms, _purge_py_bindings).    *)
THEOREM Agreement == Spec => []MapsAgree
<1>1. HostInv => MapsAgree
  <2> SUFFICES ASSUME HostInv PROVE MapsAgree
    OBVIOUS
  <2> USE DEF HostInv
  <2>1. wrap \in Wrappers /\ DOMAIN wrap = core
    BY DEF CoreInv, Wrappers
  <2>2. NativeTypeOK
    BY <2>1 DEF CoreInv, NamesInv, BoundInv, Maps, PlainMaps, NativeTypeOK
  <2>3. TypeOK
    BY <2>2 DEF TypeOK, NamesInv, HistoryInv, JobInv, Maps, PlainMaps
  <2> QED BY <2>1, <2>3 DEF MapsAgree, BoundInv
<1> QED BY <1>1, Inductive, PTL

(* No entry or alias, nor the proxy or binding copy of a plain name, leads *)
(* to an atom made for another name, through ticks in mid-create, deletes, *)
(* clones, lists and rollbacks (ids are never given out again).            *)
THEOREM NamesLead == Spec => []NoMisnaming
<1>1. HostInv => NoMisnaming
  <2> SUFFICES ASSUME HostInv, NEW n \in Name,
                      NEW a \in {logical[n], alias[n]} \cup (IF n \in Plain THEN {proxy[n], pyBound[n]} ELSE {}),
                      a \in core
               PROVE  wrap[a] = n
    BY DEF NoMisnaming
  <2>1. a \in Own(n) \cup {None}
    BY DEF HostInv, NamesInv, BoundInv, Maps, PlainMaps
  <2>2. a # None
    BY NoneApart DEF HostInv, CoreInv
  <2> QED BY <2>1, <2>2 DEF Own
<1> QED BY <1>1, Inductive, PTL

(* create_atom and clone_atom never make a second atom of a name, stale    *)
(* aliases, numbers and all, but where a tool or a rollback went past the  *)
(* host.                                                                   *)
THEOREM OneAtomEach == Spec => []UniqueName
<1>1. HostInv => UniqueName
  BY DEF HostInv, OneInv, OneAtom, UniqueName
<1> QED BY <1>1, Inductive, PTL
=============================================================================
