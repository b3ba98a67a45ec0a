------------------------------ MODULE LuaHost ------------------------------
(***************************************************************************)
(* The names Lua tools use for atoms (software/karmazyn_host.py) over the  *)
(* Python Store: aliases from logical ids to ids of the Store, the set of  *)
(* ids it lists, and a proxy table per id, made once and bound to the id   *)
(* of the atom it was made for.  Tools call from one thread; each call is  *)
(* one or more of the Store's, and the background thread may tick in       *)
(* between; a tool may also use the Store without the host.                *)
(***************************************************************************)
EXTENDS NativeStore

VARIABLES
  alias,      \* _id_alias
  phi,        \* _phi_ids
  proxy,      \* _proxy_by_id: the id each proxy reads
  job,        \* a create or clone that has made its atom: its name, the atom, the step
  rolledBack, \* history: has restore_atoms been called
  doubled     \* history: names made past the host when taken, aliased or not plain

host == <<alias, phi, proxy, job>>
vars == <<native, host, rolledBack, doubled>>

NoJob == [name |-> None, id |-> None, step |-> "none"]

(* The Store's maps and the host's are of their types. *)
TypeOK ==
  /\ NativeTypeOK
  /\ {alias, proxy} \subseteq [Name -> Id \cup {None}]
  /\ phi \subseteq Name
  /\ job = NoJob \/ job \in [name : Name, id : Id, step : {"made", "named"}]
  /\ rolledBack \in BOOLEAN /\ doubled \subseteq Name

Init ==
  /\ NativeInit
  /\ alias = [n \in Name |-> None] /\ proxy = alias
  /\ phi = {} /\ job = NoJob
  /\ rolledBack = FALSE /\ doubled = {}

Idle == job = NoJob

-----------------------------------------------------------------------------
(* Mutant of Resolved: aliases are not asked. *)
ResolvedUnaliased(n) == LogicalReal(n)
(* _resolve_aid, then the Store: the atom a name leads to, present or not. *)
Resolved(n) == IF alias[n] # None THEN alias[n] ELSE LogicalReal(n)
Found(n) == Resolved(n) # None /\ Present(Resolved(n))

(* _logical after has_atom and after get_atom of what the name leads to.   *)
AfterHas(map, n) == IF alias[n] # None THEN map ELSE LookedUp(map, n)
AfterGet(n) == GetMap(AfterHas(logical, n), Resolved(n))

(* _untrack_phi *)
Untrack(n) ==
  /\ phi' = phi \ {n}
  /\ alias' = [alias EXCEPT ![n] = None]
  /\ proxy' = [proxy EXCEPT ![n] = None]

(* _atom_proxy: the one in the cache, else a new one for this atom. *)
ProxyFor(n, a) == IF proxy[n] # None THEN proxy[n] ELSE a

(* create_atom and clone_atom, to where the Store has made the atom. *)
Make(n) ==
  /\ AtomNew(n)
  /\ job' = [name |-> n, id |-> FreshId, step |-> "made"]

(* Mutant of MayCreate: only the alias is asked. *)
MayCreateUnlisted(n) == alias[n] = None
MayCreate(n) == ~ Found(n)

(* create_atom of a name the host does not find in the Store. *)
HostCreate(n) ==
  /\ Idle /\ MayCreate(n)
  /\ Make(n)
  /\ logical' = AfterHas(logical, n)
  /\ UNCHANGED <<rooted, pyBound, saved, alias, phi, proxy>>

(* clone_atom: an atom of the second name is deleted first. *)
HostClone(src, dst) ==
  /\ Idle /\ Found(src)
  /\ nextId <= MaxId
  /\ IF Found(dst)
       THEN LET a == Resolved(dst) IN
            /\ core' = (core \ {a}) \cup {FreshId}
            /\ wrap' = [b \in (DOMAIN wrap \ {a}) \cup {FreshId} |->
                          IF b = FreshId THEN dst ELSE wrap[b]]
            /\ nextId' = nextId + 1
            /\ rooted' = Without(rooted, {a}) /\ pyBound' = PurgePy({a})
            /\ logical' = Without(AfterHas(AfterHas(logical, src), dst), {a})
            /\ job' = [name |-> dst, id |-> FreshId, step |-> "made"]
            /\ Untrack(dst)
       ELSE /\ Make(dst)
            /\ logical' = AfterHas(AfterHas(logical, src), dst)
            /\ UNCHANGED <<rooted, pyBound, alias, phi, proxy>>
  /\ UNCHANGED saved

(* The Store's create_atom names the atom once it is made: a tick may come *)
(* between, and take it if it was made cold.                               *)
NameIt ==
  /\ job.step = "made"
  /\ logical' = Entered(job.name, job.id)
  /\ job' = [job EXCEPT !.step = "named"]
  /\ UNCHANGED <<core, nextId, rooted, wrap, pyBound, saved, alias, phi, proxy>>

(* _register_alias; the atom is looked up again and its proxy returned.    *)
FinishCreate ==
  /\ job.step = "named"
  /\ LET n == job.name
         a == job.id
     IN /\ alias' = [alias EXCEPT ![n] = a]
        /\ phi' = phi \cup {n}
        /\ logical' = GetMap(logical, a)
        /\ proxy' = IF Present(a) THEN [proxy EXCEPT ![n] = ProxyFor(n, a)] ELSE proxy
  /\ job' = NoJob
  /\ UNCHANGED <<core, nextId, rooted, wrap, pyBound, saved>>

(* get_atom *)
HostGet(n) ==
  /\ Idle
  /\ logical' = AfterGet(n)
  /\ IF Found(n)
       THEN /\ phi' = phi \cup {n}
            /\ proxy' = [proxy EXCEPT ![n] = ProxyFor(n, Resolved(n))]
            /\ UNCHANGED alias
       ELSE Untrack(n)
  /\ UNCHANGED <<core, nextId, rooted, wrap, pyBound, saved, job>>

(* delete_atom: the name is untracked whether or not an atom was found.    *)
HostDelete(n) ==
  /\ Idle
  /\ IF Found(n)
       THEN DeleteId(Resolved(n)) /\ logical' = Without(AfterGet(n), {Resolved(n)})
       ELSE UNCHANGED <<core, rooted, wrap, pyBound>> /\ logical' = AfterGet(n)
  /\ Untrack(n)
  /\ UNCHANGED <<nextId, saved, job>>

(* What the proxy of a name may be after a list that shows rows: the one   *)
(* kept, else one of the atoms shown by that name - an atom is shown by an *)
(* alias that leads to it, or else by its number.                          *)
ProxyShown(n, kept, aliases, rows) ==
  LET shown == {a \in rows : aliases[n] = a \/ (n = a /\ \A m \in Name : aliases[m] # a)}
  IN IF kept[n] # None \/ shown = {} THEN {kept[n]} ELSE shown

Proxies(kept, aliases, rows) ==
  LET choice == [n \in Name |-> ProxyShown(n, kept, aliases, rows)]
  IN {map \in [Name -> UNION {choice[n] : n \in Name}] : \A n \in Name : map[n] \in choice[n]}

(* list_atoms: aliases are made again from the wrappers, of several for a  *)
(* name the last; names that lead nowhere are untracked; of the others     *)
(* those in the wanted state are shown.                                    *)
HostList ==
  /\ Idle
  /\ LET aliased == [n \in Name |-> IF Requested(n) # {} THEN Max(Requested(n)) ELSE alias[n]]
         listed == phi \cup {n \in Name : Requested(n) # {}}
         real(n) == IF aliased[n] # None THEN aliased[n] ELSE LogicalReal(n)
         live == {n \in listed : real(n) # None /\ Present(real(n))}
         tracked(map) == [n \in Name |-> IF n \in listed \ live THEN None ELSE map[n]]
     IN /\ phi' = live
        /\ alias' = tracked(aliased)
        /\ \E rows \in SUBSET {real(n) : n \in live} :
             proxy' \in Proxies(tracked(proxy), tracked(aliased), rows)
        /\ logical' = Without(logical, {real(n) : n \in listed \ live} \ core)
  /\ UNCHANGED <<core, nextId, rooted, wrap, pyBound, saved, job>>

(* list_atoms("ALL"): every atom of the Store is shown, nothing tracked. *)
HostListAll ==
  /\ Idle
  /\ proxy' \in Proxies(proxy, alias, core)
  /\ UNCHANGED <<native, alias, phi, job>>

(* consolidate: the atom is bound in a root bubble of its own. *)
HostConsolidate(n) ==
  /\ Idle /\ Found(n)
  /\ Bind(n, Resolved(n))
  /\ logical' = AfterGet(n)
  /\ UNCHANGED <<core, nextId, wrap, saved, host>>

-----------------------------------------------------------------------------
(* A name whose atom made directly the host may fail to find. *)
Taken(n) == Requested(n) # {} \/ alias[n] # None \/ n \notin Plain

StoreOp ==
  \/ (Tick \/ SnapshotAtoms \/ \E n \in Name : Unbind(n)) /\ UNCHANGED <<host, rolledBack, doubled>>
  \/ RestoreAtoms /\ Idle /\ rolledBack' = TRUE /\ UNCHANGED <<host, doubled>>
  \/ \E n \in Name : CreateDirectly(n) /\ Idle /\ doubled' = doubled \cup {m \in {n} : Taken(m)}
                     /\ UNCHANGED <<host, rolledBack>>

HostOp ==
  \/ NameIt \/ FinishCreate \/ HostList \/ HostListAll
  \/ \E n \in Name : HostCreate(n) \/ HostGet(n) \/ HostDelete(n) \/ HostConsolidate(n)
  \/ \E src, dst \in Name : HostClone(src, dst)

Next == StoreOp \/ (HostOp /\ UNCHANGED <<rolledBack, doubled>>)

Spec == Init /\ [][Next]_vars

-----------------------------------------------------------------------------
(* Properties *)

(* The maps beside the core agree with it between two calls: each atom has *)
(* one wrapper, what the core has bound Python has bound to the same atom, *)
(* and of what Python has bound only atoms that are gone are not bound in  *)
(* the core.                                                               *)
MapsAgree ==
  /\ TypeOK
  /\ DOMAIN wrap = core
  /\ \A n \in Name : rooted[n] # None => pyBound[n] = rooted[n]
  /\ \A n \in Name : pyBound[n] \in core => rooted[n] = pyBound[n]

(* A name never leads to an atom that was made for another: neither the    *)
(* Store's entries nor the host's aliases, nor, of a plain name, the       *)
(* proxies and bindings that outlive the atoms they were made for, meet a  *)
(* new atom under an old id.                                               *)
NoMisnaming ==
  \A n \in Name : \A a \in {logical[n], alias[n]} \cup (IF n \in Plain THEN {proxy[n], pyBound[n]} ELSE {}) :
    a \in core => wrap[a] = n

(* Two present atoms have one name only where a tool made one of them past *)
(* the host (which then goes by an alias of its own, stale or not, or does *)
(* not find a name that is not plain) or a transaction was rolled back:    *)
(* create_atom refuses a name that is taken.                               *)
UniqueName ==
  rolledBack \/ \A n \in Name \ doubled : \A a, b \in Requested(n) : a = b

=============================================================================
