---------------------------- MODULE HandleTable ----------------------------
(***************************************************************************)
(* The C ABI over the Store (native/karmazyn_substrate/src/ffi.rs): a      *)
(* global table from handles to stores behind the mutex STORES, called by  *)
(* any thread of the host.  A handle is a slot and a generation.  A call   *)
(* clones the store out of the table under the mutex and runs without it,  *)
(* since a tick runs host hooks that call back.                            *)
(*                                                                         *)
(* A store is its identity and the token of one atom; a call is one that   *)
(* sets the token, one that sets the payload (and writes the token back),  *)
(* a tick, one that registers a hook, or a free.  The entries of the table *)
(* HOOKS are written and never read: only its mutex is modelled.           *)
(***************************************************************************)
EXTENDS Integers, Sequences

CONSTANTS
  Thread,     \* threads of the host
  MaxSlots,   \* u32::MAX - 1 scaled down: slots of the table
  GenLimit,   \* 2^32 scaled down: where a slot's generation wraps
  MaxStores,  \* bound: stores made in a run
  Token,      \* tokens the host sets
  None        \* no store, no thread

ASSUME HandleAssumption ==
  /\ {MaxSlots, GenLimit, MaxStores} \subseteq Nat \ {0}
  /\ None \notin Thread \cup (1 .. MaxStores)
  /\ Token # {}

StoreId == 1 .. MaxStores
Handle  == [idx : 1 .. MaxSlots, gen : 0 .. GenLimit - 1]
Op      == {"set_value", "set_payload", "tick", "register", "free"}

VARIABLES
  slots,   \* STORES
  lock,    \* who holds its mutex between two steps: nobody does, CallsReturn rests on it
  hooks,   \* who holds the mutex HOOKS between two steps
  made,    \* stores made so far
  issued,  \* history: the handle ksub_store_new returned for each store
  tokens,  \* Atom.value_token of each store's atom
  pc,      \* the step each thread is about to take
  job      \* the call it is in: operation, handle, cloned store, token

vars == <<slots, lock, hooks, made, issued, tokens, pc, job>>

NoJob == [op |-> None, h |-> None, store |-> None, tok |-> None]
Job == [op : Op, h : Handle, store : StoreId \cup {None}, tok : Token \cup {None}]

(* The table and the calls are of their types. *)
TypeOK ==
  /\ slots \in Seq([gen : 0 .. GenLimit - 1, store : StoreId \cup {None}])
  /\ Len(slots) <= MaxSlots
  /\ {lock, hooks} \subseteq Thread \cup {None}
  /\ made \in 0 .. MaxStores
  /\ issued \in [1 .. made -> Handle]
  /\ tokens \in [1 .. made -> Token]
  /\ pc \in [Thread -> {"idle", "clone", "run", "write", "hook", "hooks", "enter", "drop"}]
  /\ job \in [Thread -> {NoJob} \cup Job]

InitialToken == CHOOSE k \in Token : TRUE

Init ==
  /\ slots = <<>>
  /\ lock = None /\ hooks = None
  /\ made = 0 /\ issued = <<>> /\ tokens = <<>>
  /\ pc = [t \in Thread |-> "idle"]
  /\ job = [t \in Thread |-> NoJob]

-----------------------------------------------------------------------------
(* slot_of: the store a handle names, None when it is stale. *)
Resolve(h) ==
  IF h.idx \in DOMAIN slots /\ slots[h.idx].gen = h.gen THEN slots[h.idx].store ELSE None

Live(s) == \E i \in DOMAIN slots : slots[i].store = s

FreeSlots == {i \in DOMAIN slots : slots[i].store = None}

Go(t, from, to) == pc[t] = from /\ pc' = [pc EXCEPT ![t] = to]
Return(t, from) == Go(t, from, "idle") /\ job' = [job EXCEPT ![t] = NoJob]

(* The mutex is taken for one step and given back in it. *)
Locked == lock = None /\ UNCHANGED lock

(* Mutant of NextGen: a slot used again keeps its generation. *)
SameGen(g) == g
NextGen(g) == (g + 1) % GenLimit

Issue(i, g) ==
  /\ made' = made + 1
  /\ issued' = Append(issued, [idx |-> i, gen |-> g])
  /\ tokens' = Append(tokens, InitialToken)

(* Mutant of StoreNew: the table grows without end. *)
StoreNewUncapped(t) ==
  /\ pc[t] = "idle" /\ Locked
  /\ made < MaxStores
  /\ slots' = Append(slots, [gen |-> 0, store |-> made + 1])
  /\ Issue(Len(slots) + 1, 0)
  /\ UNCHANGED <<hooks, pc, job>>

(* ksub_store_new: the first free slot with the next generation, else a    *)
(* new slot; a full table returns 0.                                       *)
StoreNew(t) ==
  /\ pc[t] = "idle" /\ Locked
  /\ made < MaxStores
  /\ \/ \E i \in FreeSlots :
          /\ \A j \in FreeSlots : i <= j
          /\ LET g == NextGen(slots[i].gen) IN
               slots' = [slots EXCEPT ![i] = [gen |-> g, store |-> made + 1]] /\ Issue(i, g)
     \/ /\ FreeSlots = {} /\ Len(slots) < MaxSlots
        /\ slots' = Append(slots, [gen |-> 0, store |-> made + 1])
        /\ Issue(Len(slots) + 1, 0)
  /\ UNCHANGED <<hooks, pc, job>>

-----------------------------------------------------------------------------
(* with_store *)

(* A host thread may call with any handle it was ever given. *)
Call(t, op, s, k) ==
  /\ Go(t, "idle", "clone")
  /\ job' = [job EXCEPT ![t] = [op |-> op, h |-> issued[s], store |-> None,
                                tok |-> IF op = "set_value" THEN k ELSE None]]
  /\ UNCHANGED <<slots, lock, hooks, made, issued, tokens>>

(* Mutant of Clone: the mutex is kept while the call runs. *)
CloneHoldingLock(t) ==
  /\ lock = None
  /\ job[t].op \in {"set_value", "set_payload", "tick"}
  /\ IF Resolve(job[t].h) = None
       THEN Return(t, "clone") /\ UNCHANGED lock
       ELSE /\ Go(t, "clone", "run")
            /\ lock' = t
            /\ job' = [job EXCEPT ![t].store = Resolve(job[t].h)]
  /\ UNCHANGED <<slots, hooks, made, issued, tokens>>

Clone(t) ==
  /\ Locked
  /\ job[t].op \in {"set_value", "set_payload", "tick"}
  /\ IF Resolve(job[t].h) = None
       THEN Return(t, "clone")
       ELSE /\ Go(t, "clone", "run")
            /\ job' = [job EXCEPT ![t].store = Resolve(job[t].h)]
  /\ UNCHANGED <<slots, hooks, made, issued, tokens>>

(* ksub_atom_set_value *)
SetValue(t) ==
  /\ job[t].op = "set_value"
  /\ Return(t, "run")
  /\ tokens' = [tokens EXCEPT ![job[t].store] = job[t].tok]
  /\ UNCHANGED <<slots, lock, hooks, made, issued>>

(* ksub_atom_set_payload reads the token, then calls atom_set_guest, which *)
(* writes it back with the payload.                                        *)
ReadToken(t) ==
  /\ job[t].op = "set_payload"
  /\ Go(t, "run", "write")
  /\ job' = [job EXCEPT ![t].tok = tokens[job[t].store]]
  /\ UNCHANGED <<slots, lock, hooks, made, issued, tokens>>

SetGuest(t) ==
  /\ Return(t, "write")
  /\ tokens' = [tokens EXCEPT ![job[t].store] = job[t].tok]
  /\ UNCHANGED <<slots, lock, hooks, made, issued>>

(* ksub_tick runs the host's hooks, which call back through with_store, or *)
(* register a hook.                                                        *)
RunHook(t) ==
  /\ job[t].op = "tick"
  /\ Go(t, "run", "hook")
  /\ UNCHANGED <<slots, lock, hooks, made, issued, tokens, job>>

HookReturns(t) ==
  /\ Locked
  /\ Return(t, "hook")
  /\ UNCHANGED <<slots, hooks, made, issued, tokens>>

HookRegisters(t) ==
  /\ Locked
  /\ Go(t, "hook", "hooks")
  /\ Resolve(job[t].h) # None
  /\ UNCHANGED <<slots, hooks, made, issued, tokens, job>>

-----------------------------------------------------------------------------
(* ksub_store_free and ksub_register_*: live_index, the table HOOKS and    *)
(* what is done with the store take their mutexes separately, and the      *)
(* registration takes STORES while it holds HOOKS.                         *)

FindSlot(t) ==
  /\ Locked
  /\ job[t].op \in {"free", "register"}
  /\ IF Resolve(job[t].h) = None
       THEN Return(t, "clone")
       ELSE Go(t, "clone", "hooks") /\ UNCHANGED job
  /\ UNCHANGED <<slots, hooks, made, issued, tokens>>

(* A free empties the entry and gives HOOKS back, a registration keeps it. *)
TakeHooks(t) ==
  /\ hooks = None
  /\ IF job[t].op = "free"
       THEN Go(t, "hooks", "drop") /\ UNCHANGED hooks
       ELSE Go(t, "hooks", "enter") /\ hooks' = t
  /\ UNCHANGED <<slots, lock, made, issued, tokens, job>>

(* with_store; the hooks of a store that is gone by now are not set.       *)
Install(t) ==
  /\ Locked
  /\ Return(t, "enter")
  /\ hooks' = None
  /\ UNCHANGED <<slots, made, issued, tokens>>

(* Mutant of Drop: the slot found before is emptied, whoever is in it now. *)
DropUnchecked(t) ==
  /\ Locked
  /\ Return(t, "drop")
  /\ slots' = [slots EXCEPT ![job[t].h.idx].store = None]
  /\ UNCHANGED <<hooks, made, issued, tokens>>

Drop(t) ==
  /\ Locked
  /\ Return(t, "drop")
  /\ slots' = IF Resolve(job[t].h) = None THEN slots
              ELSE [slots EXCEPT ![job[t].h.idx].store = None]
  /\ UNCHANGED <<hooks, made, issued, tokens>>

-----------------------------------------------------------------------------
Step(t) ==
  \/ Clone(t) \/ SetValue(t) \/ ReadToken(t) \/ SetGuest(t)
  \/ RunHook(t) \/ HookReturns(t) \/ HookRegisters(t)
  \/ FindSlot(t) \/ TakeHooks(t) \/ Install(t) \/ Drop(t)

Next ==
  \E t \in Thread :
    \/ StoreNew(t) \/ Step(t)
    \/ \E op \in Op, s \in 1 .. made, k \in Token : Call(t, op, s, k)

Spec == Init /\ [][Next]_vars

(* A thread of the host that is in a call goes on, and one that waits for  *)
(* HOOKS gets it though others register again and again.                   *)
FairSpec == Spec /\ \A t \in Thread : WF_vars(Step(t)) /\ SF_vars(TakeHooks(t))

-----------------------------------------------------------------------------
(* Properties *)

(* No ABA (ffi.rs:21): a handle names the store it was made for or         *)
(* nothing, through any number of frees and reuses of the slot short of a  *)
(* wrap of the generation.                                                 *)
HandleKeepsItsStore == \A s \in 1 .. made : Resolve(issued[s]) \in {s, None}

TableSound == TypeOK /\ HandleKeepsItsStore

(* A store goes only by a free of its own handle: neither a stale handle,  *)
(* nor a second free racing the reuse of the slot, takes another's store.  *)
OnlyOwnHandleFrees ==
  [][\A s \in 1 .. made : Live(s) =>
       \/ \E i \in DOMAIN slots' : slots'[i].store = s
       \/ \E t \in Thread : Drop(t) /\ job[t].h = issued[s]]_vars

(* Every call returns: a tick whose hooks call back or register hooks, and *)
(* frees and registrations, which need both mutexes (ffi.rs:90).           *)
CallsReturn == \A t \in Thread : pc[t] # "idle" ~> pc[t] = "idle"

=============================================================================
