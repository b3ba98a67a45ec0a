# A verification development for KarmazynOS

TLA+ models of the parts of KarmazynOS that keep state, the TLC runs that check
them on small instances, and TLAPS proofs for every instance of what matters most.
Paths below are relative to the repository (`src/...` is its root here); line
numbers are those of the modelled commit. `PROJECT.json` lists runs, mutants,
the definition-to-line map, findings, hazards and theorems in machine-readable
form.

## 1. Inventory

KarmazynOS is a userland in which every object is an *atom* with a temperature
in one *Store*. Atoms cool at each tick; an atom that is cold and that nothing
reaches is reaped. Guests (Lua, Lisp, Python) keep their values as atoms and
their scopes as *bubbles*; the shell, which may be PID 1, runs epochs, and the
world is saved to a snapshot with a journal beside it.

| Component | State | Operations | Interaction | What is hard | What makes it correct |
|---|---|---|---|---|---|
| **Store** `native/karmazyn_substrate/src/{store,snapshot,atom}.rs` | atoms, bubbles, bindings, parents, roots, id counters, retained set, `ticking`, `reach_gen`, hooks | create, bind, root, token, heat, delete, upsert, restore, import, lookup, tick, decay | called from every thread of the host and from its own hooks | the tick walks a copy *without* the mutex; hooks call back, panic, and answer for another moment | the law of the collector; no dangling names; fresh ids; lookups end; retained set true |
| **C ABI** `…/ffi.rs` | global table of slots and generations | new, free, `with_store` around each call | threads of a C host | re-entrance from hooks; free racing reuse | a handle names its store or nothing |
| **Slab Store** `native/karmazyn_slab` | the same data in fixed tables | the same, no threads, no heap | `boot/kentry` runs it | slots used again; tables and the walk's stack full | no stale slot; walk complete |
| **World persistence** `native/karmazyn_kafd/src/{world,flow}.rs`, `karmazyn_shell/src/disk.rs` | snapshot file, journal file, content keys, `full`, `writable` | load, save, compact | shell saves after each command; Store export and import | power cut between any two steps; torn tail; failing writes | what was saved is found; nothing comes back; a bad world is not overwritten |
| **Shell** `native/karmazyn_shell` | hash of what was saved, attached or pending disk, event journal, servitors, time stamp | command loop, epochs, autosync, `edit`, `sync`, `disk format` | drives all of the above in one thread | ordering of save, tick and servitors | every change saved; servitors sleep and wake |
| **Cynober client** `native/karmazyn_cynober` | session key, epoch, kafs flag | handshake, query, media put and get | TCP to a server of another repository | epoch rotation on two clocks; stream order | a session stays in step |
| **KAFD archive, cipher, seek** `native/karmazyn_kafd` | none between calls | pack, unpack, encrypt | used by world persistence | encodings | cross tests with Python |
| **Native guests** `native/karmazyn_lua`, `native/karmazyn_lisp` | interpreter frames | evaluate | hooks `env_of`, `extra_reach` | frames that a tick must respect | held values survive |
| **Python Lua guest** `LUA/evaluator.py`, `LUA/values.py` | coroutines, live environments, call and vararg stacks, `<close>` lists, `package.loaded` | resume, yield, close, call, block, require, REPL line | scopes are bubbles of the Store; live ones are its roots | generators end at many places; stacks shared by coroutines; handlers that fail | locals of open scopes live; each handler runs once; no coroutine twice on the stack |
| **Python bridge, PyO3** `native/karmazyn_substrate_native.py`, `native/karmazyn_substrate_rs` | maps of atoms, names and bindings beside the core | the Store's operations | Python programs; a background thread ticks | shadow maps going stale | maps agree with the Store |
| **Host tools** `software/karmazyn_host.py` | aliases, listed ids, proxies | create, clone, get, list, delete, consolidate by name | Lua tools, over the bridge | ticks between two calls of the Store; names used again; rollbacks | a name never leads to another's atom; a name is given once |
| **Cluster** (retired) `archiwum/karmazyn_cluster.py` | a record of every node heard of | join, heartbeat, stop, start | nodes over TCP | lost messages, restarts, staleness | nobody falsely offline; gone nodes noticed; two nodes know each other |
| **Processes** (retired) `archiwum/karmazyn_process.py` | process table, atoms of processes | spawn, kill, kill_tree, close_all, read, exit | threads of one Python process; terminals; phi | no locks on records; kills race spawns and exits | records of the living only; a tree is killed whole; who is told to end ends |
| **kcc** `toolchain/kcc`, **boot**, **holo** (kernel module), rest of **archiwum** | — | — | — | — | not modelled, see section 7 |

The hazards of this code, each at its line and with the properties that watch
it, are in `PROJECT.json` under `hazards`.

## 2. Modules

```
Substrate        the Store's data, every operation as the part under the mutex
  ├─ AtomicStore abstract: every operation, and a whole tick, is one step
  └─ Store       concurrent: reach_gen, ticking, tick and decay in phases
       ├─ MCStore      snapshots and rollbacks for TLC
       └─ StoreProofs  theorems (TLAPS)
World            content of a Store by document
  ├─ DurableWorld  abstract: what a save promises
  └─ WorldLog      snapshot + journal + recovery + Storage's guard
       ├─ MCWorldLog
       └─ WorldProofs theorems (TLAPS)
SlabStore        the freestanding Store in its tables
HandleTable      the C ABI's table of stores
  └─ SlotProofs   theorems (TLAPS) about both: what is kept in slots used again
Shell            when the shell saves, formats and writes its event journal
  └─ ShellProofs  theorems (TLAPS)
LuaGuest         coroutines, scopes, <close> variables and require of the Lua guest
  ├─ MCLuaGuest
  └─ LuaProofs    theorems (TLAPS)
NativeStore      the Python Store's maps beside the Rust core
  └─ LuaHost      names, aliases and proxies of the Lua tools, over NativeStore
       ├─ MCLuaHost
       └─ HostProofs theorems (TLAPS)
Gossip           who knows whom in a cluster
  └─ GossipProofs theorems (TLAPS)
Processes        the process table and its threads
  └─ ProcessProofs theorems (TLAPS)
```

### Substrate and Store

One variable per field of `Inner` that a branch depends on. `thermal, atoms,
temp, tok, nextAtom, bubbles, parent, binds, nextBubble, roots, envHook,
retained` are `Substrate`; `ticking`, `reachGen`, `extraHook` and what the guest
holds (`pins`) are `Store`, together with a program counter and the `ReachSnap`
of each thread. A method that holds the mutex from start to end is one action.
`tick` is four: `TickBegin` (the snapshot, under the mutex), `TickWalk` (the
walk and the `extra_reach` hook, outside), `TickApply` (under the mutex) and
`TickEnd` (the `Drop` that clears `ticking`); `HookPanics` goes from the walk to
the end. `decay_ticks` is list, cool, snapshot, walk, refresh: its three
critical sections and the walk between. Anything may happen between two steps.

What the walk will find in the copied bubbles is settled when the copy is taken,
so `TakeSnap` records it at once; this assumes that the `env_of` hook answers
the same for the same token throughout a walk, as the guests' hooks do (a token
is a function's scope). What `extra_reach` answers is read when it runs.

A file may be damaged: `import_snapshot` drops bindings and roots that lead
nowhere, repairs the counters, and takes parents and tokens as they are. Both
counters saturate, as in the code. Of `next_atom` nothing bad comes (an atom over
another is an upsert, which moves `reach_gen`); once `next_bubble` has saturated
on a bubble, `bubble_new` puts the new one over it. `intact` is a history
variable: what was last imported held together (`ClosedSnapshot`: parents older
than children, no parent or token a bubble that is not there), and `bubble_new`
has overwritten nothing since. What rests on references that resolve is stated
while the store is intact, the rest without the premise.

Abstractions. A temperature is the number of decays left before the atom is cold,
so the model has `TMax` levels instead of floats between 0 and 100. A token is the
bubble `env_of` maps it to. Labels, payloads and the counters `ticks`, `reaped`,
`touches` are left out, no operation branches on them. `env_of_hooks` is a list
whose first answer wins; `envHook` is whether there is one, since each host
registers one under its own name (`guest`, `c_abi`, `pyo3`). A store with two that
answer differently, whose first is taken away in mid-tick, is not covered. Removed
atoms keep temperature 0 and token 0 so that the state has one representation.
Snapshots give no bubble the id 0 (files of an older version might).

Reachability is stated as the least set closed under edges rather than as the
loop with a stack; the loop computes just that (push, skip if seen), and in the
slab, where the stack can overflow, the loop itself is modelled.

### World, WorldLog, DurableWorld

A world is a content per *document*: an atom (a version of its labels, token and
payload), a bubble (what it binds), or the native counters (`next_atom`).
`WorldLog` has the two files (`kafd`, `kafs`), how much of the journal an fsync
has made durable (`synced`), and the process (`opened`, `keys`, `full`,
`writable`). `save` is `SaveBegin`, one `AppendFrame` per changed document in the
code's order, `Commit` (the fsync), `SaveEnd`; a full save or an overgrown journal
is `WriteSnapshot` (tmp, fsync, rename: atomic) and `ResetJournal`. `Crash` may
come at any step and keeps any prefix of the frames not yet synced, the last
perhaps torn. `Crash` stands for the power cut itself, which is nobody's code;
recovery is `Recoverable` and the actions of load. When the reset of a journal
fails, the journal may be as it was or emptied already (`ResetFails`):
`File::create` truncates before the header is written. `MayFail`, `MayTear`,
`MayCorrupt` and `DirtySync` switch on failing writes, half-written frames, a
damaged snapshot, and a `sync` of unsaved changes. The shell is one thread, so the
Store changes only between saves, which `Change` says.

`may[d]` is a history variable: the contents that a restart may find for `d`,
which is what the last successful save wrote and what every save tried since
wrote. `DurableWorld` is the specification with that variable alone and no
files.

### SlabStore

The tables `atoms`, `bubbles`, `binds`, `roots` with their capacities, first
free slot first, names cut to `MAX_LABEL` when stored and compared whole. `Walk`
runs `walk_reach` pop by pop on a stack of `MAX_BUBBLES` places and remembers
what it dropped. The rate of decay is the model's one level per tick: it is set
once, before there are atoms and to 1 or less, as `boot/kentry` does it
(`set_decay` is not an action).

### HandleTable

The table `STORES`, one step per critical section. `with_store` clones under the
mutex (`Clone`) and runs without it; `ksub_store_free` is two critical sections.
`lock` is the mutex between steps: the code never keeps it, and `CallsReturn` is
violated as soon as it does (see its mutant). `hooks` is the second mutex, HOOKS:
`FindSlot` is under STORES, `TakeHooks` under HOOKS, which a free gives back
before its `Drop` takes STORES, and which a registration keeps through its
`Install`, where it takes STORES as well. Hooks of the host run in a tick with
neither, may call the table, and may register hooks themselves (`HookRegisters`).
What HOOKS holds is left out: nothing reads it.

### Shell

One thread: `Dispatch` notes the command in the event journal, `Run`,
`EditSave`/`CloseEditor`, `Sync` or `Format` is what it does, `Autosync` ends
it; `Epoch` may come between commands. `synced` is the hash the shell remembers,
`store` and `disk` are what is in memory and what a load would find, each a
*content* (all that `content_hash` covers) and the numbers of the journal's
entries, which it leaves out; it does not leave out the bubble that the first
entry makes, so `Hash` tells whether there is one. Nor does it leave out the
bubbles and roots of the guests, `repl` and `lua`, which a load makes sure of
(`Remounted`) between reading the file and remembering the hash: a world written
without them differs from the Store by them alone, and counts as saved
(`OnDisk`). `guests` is whether they are there. A save is one step with or
without success here: that a failed save may leave frames behind is `WorldLog`'s
subject. What a command does to the content is free, `load` included.

### LuaGuest

A coroutine is a Python generator that runs on the stack of whoever resumed it:
`chain` is Main and the coroutines each resumed by the one before, and only its
last one executes. `stack[t]` is the scopes open in thread `t`, each with the form
of the call that opened it, why it is being left, and the list under `@tbc` with
the copy `_close_env` works through. `live` is `_active_envs`, one list for all
threads, and `va` the stack of varargs of each. Statements are actions: `Enter` (a
call or block, or a call by `pcall`), `Declare` (`local x <close>`), `Leave` (end,
return, break, error), `CallHandler`, `Finish`, `Resume`, `Yield`,
`CloseSuspended`, `CloseNormal`, `Require`, `Unload`, `SetLoaded`; `RunLine` and
`RunChunk` are the host's `eval_line` and `run_source`. `require` of a module that
is not in the cache is `Require` when the host's own searchers answer, which run
nothing of the guest. `package.searchers` is the guest's to write: `AskGuest`
looks at the cache and calls a searcher of the guest, whose body may do anything,
yield or require the same module included, and when it returns `LoadAnswer` marks
the entry and calls the loader, `AskNext` asks another, or `NotFound` raises. What
lies between two of them runs on one thread and touches none of this state.
`YieldInGate` is a yield that meets a C function: `_sync_drive` ends the generator
under it. `YieldTemporary` is a coroutine of which nothing keeps a reference:
Python ends its generator when `resume` has returned, with the wrong stack of
varargs installed. Whether a program can reach a state is not asked of its text:
any sequence of operations is a program. Bounds: `MaxOps` scopes opened, variables
declared and entries of `package.loaded` cleared; `BodyVarargs`, whether the
bodies of coroutines take varargs (in the run they do: one that takes none touches
no stack of varargs). A searcher of the guest takes no varargs.

### NativeStore and LuaHost

`core`, `nextId` and `rooted` are what the Rust Store holds of an atom; `wrap`,
`logical` and `pyBound` are the bridge's `_atoms`, `_logical` and the copies of
bindings. An atom is its id; a wrapper is the name it was created for. A lookup
strips the name and takes a string of digits for an id of the core: `Reads` says
what each name is taken for. A name that is the decimal string of a number is that
number in the model, a padded one reads as another, a blank one as none; a name
taken for itself is `Plain`. A number made into an atom gets an id like any other
and no entry in `_logical`, so the host may not find the atom, make it a second
time, or find, clone, list or delete the atom whose id the number is; `HostNames`
has one such name. A method under the Store's lock is one action, and
`create_atom`, which takes the lock twice, is two (`HostCreate`, `NameIt`) with a
third for what the host does when it returns (`FinishCreate`). `Tick` may come
anywhere and takes any atoms that no root binds: temperature is `Substrate`'s
subject. `LuaHost` adds `_id_alias`, `_phi_ids` and `_proxy_by_id`; `HostList` and
`HostListAll` are `list_atoms` with and without its reconciliation, which make
proxies of what they show; `CreateDirectly` is the thermal surface or the
satellite map, which create atoms without asking the host. In a clone over a name
that is taken the deletion and the creation are one step. Bound: `MaxId`.

### Gossip

Time goes by intervals of `GOSSIP_INTERVAL`; `age[n][m]` is how many of them ago
`n` last heard of `m`, capped at the timeout. `Tick` is a pass of a node's tick
thread: it picks `RING_K` peers that are not stale and its heartbeats to them are
handled, refused by nodes that are down, or lost. A pass that ends in an exception
(the records are gone through without a lock, and a handler may add one just
then) is one whose heartbeats are all lost. `Join` is the call, the answer
with the list of nodes, and what the joining node makes of it; the answer may be
lost. `Crash` stops a node, `Start` starts it anew with an empty registry. Bound:
`MaxFaults` crashes and losses.

### Processes

One program counter per thread, the desktop's and each process's. A step is what
a thread does up to the next read or write another thread can tell from it:
`spawn` is `Spawn` (pid and record: the pid is drawn a little earlier, under a lock
of its own, and nobody sees it before the record), `MakesAtom`, `Prepares`
(RUNNING, the thread object) and `Starts`; the exit is `Exits` (the state),
`DropsAtom` and, once the listeners of the exit and the log were called,
`ExitReaps` (the record); `kill` is `Looks`, `Asks`, and `Joins`, `TimesOut` or
`Raises`; `kill_tree` walks the table once per process (`Walks`). A target is a
loop that looks at `ctx.alive()` (those in `Coop`) or does not, reads its
terminal, and may spawn and kill. Bounds: `MaxPid` processes ever, `MaxWork`
spawns and kills ever. phi is taken not to fail: `_make_atom` and `_kill_atom`
swallow exceptions, after which a process would run without an atom.

## 3. Runs

Every run finishes on two workers within about three minutes, most of them within
one. Deadlock is checked except in `LuaCoroutines`, `HostNames` and `Processes`,
where a session that has used up its operations, a host nobody calls and a system
whose processes have ended may stop. Properties of one instance share a run. The
run marked (x) ends in a violation, of a property that the repository states and
its code does not have.

| Run | Bounds | Question |
|---|---|---|
| `StoreTick` | 2 atoms, 2 bubbles, 1 name, 2 temperature levels, 2 ticking threads (symmetric), three files: sound, with a dangling root and counters behind, with a cycle of parents; rollbacks, 2 changes of `reach_gen` | the law, also with ticks that overlap after an import; the walk's coverage; references, fresh ids and parents until the ids run out |
| `StoreEpoch` | 1 fair ticker, 1 cooler, one atom that frames may hold, an import of either kind, a rollback, panics, thermal and not, 1 change | what cooling may not do; the split tick implements the atomic one; held atoms; garbage goes |
| `WorldCrash` | 1 atom, 1 bubble, 2 versions, 3 frames before a save, compact at 4, no fault but power cuts | what a restart finds; refinement of DurableWorld |
| `WorldFailedSave` (x) | 2 atoms, 1 bubble, 2 versions, compact at 3, failing writes | the keys are those of what is on the disk (`world.rs:528`) |
| `WorldFaults` | 1 atom, 2 versions, 1 frame before a save, compact at 2, all faults | an unreadable world is kept; a compact heals |
| `SlabSlots` | 2 atoms, 2 bubbles, 2 slots each, 1 root, a short and a long name | slots used again; one slot per name; the walk and the tick |
| `HandleReuse` | 2 threads, 2 slots, 3 stores, generations wrap at 4 | handles, frees, re-entrance, two mutexes |
| `ShellSync` | 3 contents, journal of 2 entries out of 4, failing saves, autosync on and off, batch and interactive, formats at the start | what is saved at a prompt, and what is never overwritten |
| `LuaCoroutines` | 2 coroutines (symmetric), 1 module, 5 operations | live scopes, varargs, handlers once, the chain of coroutines, require |
| `HostNames` | a plain name and a number, 3 ids, one snapshot kept | names, aliases, proxies and maps across ticks, rollbacks and direct creations, where a lookup may take the name for an id |
| `Gossip` | 3 nodes, `RING_K` 1, timeout 3 intervals, 1 fault | who is taken for offline and who gets to know whom, when each tick leaves a node out; gone nodes |
| `Processes` | 3 processes, one of them cooperative, 4 spawns and kills | records; what kill_tree finds and in which order; the end of who was told |

Why the bounds are enough. Two bubbles and two atoms give the shortest chain that
matters to the walk: a rooted bubble whose atom's token is an environment that
binds another atom, or a child whose parent binds it; every operation that adds
reachability adds it along one such edge. One name suffices because a bubble's
second name behaves as its first. A stale walk needs one change between snapshot
and apply; two changes allow one for set-up and one in the window. Two tickers are
the least that overlap. A store that starts empty or with the file whose counters
are behind has bubble ids to give out, the other two files take the last one, so
that the next bubble goes over it. For the world, a bubble and its atom are the
pair that must not be torn apart; two versions make an old content
distinguishable; the journal lengths let frames of two saves coexist and the
compaction threshold be crossed. Two slots and three stores reuse a slot;
generations that wrap at 4 are never used 4 times, as 2^32 is not. Three contents
are one saved, one lost and one written since; two entries kept out of four let
the ring drop some. Two coroutines with the host's thread are the least that make
a chain of three and leave scopes in another order than they were opened; five
operations open a scope in each, with two `<close>` variables, or a loader within
a coroutine within a loader. Three ids let a name be deleted and made again while
the atom of the other is there, and one of the two names is the id of an atom that
may be either's; names that differ from what a lookup makes of them by padding
only are covered by the proofs alone. Three nodes have one that is told of another
by the third, and with a ring of one place every tick leaves a node out; a fault
is what makes two differ in what they know. Three processes are a chain of a
parent, a child and its child; one that keeps the contract between two that need
not is killed by either. The bound on `reach_gen` (`MaxGen`) is in the guard of
`TouchReach`, the bound on the journal (`MaxJournal`) in `SaveBegin`, the bound on
stores (`MaxStores`) in `StoreNew`.

### Where code and documents disagree

`WorldFailedSave` is a run, and a finding in `PROJECT.json` that quotes the
document: `world.rs:668` leaves the frames of a failed save in the journal,
unknown to `keys`, so an undone change is never written back, though the comment
at `world.rs:528` says of `keys` that they are those of what is on the disk. It
needs a write to fail.

The others have no run of their own. Where a formula or a constant is named, TLC
finds a counterexample when it is checked in the run named.

Store and C ABI:

- `store.rs:382`: `bubble_new` at the end of the ids replaces the bubble that has
  the last one and leaves `reach_gen` alone (`snapshot.rs:160` saturates too, so
  one damaged id in a file is enough). A tick in progress may then reap what the
  new parent has made reachable, against `store.rs:51` (`StoreTick` with
  `\A t \in Thread : Covers(t)`, which is `SnapCovers` without `intact =>`).
- `snapshot.rs:149` checks neither parents nor cycles of them: `lookup`
  (`store.rs:415`) of a name that none of a cycle binds climbs for ever with the
  mutex held. A file with one (`Cyclic` of `MCStore`) or a bubble made its own
  parent after the last id does it (`StoreTick` with
  `\A b \in BubbleId : parent[b] < b`).
- The slab's `lib.rs:510`: a full walk stack drops a bubble, and a cold atom that is
  reachable through it is reaped, against the law at `lib.rs:14`. With the real
  sizes it takes a chain of nine bubbles whose eight names each lead to the next
  (`SlabSlots` with `[][Tick => ReachAtoms \subseteq atoms']_slabVars`).
- `ffi.rs:137`: `ksub_atom_set_payload` reads the token and writes it back under
  two locks; a token another thread sets in between is undone, against the
  comment at `ffi.rs:123` (`HandleTable` with two tokens:
  `[][\A t \in Thread : SetGuest(t) => tokens' = tokens]_vars`).
- `store.rs:376`: `bubble_new` can add reachability without moving `reach_gen`
  when its id was named before (`StoreTick` with `ForwardRefs` TRUE and a third
  bubble violates `ReachGenGrowsWithReach`); the comment at `store.rs:52` says
  every such change moves it. The Store's properties are stated for callers that
  name only bubbles they were given.

World and shell:

- `main.rs:786`: a disk formatted while the shell runs starts empty, and autosync
  takes the Store for saved until it changes again, against `main.rs:84` and
  `main.rs:86`. No fault is needed: `disk format` is what the shell tells the
  operator to type for a device whose data it does not know (`ShellSync` with
  `FormatLate` TRUE violates `PromptSaved`).
- `flow.rs:465`: a half-written frame is not cut off before the next append, and
  recovery cuts there, so frames committed behind it are lost (`WorldFailedSave`
  with `MayTear` TRUE violates `SavedOnDisk` this way too).
- `world.rs:614`: after a power cut that loses the counters' frame, `load` takes
  the Store's counters for the disk's, no save writes them again, and the id of
  a saved and deleted atom may be given out again. `DurableWorld` therefore
  promises of the counters only that they are past every atom loaded.
- `world.rs:690`: `sync` of changes no save has written yet, interrupted before
  the journal is emptied, replays old frames over the new snapshot. It takes
  autosync off, a save that failed, or a change of the event journal alone
  (`WorldCrash` with `DirtySync` TRUE violates `WorldSound`).
- `main.rs:1053`: `disk format` of a device that can be mounted by then formats
  nothing and loads its world over the Store at hand, without a word about what
  was in it; the comment at `main.rs:1043` says that it wipes the device and starts
  a new world (`Format` of `Shell` with `disk' = disk`).

Lua guest and host tools:

- `evaluator.py:347`, `357`, `369`: `require` looks at the cache, asks the
  searchers, and marks the entry without another look; a searcher of the guest
  that requires the same module has the loader run twice with no entry cleared,
  against `Lua_manual/lua_kurs_karmazyn.md:648` (`LuaCoroutines` with `\A m \in
  Module : loads[m] <= unloads[m] + 1`). `LoadedOnce` says how often it may run.
- `karmazyn_substrate_native.py:786`: a name of digits is looked up as an id of
  the core, and the host reserves only `a0`, `a1`, ... (`karmazyn_host.py:21`):
  once its own atom is gone, or if it has none, the name finds the atom of another
  and the host keeps a proxy of it, against `karmazyn_substrate_native.py:740`
  (`HostNames` with `\A n \in Name : \A a \in {proxy[n], pyBound[n]} : a \in core
  => wrap[a] = n`).
- `values.py:349` says the varargs of a thread are its own; a suspended coroutine
  collected as a temporary of the resuming statement ends with the stack of
  varargs of the thread that resumed it installed and pops that
  (`VarargsKept` without its premise).
- `evaluator.py:411`: closing a coroutine that waits for another it resumed (the
  status `normal` of `values.py:340`, which nothing ever sets) marks it dead and
  raises; it runs on, and at its next yield its generator is dropped with its
  `<close>` variables unclosed (`lost` in `ClosedOnce`).
- `evaluator.py:1078`: a `__close` handler that fails keeps the remaining ones
  from running, `evaluator.py:1597` drops those of the scopes under a `pcall`
  that a yield meets, and the scope of a REPL line (`evaluator.py:976`) has no
  step that calls them: the other cases of `lost`.
- `evaluator.py:1122`: coroutines that interleave leave bubbles of closed scopes
  on `_active_envs`; they stay reachable for the rest of the session.
- `evaluator.py:370`: a loader that fails leaves `True` in `package.loaded`, so
  the next `require` succeeds without it.
- `karmazyn_host.py:145` calls a proxy live by its id; the cached one keeps the id
  of the atom it was made for while the alias may have moved on (`HostNames` with
  `\A n \in Name : {alias[n], proxy[n]} \subseteq core => proxy[n] = alias[n]`).
- `karmazyn_host.py:470` refuses a name that is taken; a number or a padded name
  made past the host is not found and may be made again (`HostNames` with `Taken`
  without its last disjunct violates `UniqueName`).

Cluster and processes:

- `karmazyn_cluster.py:419`: `_select_peers` takes the first `RING_K` nodes by id,
  the same for every node; nobody talks to those behind them, and when their
  records are stale they talk to nobody, against `karmazyn_cluster.py:289`
  (`Gossip` with the invariant that, `faults = 0`, a node which knows `RING_K`
  others selects as many). `NoFalseOffline` and `BothKnow` therefore speak of
  `Core`, the first `RING_K + 1`.
- `karmazyn_cluster.py:299` says eventually consistent: nodes that have been
  stale to each other never contact each other again, so `BothKnow` needs its
  premise.
- `karmazyn_cluster.py:647`: step 3 of the docstring of `join`, sending its own
  JOIN to the nodes it got to know, is not in the code.
- `karmazyn_process.py:303` promises that `kill_tree` ends all descendants: one
  whose parent has exited meanwhile, or that is spawned behind the walk, is not
  found. `Hangs` and `due` in `KillFindsAll` say which are.
- `karmazyn_process.py:295`: a kill between the making of a thread and its start
  raises, and `close_all` and `kill_tree` leave the rest alive (`Raises`).

## 4. Fairness

`Store!FairSpec`: weak fairness of `TickStep` for each ticker. The shell's epoch
loop ticks for ever where a period is set (`main.rs:200`, `main.rs:234`: without
one, epochs come by command only, and nothing is claimed), and between the begin
and the end of a tick nothing blocks: the mutex is free between steps and the
hooks return or panic. No fairness is assumed of guests, and a bounded number of
changes of `reach_gen` stands for the assumption that guests do not overtake every
tick for ever (in the single threaded shell none can). A hook that panics in every
tick ends each before it reaps, so `GarbageIsReaped` speaks of executions in which
ticks get past the hooks again and again. `HandleTable!FairSpec`: weak fairness of
each thread that is inside a call, and strong fairness of its taking HOOKS. The
mutexes of the standard library promise no order, so a host that registers or
frees without a pause could in principle keep another from HOOKS for ever; that it
does not is assumed, that nobody waits for a thread that waits is checked.
`Gossip!Fairness`: each running node's tick thread does its tick and an interval
passes when all have; nobody has to join or to start, and losses are bounded by
`MaxFaults`. `Processes!Fairness`: threads are scheduled, and a thread that reads
its terminal notices the shutdown (it looks ten times a second,
`karmazyn_display.py:93`). That a line of input comes, or that anyone spawns or
kills, is not required; a target at work goes on to something, and that a target
outside `Coop` ends is never assumed. No fairness is assumed of the world's
persistence, the shell, the Lua guest or the host tools: their properties are all
safety.

## 5. What is proved

`StoreProofs.tla`, for every value of the constants that satisfies
`SizesAssumption`, `InputsAssumption` and `StoreAssumption`: any number of
atoms, bubbles, names, ticking and cooling threads, any sets of snapshots and
rollbacks of their types.

| Theorem | Assumes | States |
|---|---|---|
| `TypeCorrect` | | `Spec => []TypeOK` |
| `Structure` | | no dangling binding, retained atoms present, `next_atom` fresh |
| `References` | no forward references | roots resolve; parents and tokens do (*) |
| `LookupsEnd` | no forward references | parents are older than children (*) |
| `BubbleIdsFresh` | | a new bubble's id is unused until the ids run out |
| `Sound` | no forward references | the four together, as `StoreTick` checks them |
| `GenerationGrows` | no forward references | what becomes reachable moves `reach_gen` (*) |
| `SnapshotCovers` | no forward references | a walk covers what is reachable while `reach_gen` stands (*) |
| `Law` | no forward references | no tick reaps what is reachable when it reaps (*) |
| `RemovalsAreKnown` | | only a tick's apply, a delete, a rollback or an import takes an atom away |
| `PinsSurvive` | | what the guest held throughout a tick survives it |
| `TickIsAtomic` | no forward references | `Spec => RefinesAtomic`: the tick in phases implements `AtomicStore` (*) |

(*) while the store is `intact`; files are any that have the types, damaged ones
included, and section 3 shows what happens without the premise. "No forward
references" is `~ ForwardRefs`: no caller names a bubble that `bubble_new` has not
returned; without it `GenerationGrows` is false (section 3).

The argument. The law is not inductive: an apply trusts a walk that is out of
date. The strengthening `LawInv` adds `SnapCovers`: a thread's walk covers
everything reachable, or `reach_gen` has moved since its snapshot. `SnapCovers` is
preserved because each step that enlarges `ReachAtoms` moves `reach_gen` (one
lemma per operation, comparing the least closed set before and after), so at the
apply either the walk covers all and nothing reachable is doomed, or `reach_gen`
differs and nothing is reaped. That a step does *not* enlarge reachability needs
`ReferencesResolve`, since a new bubble is harmless only if it overwrites none
(`intact'`) and nothing points at it yet; `ReferencesResolve` rests on `StructInv`
and `TypeOK`. `StoreInv = TypeOK /\ StructInv /\ FreshBubbleId /\
ReferencesResolve` and `LawInv = StoreInv /\ SnapCovers`. `PinsSurvive` has an
invariant of its own, `HeldInv`: what was held since the snapshot is in the walk
once the hook has run.

`TickIsAtomic` maps every variable to itself. An operation of `Substrate` is the
operation of the same name of `AtomicStore` (the `Same...` lemmas: `AtomicStore`
instantiates `Substrate`, so the two are different definitions); the phases that
only copy and walk leave the data alone; and `TickApply` is `Collect` with the
walk as witness, reaping only if `reach_gen` stands, in which case `SnapCovers`
says that the walk covers what is reachable. The proof found a case the abstract
store had wrong: an import in mid-tick may replace a thermal store by one that
does not cool, and the apply then refreshes but must not reap. `Collect` says so
now, and `StoreEpoch` imports a snapshot of either kind (`TwoClosures`).

`SlotProofs.tla`, part 1, about `SlabStore`, for any sizes of its tables and any
names (`SlabAssumption`):

| Theorem | Assumes | States |
|---|---|---|
| `SlotsAreSound` | | nothing points at an empty slot, nor at one taken since |
| `WalksAreComplete` | | a walk that loses nothing it does not see misses nothing |
| `TicksReapGarbage` | | a dead atom that a tick leaves was reachable, and is retained |

`SlotsSound` is inductive as it stands. The other two are about `Walk`, a loop:
`WalkInv` is its invariant (what it saw, has on its stack or lost contains the
roots and wherever what it saw leads, and can all be reached), `Pops` shows that
a pop keeps it, and `PopsLeaveLess` that each pop takes one off what is on the
stack and what the bubbles not yet seen may still put there, so that `MaxPops`
pops empty the stack (`WalkEnds`). Then either something was lost and not seen,
or what was seen is closed under `Edge`, and the least closed set is in it.

`SlotProofs.tla`, part 2, about `HandleTable`, for any number of threads, slots
and stores:

| Theorem | Assumes | States |
|---|---|---|
| `NoABA` | `NoWrap` | a handle resolves to the store it was issued for or to none |
| `TableIsSound` | `NoWrap` | the same with the types of all variables, as the runs check it |
| `FreesOwnStore` | `NoWrap` | a slot is emptied only by a free with the handle of the store in it |

`NoWrap` is `MaxStores <= GenLimit`: not so many stores are made that a
generation comes round. The invariant has two parts. `TableInv`: the generation
of a slot is below the number of stores made, and no handle issued is ahead of
its slot's generation, so a new generation is one no handle has. `JobInv`: the
handle of a running call was issued, so the slot a free found by it is that
store's as long as the generation matches, which `Drop` checks again.

`ShellProofs.tla`, for any contents, entries and bounds:

| Theorem | Assumes | States |
|---|---|---|
| `Saved` | `EarlyFormat` | `Spec => []PromptSaved` |
| `JournalQuiet` | `EarlyFormat` | autosync writes only content the disk does not have |
| `Kept` | | an unreadable world is not written over, an attached disk not formatted |
| `TypeCorrect` | | `Spec => []TypeOK` |

`EarlyFormat` is `FormatLate = FALSE`; section 3 shows why it is needed. The
invariant is `Remembered` (while a world is attached, the hash remembered is
that of the content on the disk) with `Prompted` (at a prompt without an error
it is the Store's too). `PromptSaved` alone is not inductive: between a prompt
and the next the Store changes, and only the hash links the two. `TypeCorrect`
is inductive by itself but for the ring of the event journal: that it keeps at
most `KeepEntries` numbers is an argument about cardinalities (`CapInv`).

`GossipProofs.tla`, for any number of nodes and faults:

| Theorem | Assumes | States |
|---|---|---|
| `GossipTypes` | | `Spec => []TypeOK` |
| `NobodyFalselyOffline` | `LastsLong` | while nothing was lost and nobody stopped, no core node's record of another is stale |

`LastsLong` is `Timeout >= 3`: a record lasts three intervals (the code's 30 s are
fifteen of 2 s). The number of nodes and `RING_K` are free. A tick reaches `RING_K`
nodes only, and all nodes that are fresh compete for the places; but the order is
by id, so before a core node m, one of the first `RING_K + 1`, and but for the
sender, itself one of them, there are fewer than `RING_K` nodes (`FewBefore`), and m
is selected whatever the others do (`CoreSelected`). Of a node beyond the core the
claim is false (section 3). `NoFalseOffline` is not inductive: that a
record is fresh says nothing of the heartbeat that will renew it. `RecentPair`
relates the two records of a pair to who has ticked in this interval: if the two
know each other, each record is at most two intervals old, and at most one once
the other has ticked; if only one knows the other, its record is younger still and
its own heartbeat of this interval, by which the other will know it, is yet to
come.

`ProcessProofs.tla`, for any number of processes, spawns and kills:

| Theorem | Assumes | States |
|---|---|---|
| `ProcessRecords` | | a thread that runs has its record to the last step of its exit and its atom to the one before; neither outlives it |
| `NobodyMissed` | | a kill that returns has asked everyone it was to ask |
| `ChildrenAskedFirst` | | `kill_tree` asks children before their parents |

The invariant of the first adds `SpawnInv` (the child of a spawn in progress is in
the table, is not yet a thread, has its atom before it gets its thread, and is
nobody else's child) and `ListsInv` (a kill takes from sequences that are not
empty). Without the first, a spawn's last steps could start a thread whose record
another's exit has taken away. The argument about `SetToSeq` is that a finite set
of pids has an enumeration.

The two about kills hold of a walk that is not atomic: between two of its looks
at the table processes are spawned, exit and are reaped, and other kills run.
Neither is inductive. `TreeKillInv` adds three things. `TreeInv`: a pid is
larger than its parent's, and pids are given out in order, so the line of a
process ends at the desktop and no step changes who is on the line of a process
that is there. `AskInv`: a process is a ZOMBIE only if it was asked, and a kill
waits only for one that was. `KillInv`, of each kill in progress: whom it seeks
and who has not heard is on its list or below one whose children are yet to be
looked for (`FoundInv`), and the children of one on its list stand before it or
are yet to be put there (`OrderInv`). A step of somebody else only takes
processes away from whom a kill seeks (`KillStays`); a step of its own moves one
pid from the front to the list (`WalkKeepsKill`) or drops a target that has
heard (`KillPops`). `Line`, who is on the line of a process, is a recursive
function of the table: that it exists, what it is for a process and its parent,
and when a change of the table leaves it alone (`LineStep`, `LineFacts`,
`LineKept`) are proved by induction on pids, with the same lemma `Induction` as
in `LuaProofs`.

`WorldProofs.tla`, for any numbers of atoms and bubbles, any versions and any
bounds on changes, frames and failures:

| Theorem | Assumes | States |
|---|---|---|
| `TypeCorrect` | | `Spec => []TypeOK` |
| `UnreadableStays` | | the files of an unreadable world are not written |
| `CompactLeaves` | | a compaction that succeeds leaves the world it was given |
| `CutsAreSound` | `Reliable` | wherever power is cut, what is read back is closed |
| `KeysAreSaved` | `Reliable` | between saves, `keys` is what a load would find |
| `Crashproof` | `Reliable`, no damage | snapshot, journal and recovery implement `DurableWorld` |

`Reliable` is `~ MayFail /\ ~ MayTear /\ ~ DirtySync`: power may be cut at every
step, and any part of what was not synced be lost, but a write that returns an
error or a `sync` of unsaved changes breaks each of the last three (section 3).
The invariant has two layers. `BaseInv` holds whatever fails: the worlds in
memory are closed (`Good`), a save works on a Store that does not change under
it, `writable` is off exactly in a process that found an unreadable world.
`JournalInv` adds what `Reliable` gives: the frames are whole and those before
the current save are synced (`WholeInv`), frames went out in the code's order
(`OrderInv`), the disk says of each document what `keys` says, or what is being
saved once its frame is out (`KeysInv`), and *every* prefix of the journal that a
cut can leave is closed and promised (`KeptInv`). The last is the property that
is wanted, for all future crashes at once; it is not inductive without the
order: that a half-saved world is closed (`HalfSavedClosed`) is because atoms go
out before the bubbles that bind them and deletions after those that no longer
do. A replay is the content of the last frame of each document, not a recursion,
so what one more frame, a cut or a snapshot makes of it are lemmas of part 1.
The refinement maps `durable` to `Recoverable`; an append maps to a step in
which one document reaches the disk, a crash to one that loses some of what no
save acknowledged, and the fsync or the empty journal of a compaction to the
acknowledgement.

`HostProofs.tla`, for any names and any number of ids:

| Theorem | Assumes | States |
|---|---|---|
| `Agreement` | | the bridge's maps agree with the core |
| `NamesLead` | | no entry and no alias leads to another name's atom, nor a proxy or binding of a plain name |
| `OneAtomEach` | | without rollbacks, a name the host gives has one atom, unless one was made past it when the name was taken, aliased or not plain |

The invariant `HostInv` speaks of atoms that are gone, which the properties do
not: an entry under a name is an id below `nextId` which, if its atom is there *or
can come back from the snapshot of a transaction*, was made for the name (`Own`).
Of the proxies and bindings it speaks only for plain names (`PlainMaps`): a name
read as an id may have any (section 3). It is that clause that a rollback needs,
and `nextId` never going back that a creation needs. `UniqueName` also needs
`FreshNames` (before a rollback an entry of `_logical` is stale only between the
halves of a create, and is that create's) and `OneAtom` (the one atom is the one
being made, or the alias's).

`LuaProofs.tla`, for any coroutines and modules and any number of operations:

| Theorem | Assumes | States |
|---|---|---|
| `ThreadsAreSound` | | types; one place on one chain; what is suspended is clean |
| `FramesAreKept` | | open scopes are roots; varargs are those of the open scopes |
| `HandlersRunOnce` | | a `<close>` handler is called once, or its scope was lost |
| `ModulesLoadOnce` | | a loader runs once, and once more for each time its entry was cleared or a require found it after asking a searcher of the guest |
| `NoneRevives` | | a coroutine that ended or was closed never runs again |

The invariant `Inv` is `HeapInv` (every scope open somewhere is open once and
was made: `Apart`; handlers on the list of a scope or of the copy being worked
through are uncalled and on one list only, the others are called or lost:
`StackSound`, `Settled`; with `LiveEnvKept` and `VarargsKept`), `ChainInv` (each
coroutine's status goes with its place, `Placed`), and `LoadInv`. None of the
properties is inductive alone: that no handler is called twice needs that a scope
is on one stack only, which needs the chain to be of distinct threads. An
operation changes the stack of one thread in one of five ways (a scope is pushed,
a variable declared, the top begins to be left, a handler called, the innermost
scopes dropped), and a coroutine that is collected drops its own; a lemma for
each way gives the same few facts (`Moves`), and `MovesKeep` shows once that they
preserve `HeapInv`. What the clauses of `finally` leave (`Finally`) and what
varargs a stack implies (`Varargs`) are recursive functions, and facts about them
need induction. The library's theorems are out of reach here (they take an
operator), so `Induction` is stated for a *set* of numbers, and proved from the
order on the naturals being well founded (`WFMin`); with it the unrolling of such
a function exists and is unique (`VarargsAgree`, `FinallyExists`).

`SavedOnDisk` is proved under the premise that its violation run drops.

Only model-checked: liveness (`GarbageIsReaped`, `CallsReturn`, `BothKnow`,
`GoneIsNoticed`, `ToldEnds`), which is out of the prover's reach. Every other
property of a run that passes is stated by a theorem, under the assumptions the
tables name.

## 6. Mutants

Each property of each passing run has a mutant in the module beside the
definition it changes ("Mutant of ..."): a forgotten `touch_reach`, a dropped
purge, trusted counters, an fsync left out, frames in another order, an unchecked
free, a list of handlers not emptied, one stack of varargs for all coroutines, an
id used again, a heartbeat of an unknown node ignored, a tree walked one level
deep, a join without a timeout, and so on. The property is violated when the
mutant takes the definition's place.

## 7. What is not modelled

- KAFD encoding, encryption, random access: functions of bytes.
- `compact_journal`, checkpoint and end frames, thermal headers: tools over the
  same journal, not used by the world's save and load.
- Servitors, and what the time stamp and the seeds write: any change of content
  to `Shell`.
- Foreign ids in worlds written by Python, and temperature stamps: they change
  what a load makes of a file, not what survives.
- A crash inside the eight bytes of a new journal's header: it is written whole or
  not at all, and a journal without one counts as empty.
- More than one `env_of` hook in a store; a rate of decay changed after the start of
  the slab.
- A mutex poisoned by a panic under it (`lock` recovers the data; `TickEnd` then
  leaves `ticking` set): no call panics while holding it.
- The native Lua and Lisp interpreters, and of the Python Lua guest what is
  between the operations of `LuaGuest`: values, expressions, tables, goto, the
  closing value of a generic for, the budget, finalizers and weak tables.
  Finalizers deserve a model: `gc_step` called from a `__gc` runs the ones left
  twice, and one whose atom was reaped first is lost.
- The bridge's hooks: `register_env_of` and `register_extra_reach` of
  `karmazyn_substrate_native.py` replace a hook in two steps without the lock.
- Of the cluster: work stealing (it fails with the real atom class, whose
  constructor takes other arguments), broadcasts (which iterate over the live
  registry), the default address 0.0.0.0 that a node advertises, and the sync of
  atoms after a join, in which looking at an atom warms it, so both sides keep
  their own.
- kcc, console, editor, network, ext2, boot entry and the kernel module: pure
  functions, or input and output.
- `extras/soul_store.py`: three files written one after another; a crash between
  two leaves an old session unreadable under a new identity.
- The rest of `archiwum/`: retired by the project itself.

## 8. Plan

Done: Substrate, AtomicStore, Store; World, DurableWorld, WorldLog; SlabStore;
HandleTable; Shell; LuaGuest; NativeStore and LuaHost; Gossip; Processes; and the
proofs of all of them.

Next, in order:

1. `Servitors`: one epoch of the shell (tick, each servitor's step with the
   store open to it), composed with `Substrate`'s operations and `Shell`'s save
   decision. `servitor up` binds the source that is newest then; a newer bubble
   of the same label later gets a source of its own, so `wake` may warm another
   atom than the one whose temperature decides (`servitor.rs:104`). Properties:
   a servitor that works stays hot, one that fails cools and sleeps, a step never
   acts on an atom that went while it ran.
2. `Cynober`: the client's session against a server with its own clock and a
   stream it may cut or reorder. Properties: requests and replies pair up,
   a session recovers after a rotation, a transfer is whole or refused.
3. Finalizers and weak tables of the Lua guest, over `LuaGuest` and `Substrate`.
4. Shell: that the editor saves though autosync is off (`main.rs:884`; the
   comment at `main.rs:826` says nothing is done then), as a property.
5. Proofs: how small a Store is small enough for `SlabStore`'s walk to lose
   nothing.
