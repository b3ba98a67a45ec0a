------------------------------ MODULE LuaGuest ------------------------------
(***************************************************************************)
(* The control of the Lua guest (LUA/evaluator.py): coroutines, the scopes *)
(* of calls and blocks, variables declared <close>, and require.           *)
(*                                                                         *)
(* A coroutine is a Python generator; resume runs it on the Python stack   *)
(* of whoever resumed it, so the threads that are not waiting form a chain *)
(* and only its last one runs.  Every scope has a bubble; the bubbles of   *)
(* open scopes are roots of the Store through _active_envs, one list for   *)
(* all threads.  What a C function calls (pcall, a __close handler, a      *)
(* loader or searcher) is driven by _sync_drive, which no yield passes.    *)
(*                                                                         *)
(* The program is any sequence of the operations below; values are left    *)
(* out.  _call_stack is pushed and popped with _active_envs and in the     *)
(* same way: it is left out too.                                           *)
(***************************************************************************)
EXTENDS Integers, SequencesExt

CONSTANTS
  Main,         \* the host's thread: _coro is None
  Coroutine,    \* LuaThread objects
  Module,       \* names given to require
  BodyVarargs,  \* bound: whether the bodies of coroutines take varargs
  MaxOps        \* bound: scopes opened, variables declared <close> and entries cleared

ASSUME LuaAssumption ==
  /\ Main \notin Coroutine \cup Module
  /\ BodyVarargs \subseteq BOOLEAN
  /\ MaxOps \in Nat

Thread == {Main} \cup Coroutine

(* stdin is a line of the REPL; call, a call or a block, runs in its        *)
(* thread's generator; the others are calls _sync_drive makes: of a chunk, *)
(* by pcall, of a handler, of a loader, and of a searcher of the guest.    *)
Gate == {"sync", "pcall", "close", "load", "search"}
Form == Gate \cup {"stdin", "call"}

(* exit: run, or why the scope is being left.  tbc is the list under @tbc, *)
(* todo the copy of it that _close_env goes through.                       *)
Scope == [id : Nat, form : Form, va : BOOLEAN, mod : Module \cup {Main},
          exit : {"run", "return", "error", "force"},
          tbc : Seq(Nat), todo : Seq(Nat)]

VARIABLES
  stack,     \* the open scopes of each thread, innermost last
  chain,     \* Main and the coroutines each resumed or closed by the one before; the last is _coro
  status,    \* LuaThread.status; collected when Python has freed it
  closed,    \* LuaThread.closed
  live,      \* _active_envs
  va,        \* _va_stack of each thread: the scopes whose varargs are on it
  made,      \* scopes opened so far
  owner,     \* history: the scope each <close> variable was declared in
  closings,  \* history: handlers called for each of them
  lost,      \* history: scopes thrown away, left by a failed handler, or lines of the REPL
  loaded,    \* _modules: absent, marked (True, before the loader runs), loaded
  asking,    \* the module for which require has just heard from a searcher of the guest
  loads,     \* history: times each loader was called
  found,     \* history: of these, after a searcher of the guest was asked
  unloads,   \* history: times each entry of package.loaded was cleared
  ops        \* operations so far, for the bound

guest == <<stack, chain, status, closed, live, va, made, owner, closings, lost>>
require == <<loaded, asking, loads, found, unloads>>
vars == <<guest, require, ops>>

(* Everything is of its type. *)
TypeOK ==
  /\ stack \in [Thread -> Seq(Scope)]
  /\ chain \in Seq(Thread) /\ chain # <<>> /\ chain[1] = Main
  /\ status \in [Coroutine -> {"suspended", "running", "dead", "collected"}]
  /\ closed \in [Coroutine -> BOOLEAN]
  /\ live \in Seq(1 .. made) /\ va \in [Thread -> Seq(0 .. made)]
  /\ made \in Nat /\ ops \in 0 .. MaxOps
  /\ owner \in Seq(1 .. made)
  /\ closings \in [1 .. Len(owner) -> Nat]
  /\ lost \subseteq 1 .. made
  /\ loaded \in [Module -> {"absent", "marked", "loaded"}]
  /\ asking \in Module \cup {Main}
  /\ {loads, found, unloads} \subseteq [Module -> Nat]

(* The list of varargs under all others: the main chunk's. *)
Bottom(t) == IF t = Main THEN <<0>> ELSE <<>>

Init ==
  /\ stack = [t \in Thread |-> <<>>]
  /\ chain = <<Main>>
  /\ status = [t \in Coroutine |-> "suspended"]
  /\ closed = [t \in Coroutine |-> FALSE]
  /\ live = <<>>
  /\ va = [t \in Thread |-> Bottom(t)]
  /\ made = 0 /\ owner = <<>> /\ closings = <<>> /\ lost = {}
  /\ loaded = [m \in Module |-> "absent"]
  /\ asking = Main
  /\ loads = [m \in Module |-> 0] /\ found = loads /\ unloads = loads
  /\ ops = 0

-----------------------------------------------------------------------------
Current == Last(chain)
Started(t) == stack[t] # <<>>
Top(t) == Last(stack[t])

(* The scope on top of the current thread is not being left; the guest's   *)
(* statements run in it, unless require is between a searcher and a loader. *)
Open == Started(Current) /\ Top(Current).exit = "run"
Executing == Open /\ asking = Main

(* One more operation of the bounded ones. *)
Op == ops < MaxOps /\ ops' = ops + 1

NewScope(form, hasVa, m) ==
  [id |-> made + 1, form |-> form, va |-> hasVa, mod |-> m, exit |-> "run",
   tbc |-> <<>>, todo |-> <<>>]

(* Mutant of VarargsOf: one stack of varargs for all threads. *)
VarargsShared(t) == Main
(* Whose _va_stack the evaluator uses while t runs: resume and close swap it. *)
VarargsOf(t) == t

Push(t, s) ==
  /\ stack' = [stack EXCEPT ![t] = Append(@, s)]
  /\ made' = s.id
  /\ live' = Append(live, s.id)
  /\ va' = IF s.va THEN [va EXCEPT ![VarargsOf(t)] = Append(@, s.id)] ELSE va

(* Mutant of PopLive: the last bubble goes, whoever's it is. *)
PopLast(l, id) == IF l = <<>> THEN l ELSE Front(l)
(* _pop_live_env takes a bubble off the list only when it is the last one. *)
PopLive(l, id) == IF l # <<>> /\ Last(l) = id THEN Front(l) ELSE l

PopVarargs(v) == IF v = <<>> THEN v ELSE Front(v)

(* The finally clause of scope s, on live bubbles and varargs w.           *)
LeaveScope(w, s) ==
  [live |-> PopLive(w.live, s.id), va |-> IF s.va THEN PopVarargs(w.va) ELSE w.va]

(* Those of the scopes ss, left from the innermost outwards. *)
Finally(ss, w) ==
  LET left[k \in 0 .. Len(ss)] ==
        IF k = 0 THEN w ELSE LeaveScope(left[k - 1], ss[Len(ss) - k + 1])
  IN left[Len(ss)]

(* t is the thread the evaluator thinks is running. *)
Unwind(t, ss) ==
  LET end == Finally(ss, [live |-> live, va |-> va[VarargsOf(t)]])
  IN live' = end.live /\ va' = [va EXCEPT ![VarargsOf(t)] = end.va]

(* Mutant of Closing: the list under @tbc is not emptied. *)
ClosingKeptList(s, why) == [s EXCEPT !.exit = why, !.todo = s.tbc]
(* Mutant of Closing: a forced close passes the clause that closes on errors. *)
ClosingUnlessForced(s, why) ==
  [s EXCEPT !.exit = why, !.todo = IF why = "force" THEN <<>> ELSE s.tbc, !.tbc = <<>>]
(* A scope begins to be left: its block copies and empties the list of its *)
(* <close> variables.  A line of the REPL has no such step.                *)
Closing(s, why) ==
  [s EXCEPT !.exit = why, !.todo = IF s.form = "stdin" THEN <<>> ELSE s.tbc, !.tbc = <<>>]

(* The scopes of a thread once one of the given form below them was left.  *)
Landed(below, form, why) ==
  CASE below = <<>> -> below
    [] why = "return" \/ (why = "error" /\ form = "pcall") -> below
    [] OTHER -> Append(Front(below), Closing(Last(below), why))

-----------------------------------------------------------------------------
(* The host *)

(* eval_line *)
RunLine ==
  /\ chain = <<Main>> /\ ~Started(Main)
  /\ Op
  /\ Push(Main, NewScope("stdin", FALSE, Main))
  /\ lost' = lost \cup {made + 1}
  /\ UNCHANGED <<chain, status, closed, owner, closings, require>>

(* run_source: a chunk takes varargs. *)
RunChunk ==
  /\ chain = <<Main>> /\ ~Started(Main)
  /\ Op
  /\ Push(Main, NewScope("sync", TRUE, Main))
  /\ UNCHANGED <<chain, status, closed, owner, closings, lost, require>>

-----------------------------------------------------------------------------
(* Scopes *)

(* A block or a call; a call by pcall.  The C functions that let errors    *)
(* through are like require's call of a loader.  Bound: the calls that     *)
(* take varargs are chunks, loaders and the bodies of coroutines.          *)
Enter(form) ==
  /\ Executing /\ Op
  /\ Push(Current, NewScope(form, FALSE, Main))
  /\ UNCHANGED <<chain, status, closed, owner, closings, lost, require>>

(* local x <close> = v *)
Declare ==
  /\ Executing /\ Op
  /\ stack' = [stack EXCEPT ![Current] =
                 Append(Front(@), [Top(Current) EXCEPT !.tbc = Append(@, Len(owner) + 1)])]
  /\ owner' = Append(owner, Top(Current).id)
  /\ closings' = Append(closings, 0)
  /\ UNCHANGED <<chain, status, closed, live, va, made, lost, require>>

Exit(why) ==
  /\ Open
  /\ stack' = [stack EXCEPT ![Current] = Append(Front(@), Closing(Top(Current), why))]
  /\ UNCHANGED <<chain, status, closed, live, va, made, owner, closings, lost, ops>>

(* The end of a block, return, break or goto; an error. *)
Leave(why) == Executing /\ Exit(why) /\ UNCHANGED require

(* _close_env calls the handler of the last variable of its copy. *)
CallHandler ==
  /\ Started(Current)
  /\ LET t == Current
         s == Top(t)
         v == Last(s.todo)
         h == NewScope("close", FALSE, Main)
     IN /\ s.todo # <<>>
        /\ stack' = [stack EXCEPT ![t] = Front(@) \o <<[s EXCEPT !.todo = Front(@)], h>>]
        /\ closings' = [closings EXCEPT ![v] = @ + 1]
        /\ made' = h.id /\ live' = Append(live, h.id)
  /\ UNCHANGED <<chain, status, closed, va, owner, lost, require, ops>>

(* The scope is left: its bubble and varargs go, and the one below goes on, *)
(* is left in its turn, or, below the last, the thread ends.               *)
Finish ==
  /\ Started(Current)
  /\ LET t == Current
         s == Top(t)
         below == Front(stack[t])
     IN /\ s.exit # "run" /\ s.todo = <<>>
        /\ Unwind(t, <<s>>)
        /\ stack' = [stack EXCEPT ![t] = Landed(below, s.form, s.exit)]
        /\ lost' = IF s.form = "close" /\ s.exit = "error" THEN lost \cup {Last(below).id} ELSE lost
        /\ loaded' = IF s.form = "load" /\ s.exit = "return"
                       THEN [loaded EXCEPT ![s.mod] = "loaded"] ELSE loaded
        /\ asking' = IF s.form = "search" /\ s.exit = "return" THEN s.mod ELSE asking
        /\ IF below = <<>> /\ t # Main
             THEN status' = [status EXCEPT ![t] = "dead"] /\ chain' = Front(chain)
             ELSE UNCHANGED <<status, chain>>
  /\ UNCHANGED <<closed, made, owner, closings, loads, found, unloads, ops>>

-----------------------------------------------------------------------------
(* Coroutines *)

Gates(t) == {i \in DOMAIN stack[t] : stack[t][i].form \in Gate}
Ids(ss) == {ss[i].id : i \in DOMAIN ss}

(* Mutant of Resumable: only the thread that is running itself is refused. *)
ResumableUnlessCurrent(t) ==
  status[t] \in {"suspended", "running"} /\ ~closed[t] /\ t # Current
(* Mutant of Resumable: what coroutine.close left is not looked at. *)
ResumableByStatus(t) == status[t] = "suspended"
Resumable(t) == status[t] = "suspended" /\ ~closed[t]

(* coroutine.resume and wrap: the first time the function is called. *)
Resume(t, hasVa) ==
  /\ Executing /\ Resumable(t)
  /\ chain' = Append(chain, t)
  /\ status' = [status EXCEPT ![t] = "running"]
  /\ IF Started(t)
       THEN UNCHANGED <<stack, made, live, va, ops>>
       ELSE Op /\ Push(t, NewScope("call", hasVa, Main))
  /\ UNCHANGED <<closed, owner, closings, lost, require>>

(* coroutine.yield with no C function in between.  The generator of a      *)
(* coroutine closed meanwhile has no reference left: Python ends it here,  *)
(* and runs its finally clauses and no handler.                            *)
Yield ==
  /\ Executing /\ Current # Main /\ Gates(Current) = {}
  /\ chain' = Front(chain)
  /\ status' = [status EXCEPT ![Current] = "suspended"]
  /\ IF closed[Current]
       THEN /\ Unwind(Current, stack[Current])
            /\ stack' = [stack EXCEPT ![Current] = <<>>]
            /\ lost' = lost \cup Ids(stack[Current])
       ELSE UNCHANGED <<stack, live, va, lost>>
  /\ UNCHANGED <<closed, made, owner, closings, require, ops>>

(* The same of a coroutine that was a temporary of the resuming statement: *)
(* its generator ends when resume has returned, and its finally clauses    *)
(* pop the stack of varargs of the thread that resumed it.  Bound: it      *)
(* yields in its first scope.                                              *)
YieldTemporary ==
  /\ Executing /\ Current # Main /\ ~closed[Current] /\ Len(stack[Current]) = 1
  /\ LET t == Current
         s == Top(t)
         to == VarargsOf(Last(Front(chain)))
         raised == s.va /\ va[to] = <<>>   \* pop from empty list ends the clause
     IN /\ chain' = Front(chain)
        /\ status' = [status EXCEPT ![t] = "collected"]
        /\ stack' = [stack EXCEPT ![t] = <<>>]
        /\ va' = IF s.va THEN [va EXCEPT ![t] = <<>>, ![to] = PopVarargs(@)] ELSE va
        /\ live' = IF raised THEN live ELSE PopLive(live, s.id)
        /\ lost' = lost \cup {s.id}
  /\ UNCHANGED <<closed, made, owner, closings, require, ops>>

(* Mutant of YieldInGate: a yield from under a C function suspends all.    *)
YieldThroughGate ==
  /\ Executing /\ Current # Main /\ Gates(Current) # {}
  /\ chain' = Front(chain)
  /\ status' = [status EXCEPT ![Current] = "suspended"]
  /\ UNCHANGED <<stack, closed, live, va, made, owner, closings, lost, require, ops>>

(* A yield under a C function: _sync_drive ends the generator it drives,   *)
(* whose handlers do not run, and raises an error in its caller.           *)
YieldInGate ==
  /\ Executing /\ Current # Main /\ Gates(Current) # {}
  /\ LET t == Current
         g == Max(Gates(t))
         gone == SubSeq(stack[t], g, Len(stack[t]))
         below == SubSeq(stack[t], 1, g - 1)
     IN /\ Unwind(t, gone)
        /\ stack' = [stack EXCEPT ![t] = Landed(below, gone[1].form, "error")]
        /\ lost' = lost \cup Ids(gone) \cup
                     (IF gone[1].form = "close" THEN {Last(below).id} ELSE {})
  /\ UNCHANGED <<chain, status, closed, made, owner, closings, require, ops>>

(* coroutine.close of a suspended coroutine: _ForceClose is thrown into it. *)
CloseSuspended(t) ==
  /\ Executing /\ status[t] = "suspended" /\ ~closed[t]
  /\ status' = [status EXCEPT ![t] = "dead"]
  /\ closed' = [closed EXCEPT ![t] = TRUE]
  /\ IF Started(t)
       THEN /\ chain' = Append(chain, t)
            /\ stack' = [stack EXCEPT ![t] = Append(Front(@), Closing(Last(@), "force"))]
       ELSE UNCHANGED <<chain, stack>>
  /\ UNCHANGED <<live, va, made, owner, closings, lost, require, ops>>

(* coroutine.close of one that waits for another it resumed: it is marked, *)
(* its generator refuses the exception, and the caller gets an error.      *)
CloseNormal(t) ==
  /\ t # Current /\ status[t] = "running" /\ ~closed[t]
  /\ Executing
  /\ status' = [status EXCEPT ![t] = "dead"]
  /\ closed' = [closed EXCEPT ![t] = TRUE]
  /\ stack' = [stack EXCEPT ![Current] = Append(Front(@), Closing(Last(@), "error"))]
  /\ UNCHANGED <<chain, live, va, made, owner, closings, lost, require, ops>>

-----------------------------------------------------------------------------
(* Modules *)

(* Mutant of Mark: the entry is written when the loader has returned. *)
NoMark(m) == loaded
Mark(m) == [loaded EXCEPT ![m] = "marked"]

(* The entry is written, whatever it is by now, and the loader called.     *)
CallLoader(m) ==
  /\ loaded' = Mark(m)
  /\ loads' = [loads EXCEPT ![m] = @ + 1]
  /\ Push(Current, NewScope("load", TRUE, m))
  /\ UNCHANGED <<chain, status, closed, owner, closings, lost, unloads>>

(* require: what is in the cache is returned, a marked entry too.  The     *)
(* host's searchers run nothing of the guest.                              *)
Require(m) ==
  /\ Executing /\ loaded[m] = "absent" /\ Op
  /\ CallLoader(m)
  /\ UNCHANGED <<asking, found>>

CallSearcher(m) ==
  /\ Op
  /\ Push(Current, NewScope("search", FALSE, m))
  /\ asking' = Main
  /\ UNCHANGED <<chain, status, closed, owner, closings, lost, loaded, loads, found, unloads>>

(* package.searchers is the guest's to write: the call of a searcher of    *)
(* its own comes between the look at the cache and the mark.               *)
AskGuest(m) == Executing /\ loaded[m] = "absent" /\ CallSearcher(m)

(* It returned a loader, or one of the host's after it found one; it is    *)
(* followed by another; no searcher is left, which is an error.            *)
LoadAnswer ==
  /\ asking # Main /\ Open
  /\ CallLoader(asking)
  /\ found' = [found EXCEPT ![asking] = @ + 1]
  /\ asking' = Main
  /\ UNCHANGED ops

AskNext == asking # Main /\ Open /\ CallSearcher(asking)

NotFound ==
  /\ asking # Main /\ Exit("error")
  /\ asking' = Main
  /\ UNCHANGED <<loaded, loads, found, unloads>>

(* package.loaded[m] = nil, and register_preload; package.loaded[m] = v.   *)
Unload(m) ==
  /\ Executing /\ loaded[m] # "absent" /\ Op
  /\ loaded' = [loaded EXCEPT ![m] = "absent"]
  /\ unloads' = [unloads EXCEPT ![m] = @ + 1]
  /\ UNCHANGED <<guest, asking, loads, found>>

SetLoaded(m) ==
  /\ Executing /\ loaded[m] # "loaded" /\ Op
  /\ loaded' = [loaded EXCEPT ![m] = "loaded"]
  /\ UNCHANGED <<guest, asking, loads, found, unloads>>

-----------------------------------------------------------------------------
Next ==
  \/ RunLine \/ RunChunk
  \/ \E form \in {"call", "pcall"} : Enter(form)
  \/ Declare \/ CallHandler \/ Finish
  \/ \E why \in {"return", "error"} : Leave(why)
  \/ Yield \/ YieldTemporary \/ YieldInGate
  \/ \E t \in Coroutine :
       (\E b \in BodyVarargs : Resume(t, b)) \/ CloseSuspended(t) \/ CloseNormal(t)
  \/ \E m \in Module : Require(m) \/ AskGuest(m) \/ Unload(m) \/ SetLoaded(m)
  \/ LoadAnswer \/ AskNext \/ NotFound

Spec == Init /\ [][Next]_vars

-----------------------------------------------------------------------------
(* Properties *)

Waiting(t) == t \notin ToSet(chain)

(* No tick takes the local variables of a scope that is still open, of a   *)
(* suspended coroutine included: its bubble is among the live ones,        *)
(* though scopes of several threads are pushed and popped on one list.     *)
LiveEnvKept == \A t \in Thread : Ids(stack[t]) \subseteq ToSet(live)

(* What a thread's stack of varargs holds over bottom when the scopes ss    *)
(* are open, from the outermost inwards.                                   *)
Varargs(bottom, ss) ==
  LET v[k \in 0 .. Len(ss)] ==
        IF k = 0 THEN bottom
        ELSE IF ss[k].va THEN Append(v[k - 1], ss[k].id)
        ELSE v[k - 1]
  IN v[Len(ss)]

OpenVarargs(t) == Varargs(Bottom(t), stack[t])

(* The stack of varargs of a thread holds those of its open scopes: resume *)
(* and close swap the stacks, and what ends a generator early pops as many *)
(* as it pushed.  A suspended coroutine that was collected as a temporary  *)
(* pops those of the thread that runs.                                     *)
VarargsKept ==
  (\A t \in Coroutine : status[t] # "collected") => \A t \in Thread : va[t] = OpenVarargs(t)

FramesKept == LiveEnvKept /\ VarargsKept

(* A handler of a <close> variable is called once when its scope is left,  *)
(* by its end, by an error, by one handler failing after others, or by     *)
(* coroutine.close; never twice, and not at all only if the scope was      *)
(* thrown away with its generator, a handler failed, or it was a line of   *)
(* the REPL.                                                               *)
ToBeClosed(v) ==
  \E t \in Thread : \E i \in DOMAIN stack[t] :
    stack[t][i].id = owner[v] /\ v \in ToSet(stack[t][i].tbc) \cup ToSet(stack[t][i].todo)

ClosedOnce ==
  \A v \in DOMAIN owner :
    \/ closings[v] = 1
    \/ closings[v] = 0 /\ (owner[v] \in lost \/ ToBeClosed(v))

(* A coroutine that is suspended can be resumed where it stopped: no C     *)
(* function is on its stack, and none of its scopes is being left.         *)
SuspendedClean ==
  \A t \in Coroutine : Waiting(t) =>
    Gates(t) = {} /\ \A i \in DOMAIN stack[t] : stack[t][i].exit = "run"

(* A coroutine runs at one place: no thread is twice on the chain, and the *)
(* ones on it are those whose status is running, or that were closed while *)
(* they ran or waited on it.                                               *)
OneChain ==
  /\ IsInjective(chain)
  /\ \A t \in Coroutine :
       IF Waiting(t) THEN status[t] # "running" ELSE status[t] = "running" \/ closed[t]

ThreadsSound == TypeOK /\ SuspendedClean /\ OneChain

(* A coroutine that has ended or was closed, and has come off the chain,   *)
(* never runs again.                                                       *)
NoRevival ==
  [][\A t \in Coroutine :
       Waiting(t) /\ (closed[t] \/ status[t] = "dead") => t \notin ToSet(chain')]_vars

(* A module's loader is called once for each time its entry was cleared,   *)
(* though it may require the module itself, or a coroutine it resumes may: *)
(* the calls that a searcher of the guest was asked about first are apart, *)
(* since the entry may be set while it runs.                               *)
LoadedOnce == \A m \in Module : loads[m] <= unloads[m] + 1 + found[m]
=============================================================================
