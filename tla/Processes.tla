------------------------------ MODULE Processes ------------------------------
(***************************************************************************)
(* The process table of the retired Python system                          *)
(* (archiwum/karmazyn_process.py): processes are threads of one Python     *)
(* process, each with a terminal, a record in the table and an atom in     *)
(* phi.  Nothing can end a thread by force: kill asks, and waits a while.  *)
(*                                                                         *)
(* Any thread may spawn and kill: the desktop's (0), and every process,    *)
(* which runs the shell's commands.  They share the records without locks; *)
(* only the table itself has one.  A step of a thread is what it does up   *)
(* to the next read or write that another thread can tell from it.         *)
(* A test of the state and the write that follows are one step where only  *)
(* what PS displays depends on it.                                         *)
(*                                                                         *)
(* Left out: output, events, the log, stored results, windows; exit of the *)
(* whole system, which ends every thread.                                  *)
(***************************************************************************)
EXTENDS Integers, SequencesExt

CONSTANTS
  MaxPid,   \* bound: processes ever spawned
  MaxWork,  \* bound: spawns and kills, of whatever kind, ever begun
  Coop      \* pids whose targets look at ctx.alive() in their loop, as the contract asks

ASSUME ProcessAssumption ==
  /\ {MaxPid, MaxWork} \subseteq Nat
  /\ Coop \subseteq 1 .. MaxPid

Pid == 1 .. MaxPid
Desktop == 0
Thread == {Desktop} \cup Pid

VARIABLES
  procs,   \* ProcessTable._procs
  parent,  \* Process.parent, Desktop for none
  state,   \* Process.state
  told,    \* ctx._alive is False and the terminal is shut down
  atoms,   \* the processes whose atoms are in phi
  pc,      \* where a thread is
  front,   \* kill_tree: the pids whose children it has yet to look for
  list,    \* the pids a thread is yet to kill
  child,   \* the pid a thread spawns
  root,    \* the pid its kill_tree is about, or 0
  due,     \* history: the processes its kill should find
  kills    \* kills begun so far

work == <<front, list, child, root, due, kills>>
vars == <<procs, parent, state, told, atoms, pc, work>>

State == {"NEW", "RUNNING", "WAITING_IO", "TERMINATING", "ZOMBIE", "DEAD"}
Ending == {"exit", "drop", "reap", "end"}     \* the target has returned
Started == {"run", "busy", "read", "atom", "start", "begin",
            "walk", "kill", "stop", "join"} \cup Ending

TypeOK ==
  /\ procs \subseteq Pid /\ atoms \subseteq Pid
  /\ parent \in [Pid -> Thread]
  /\ state \in [Pid -> State]
  /\ told \in [Pid -> BOOLEAN]
  /\ pc \in [Thread -> {"none", "made"} \cup Started]
  /\ front \in [Thread -> Seq(Pid)] /\ list \in [Thread -> Seq(Pid)]
  /\ child \in [Thread -> Thread] /\ root \in [Thread -> Thread] /\ due \in [Thread -> SUBSET Pid]
  /\ kills \in 0 .. MaxWork

Init ==
  /\ procs = {} /\ atoms = {}
  /\ parent = [p \in Pid |-> Desktop]
  /\ state = [p \in Pid |-> "NEW"]
  /\ told = [p \in Pid |-> FALSE]
  /\ pc = [t \in Thread |-> IF t = Desktop THEN "run" ELSE "none"]
  /\ front = [t \in Thread |-> <<>>] /\ list = [t \in Thread |-> <<>>]
  /\ child = [t \in Thread |-> 0] /\ root = [t \in Thread |-> 0] /\ due = [t \in Thread |-> {}]
  /\ kills = 0

Goto(t, l) == pc' = [pc EXCEPT ![t] = l]
At(t, l) == pc[t] = l

(* A thread that may call the table: the desktop's, or a target at work.   *)
Free(t) == IF t = Desktop THEN At(t, "run") ELSE At(t, "busy")

-----------------------------------------------------------------------------
(* The target of a process *)

(* The top of its loop: a target that keeps the contract looks whether it  *)
(* has been told to end; any other goes on.                                *)
LooksUp(p) ==
  /\ At(p, "run")
  /\ Goto(p, IF p \in Coop /\ told[p] THEN "exit" ELSE "busy")
  /\ UNCHANGED <<procs, parent, state, told, atoms, work>>

(* It has done its work, or gone round its loop. *)
Works(p) ==
  /\ At(p, "busy")
  /\ Goto(p, "run") \/ Goto(p, "exit")
  /\ UNCHANGED <<procs, parent, state, told, atoms, work>>

(* ctx.read: WAITING_IO if it was RUNNING.                                 *)
ReadBegins(p) ==
  /\ At(p, "busy")
  /\ Goto(p, "read")
  /\ state' = [state EXCEPT ![p] = IF @ = "RUNNING" THEN "WAITING_IO" ELSE @]
  /\ UNCHANGED <<procs, parent, told, atoms, work>>

(* The terminal is looked at every 0.1 s: it was shut down. *)
Woken(p) == told[p]

(* A line comes, or the terminal is shut down. *)
ReadEnds(p) ==
  /\ At(p, "read")
  /\ Goto(p, "run")
  /\ state' = [state EXCEPT ![p] = IF @ = "WAITING_IO" THEN "RUNNING" ELSE @]
  /\ UNCHANGED <<procs, parent, told, atoms, work>>

(* _on_exit: DEAD unless ZOMBIE; the atom goes; listeners of the exit are  *)
(* called, and the log; then the record goes.                              *)
Exits(p) ==
  /\ At(p, "exit")
  /\ Goto(p, "drop")
  /\ state' = [state EXCEPT ![p] = IF @ = "ZOMBIE" THEN @ ELSE "DEAD"]
  /\ UNCHANGED <<procs, parent, told, atoms, work>>

DropsAtom(p) ==
  /\ At(p, "drop")
  /\ Goto(p, "reap")
  /\ atoms' = atoms \ {p}
  /\ UNCHANGED <<procs, parent, state, told, work>>

(* Mutant of Reaps: a zombie stays in the table. *)
ReapsDead(p) == procs' = IF state[p] = "ZOMBIE" THEN procs ELSE procs \ {p}
Reaps(p) == procs' = procs \ {p}

ExitReaps(p) ==
  /\ At(p, "reap")
  /\ Goto(p, "end")
  /\ Reaps(p)
  /\ UNCHANGED <<parent, state, told, atoms, work>>

-----------------------------------------------------------------------------
(* spawn *)

Unused == {p \in Pid \ procs : At(p, "none")}

WithinBound == Cardinality(Pid \ Unused) + kills < MaxWork

(* The record goes into the table; its parent is the caller.  The pid is   *)
(* drawn a little earlier, under a lock of its own: nothing names it until *)
(* the record is there, so pids are numbered here as records come.         *)
Spawn(t) ==
  /\ Free(t) /\ WithinBound
  /\ Goto(t, "atom")
  /\ \E p \in Unused :
       /\ \A q \in Unused : p <= q
       /\ procs' = procs \cup {p}
       /\ parent' = [parent EXCEPT ![p] = t]
       /\ child' = [child EXCEPT ![t] = p]
  /\ UNCHANGED <<state, told, atoms, front, list, root, due, kills>>

MakesAtom(t) ==
  /\ At(t, "atom")
  /\ Goto(t, "start")
  /\ atoms' = atoms \cup {child[t]}
  /\ UNCHANGED <<procs, parent, state, told, work>>

(* Process.start: RUNNING whatever was asked of it before; the thread is   *)
(* made, and then started.                                                 *)
Prepares(t) ==
  /\ At(t, "start")
  /\ pc' = [pc EXCEPT ![t] = "begin", ![child[t]] = "made"]
  /\ state' = [state EXCEPT ![child[t]] = "RUNNING"]
  /\ UNCHANGED <<procs, parent, told, atoms, work>>

Starts(t) ==
  /\ At(t, "begin")
  /\ pc' = [pc EXCEPT ![t] = "run", ![child[t]] = "run"]
  /\ child' = [child EXCEPT ![t] = 0]
  /\ UNCHANGED <<procs, parent, state, told, atoms, front, list, root, due, kills>>

-----------------------------------------------------------------------------
(* kill, kill_tree, close_all *)

(* p and the processes above it. *)
Line[p \in Pid] == IF parent[p] = Desktop THEN {p} ELSE {p} \cup Line[parent[p]]

(* The part of its line below r is in the table. *)
Hangs(p, r) == p \in procs /\ \A q \in Line[p] : q > r => q \in procs

Descendants(r) == {p \in Pid : r \in Line[p] /\ Hangs(p, r)}

Begins(t, l, r, f, targets, found) ==
  /\ Free(t) /\ WithinBound
  /\ kills' = kills + 1
  /\ Goto(t, l)
  /\ front' = [front EXCEPT ![t] = f] /\ list' = [list EXCEPT ![t] = targets]
  /\ root' = [root EXCEPT ![t] = r] /\ due' = [due EXCEPT ![t] = found]
  /\ UNCHANGED <<procs, parent, state, told, atoms, child>>

Kill(t) == \E p \in procs : Begins(t, "kill", p, <<>>, <<p>>, {p})

KillTree(t) == \E p \in Pid \ Unused : Begins(t, "walk", p, <<p>>, <<>>, Descendants(p))

CloseAll(t) ==
  t = Desktop /\ Begins(t, "kill", 0, <<>>, SetToSeq(procs), procs)

Children(p) == {q \in procs : parent[q] = p}

(* Mutants of Walk: children of children are not looked for; the order is  *)
(* the other one.                                                          *)
WalkOnce(t) ==
  LET p == Last(front[t])
      found == IF p = root[t] THEN SetToSeq(Children(p)) ELSE <<>>
  IN front' = [front EXCEPT ![t] = Front(@) \o found] /\ list' = [list EXCEPT ![t] = <<p>> \o @]

WalkDown(t) ==
  LET p == Last(front[t])
      found == SetToSeq(Children(p))
  IN front' = [front EXCEPT ![t] = Front(@) \o found] /\ list' = [list EXCEPT ![t] = Append(@, p)]

(* The last pid found is the next whose children are looked for, and the   *)
(* first to be killed.  No pid is found twice: each has one parent.        *)
Walk(t) ==
  LET p == Last(front[t])
      found == SetToSeq(Children(p))
  IN front' = [front EXCEPT ![t] = Front(@) \o found] /\ list' = [list EXCEPT ![t] = <<p>> \o @]

Walks(t) ==
  /\ At(t, "walk")
  /\ Walk(t)
  /\ Goto(t, IF front'[t] = <<>> THEN "kill" ELSE "walk")
  /\ UNCHANGED <<procs, parent, state, told, atoms, child, root, due, kills>>

(* The next one to kill; one not in the table is passed over, and one that *)
(* is DEAD or a ZOMBIE is not asked again.                                 *)
Target(t) == Head(list[t])
NextTarget(t) == list' = [list EXCEPT ![t] = Tail(@)]

Looks(t) ==
  /\ At(t, "kill") /\ list[t] # <<>>
  /\ IF Target(t) \in procs
       THEN /\ Goto(t, IF state[Target(t)] \in {"DEAD", "ZOMBIE"} THEN "join" ELSE "stop")
            /\ UNCHANGED list
       ELSE NextTarget(t) /\ UNCHANGED pc
  /\ UNCHANGED <<procs, parent, state, told, atoms, front, child, root, due, kills>>

(* request_stop *)
Asks(t) ==
  /\ At(t, "stop")
  /\ Goto(t, "join")
  /\ state' = [state EXCEPT ![Target(t)] = "TERMINATING"]
  /\ told' = [told EXCEPT ![Target(t)] = TRUE]
  /\ UNCHANGED <<procs, parent, atoms, work>>

(* A thread does not wait for itself, nor for one that is not made.        *)
Joined(t) == Target(t) = t \/ pc[Target(t)] \in {"none", "end"}

Joins(t) ==
  /\ At(t, "join") /\ Joined(t)
  /\ Goto(t, "kill")
  /\ NextTarget(t)
  /\ UNCHANGED <<procs, parent, state, told, atoms, front, child, root, due, kills>>

(* Mutant of TimesOut: it waits as long as it takes. *)
WaitsForEver(t) == FALSE /\ UNCHANGED vars

(* The thread is alive when the time is up. *)
TimesOut(t) ==
  /\ At(t, "join") /\ ~ Joined(t) /\ ~ At(Target(t), "made")
  /\ Goto(t, "kill")
  /\ state' = [state EXCEPT ![Target(t)] = "ZOMBIE"]
  /\ NextTarget(t)
  /\ UNCHANGED <<procs, parent, told, atoms, front, child, root, due, kills>>

(* join of a thread that is made and not yet started raises: the rest is   *)
(* not killed, and the caller's target may end with the error.             *)
Raises(t) ==
  /\ At(t, "join") /\ At(Target(t), "made") /\ Target(t) # t
  /\ Goto(t, "run") \/ (t # Desktop /\ Goto(t, "exit"))
  /\ list' = [list EXCEPT ![t] = <<>>]
  /\ root' = [root EXCEPT ![t] = 0] /\ due' = [due EXCEPT ![t] = {}]
  /\ UNCHANGED <<procs, parent, state, told, atoms, front, child, kills>>

Returns(t) ==
  /\ At(t, "kill") /\ list[t] = <<>>
  /\ Goto(t, "run")
  /\ root' = [root EXCEPT ![t] = 0] /\ due' = [due EXCEPT ![t] = {}]
  /\ UNCHANGED <<procs, parent, state, told, atoms, front, list, child, kills>>

-----------------------------------------------------------------------------
(* What a thread does of itself, and what it does once it has begun. *)
Choice(t) == Spawn(t) \/ Kill(t) \/ KillTree(t) \/ CloseAll(t)

Runs(p) ==
  \/ LooksUp(p) \/ Works(p) \/ ReadBegins(p)
  \/ Exits(p) \/ DropsAtom(p) \/ ExitReaps(p)

Goes(t) ==
  \/ MakesAtom(t) \/ Prepares(t) \/ Starts(t)
  \/ Walks(t) \/ Looks(t) \/ Asks(t) \/ Joins(t) \/ TimesOut(t)
  \/ Raises(t) \/ Returns(t)

Next ==
  \/ \E t \in Thread : Choice(t) \/ Goes(t)
  \/ \E p \in Pid : Runs(p) \/ ReadEnds(p)

(* Threads are scheduled, and the shutdown of a terminal is noticed; that  *)
(* a line comes, or a thread of its own accord spawns or kills, is not     *)
(* required: a target at work does something, though.                      *)
Fairness ==
  /\ WF_vars(Goes(Desktop))
  /\ \A p \in Pid : WF_vars(Goes(p) \/ Runs(p) \/ (Woken(p) /\ ReadEnds(p)))

Spec == Init /\ [][Next]_vars /\ Fairness

-----------------------------------------------------------------------------
(* Properties *)

(* The table and phi speak of processes that are: from its first step to   *)
(* its last but one a thread has its record, and no record outlives it; an *)
(* atom is always that of a process in the table, and is there until the   *)
(* thread is about to tell the listeners of its exit: these, and the log,  *)
(* find its record and no atom.                                            *)
RecordsOfLiving ==
  /\ TypeOK
  /\ atoms \subseteq procs
  /\ \A p \in Pid :
       /\ pc[p] \notin {"none", "made", "end"} => p \in procs
       /\ pc[p] \notin {"none", "made", "reap", "end"} => p \in atoms
       /\ At(p, "reap") => p \notin atoms
       /\ At(p, "end") => p \notin procs

Over(p) == pc[p] \in Ending

(* When kill, kill_tree or close_all comes back, every process it was to   *)
(* kill, as far as it still hangs on the tree, has been told to end or is  *)
(* ending, whatever was spawned, killed or ended meanwhile.                *)
KillFindsAll ==
  [][\A t \in Thread : Returns(t) =>
       \A p \in due[t] \cap procs :
         (root[t] # 0 => Hangs(p, root[t])) => told[p] \/ Over(p)]_vars

(* kill_tree asks children before their parents. *)
ChildrenFirst ==
  [][\A t \in Thread : Asks(t) /\ root[t] # 0 =>
       \A p \in due[t] :
         parent[p] = Target(t) /\ Hangs(p, root[t]) => told[p] \/ Over(p)]_vars

(* A process that keeps the contract ends once it is told to, record and   *)
(* atom with it, even if it has just been made, waits for input, or waits  *)
(* for the end of another that waits for its own.                          *)
ToldEnds == \A p \in Coop : told[p] ~> At(p, "end") /\ p \notin procs
=============================================================================
