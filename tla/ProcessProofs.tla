---------------------------- MODULE ProcessProofs ----------------------------
(***************************************************************************)
(* Proofs about Processes for every number of processes, spawns and kills: *)
(* the table and phi keep exactly the processes that are; a kill asks      *)
(* everyone it was to ask, and children before their parents.              *)
(***************************************************************************)
EXTENDS Processes, TLAPS, FiniteSetTheorems, WellFoundedInduction

USE ProcessAssumption

Spawning == {"atom", "start", "begin"}

(* The child of a spawn in progress is in the table, not yet a thread, and *)
(* nobody else's child; it has its atom before it gets its thread.         *)
SpawnInv ==
  /\ \A t \in Thread : pc[t] \in Spawning =>
       /\ child[t] \in procs
       /\ pc[child[t]] = (IF pc[t] = "begin" THEN "made" ELSE "none")
       /\ pc[t] # "atom" => child[t] \in atoms
  /\ \A t, u \in Thread : pc[t] \in Spawning /\ pc[u] \in Spawning /\ t # u => child[t] # child[u]

(* What a step of a kill takes from a sequence is there. *)
ListsInv ==
  \A t \in Thread :
    /\ pc[t] = "walk" => front[t] # <<>>
    /\ pc[t] \in {"stop", "join"} => list[t] # <<>>

ProcessInv == RecordsOfLiving /\ SpawnInv /\ ListsInv

-----------------------------------------------------------------------------
(* Sequences of pids *)

LEMMA PidsFinite == IsFiniteSet(Pid)
BY FS_Interval DEF Pid

(* The elements of a finite set of pids, in some order. *)
LEMMA SetToSeqType ==
  ASSUME NEW S \in SUBSET Pid
  PROVE  SetToSeq(S) \in Seq(Pid)
<1>1. IsFiniteSet(S)
  BY PidsFinite, FS_Subset
<1>2. Cardinality(S) \in Nat /\ ExistsBijection(1 .. Cardinality(S), S)
  BY <1>1, FS_CardinalityType
<1>3. \E f \in [1 .. Cardinality(S) -> S] : IsInjective(f)
  BY <1>2 DEF ExistsBijection, Bijection, Injection
<1>4. SetToSeq(S) \in [1 .. Cardinality(S) -> S]
  BY <1>3 DEF SetToSeq
<1>5. SetToSeq(S) \in [1 .. Cardinality(S) -> Pid]
  BY <1>4
<1>6. QED
  BY <1>2, <1>5

LEMMA FrontLast ==
  ASSUME NEW s \in Seq(Pid), s # <<>>
  PROVE  Front(s) \in Seq(Pid) /\ Last(s) \in Pid
BY DEF Front, Last

LEMMA HeadTail ==
  ASSUME NEW s \in Seq(Pid), s # <<>>
  PROVE  Head(s) \in Pid /\ Tail(s) \in Seq(Pid)
OBVIOUS

LEMMA PidsAreThreads == Pid \subseteq Thread /\ Desktop \in Thread /\ Desktop \notin Pid
BY DEF Pid, Thread, Desktop

-----------------------------------------------------------------------------
(* Steps that move one thread between two places of its life, and leave    *)
(* table and atoms alone.                                                  *)

Active == Started \ {"reap", "end"}

(* RecordsOfLiving without the types. *)
Kept ==
  /\ atoms \subseteq procs
  /\ \A p \in Pid :
       /\ pc[p] \notin {"none", "made", "end"} => p \in procs
       /\ pc[p] \notin {"none", "made", "reap", "end"} => p \in atoms
       /\ pc[p] = "reap" => p \notin atoms
       /\ pc[p] = "end" => p \notin procs

LEMMA KeptRecords == RecordsOfLiving <=> TypeOK /\ Kept
BY DEF RecordsOfLiving, Kept, At

LEMMA MoveKeeps ==
  ASSUME ProcessInv, NEW t \in Thread, NEW l \in Active \ Spawning,
         pc[t] \in Active \ Spawning, pc' = [pc EXCEPT ![t] = l],
         UNCHANGED <<procs, atoms, child>>
  PROVE  /\ pc' \in [Thread -> {"none", "made"} \cup Started]
         /\ Kept'
         /\ SpawnInv'
<1>1. pc \in [Thread -> {"none", "made"} \cup Started] /\ procs \subseteq Pid /\ Pid \subseteq Thread
  BY PidsAreThreads DEF ProcessInv, RecordsOfLiving, TypeOK
<1>2. pc' \in [Thread -> {"none", "made"} \cup Started]
  BY <1>1 DEF Active
<1>3. \A u \in Thread : pc'[u] = IF u = t THEN l ELSE pc[u]
  BY <1>1
<1>4. Kept
  BY KeptRecords DEF ProcessInv
<1>5. Kept'
  BY <1>1, <1>3, <1>4, PidsAreThreads DEF Kept, Active, Started, Ending
<1>6. SpawnInv'
  <2>1. ASSUME NEW u \in Thread, pc'[u] \in Spawning
        PROVE  u # t /\ pc[u] \in Spawning /\ pc'[u] = pc[u]
    BY <1>3, <2>1
  <2>2. ASSUME NEW u \in Thread, pc[u] \in Spawning
        PROVE  child[u] \in Thread /\ child[u] # t /\ pc'[child[u]] = pc[child[u]]
    BY <1>1, <1>3, <2>2 DEF ProcessInv, SpawnInv, Spawning, Active, Started, Ending
  <2>3. ASSUME NEW u \in Thread, pc'[u] \in Spawning
        PROVE  /\ child'[u] \in procs'
               /\ pc'[child'[u]] = (IF pc'[u] = "begin" THEN "made" ELSE "none")
               /\ pc'[u] # "atom" => child'[u] \in atoms'
    BY <2>1, <2>2, <2>3 DEF ProcessInv, SpawnInv
  <2>4. ASSUME NEW u \in Thread, NEW v \in Thread, pc'[u] \in Spawning, pc'[v] \in Spawning, u # v
        PROVE  child'[u] # child'[v]
    BY <2>1, <2>4 DEF ProcessInv, SpawnInv
  <2>5. QED
    BY <2>3, <2>4 DEF SpawnInv
<1>7. QED
  BY <1>2, <1>5, <1>6

(* Then what is left to show of a move is the type of what else it writes, *)
(* and that what its next step takes is there.                             *)
OtherTypes ==
  /\ state \in [Pid -> State]
  /\ told \in [Pid -> BOOLEAN]
  /\ front \in [Thread -> Seq(Pid)] /\ list \in [Thread -> Seq(Pid)]
  /\ root \in [Thread -> Thread] /\ due \in [Thread -> SUBSET Pid]
  /\ kills \in 0 .. MaxWork

LEMMA MoveStep ==
  ASSUME ProcessInv, NEW t \in Thread, NEW l \in Active \ Spawning,
         pc[t] \in Active \ Spawning, Goto(t, l),
         UNCHANGED <<procs, atoms, child, parent>>, OtherTypes', ListsInv'
  PROVE  ProcessInv'
<1>1. pc' = [pc EXCEPT ![t] = l]
  BY DEF Goto
<1>2. /\ pc' \in [Thread -> {"none", "made"} \cup Started]
      /\ Kept'
      /\ SpawnInv'
  BY <1>1, MoveKeeps
<1>3. TypeOK'
  <2>1. procs \subseteq Pid /\ atoms \subseteq Pid /\ parent \in [Pid -> Thread] /\ child \in [Thread -> Thread]
    BY DEF TypeOK, ProcessInv, RecordsOfLiving
  <2>2. QED
    BY <1>2, <2>1 DEF TypeOK, OtherTypes
<1>4. RecordsOfLiving'
  BY <1>2, <1>3 DEF RecordsOfLiving, Kept, At
<1>5. QED
  BY <1>2, <1>4 DEF ProcessInv

LEMMA MoveLists ==
  ASSUME ListsInv, TypeOK, NEW t \in Thread, NEW l, Goto(t, l),
         front' = [front EXCEPT ![t] = front'[t]], list' = [list EXCEPT ![t] = list'[t]],
         l = "walk" => front'[t] # <<>>,
         l \in {"stop", "join"} => list'[t] # <<>>
  PROVE  ListsInv'
<1>1. \A u \in Thread : u # t => pc'[u] = pc[u] /\ front'[u] = front[u] /\ list'[u] = list[u]
  BY DEF TypeOK, Goto
<1>2. pc'[t] = l
  BY DEF TypeOK, Goto
<1>3. QED
  BY <1>1, <1>2 DEF ListsInv

LEMMA ProcessTypes ==
  ASSUME ProcessInv
  PROVE  TypeOK /\ OtherTypes /\ ListsInv
BY DEF ProcessInv, RecordsOfLiving, TypeOK, OtherTypes

(* Steps of a target that runs. *)
LEMMA RunsKeep ==
  ASSUME ProcessInv, NEW p \in Pid,
         LooksUp(p) \/ Works(p) \/ ReadBegins(p) \/ ReadEnds(p) \/ Exits(p)
  PROVE  ProcessInv'
<1>1. TypeOK /\ OtherTypes /\ ListsInv /\ p \in Thread
  BY ProcessTypes, PidsAreThreads
<1>2. /\ pc[p] \in Active \ Spawning
      /\ \E l \in {"run", "busy", "read", "exit", "drop"} : Goto(p, l)
      /\ UNCHANGED <<procs, atoms, child, parent, work>>
      /\ told' = told
  BY DEF LooksUp, Works, ReadBegins, ReadEnds, Exits, At, Active, Started, Ending, Spawning, work
<1>3. PICK l \in {"run", "busy", "read", "exit", "drop"} : Goto(p, l)
  BY <1>2
<1>4. state' \in [Pid -> State]
  BY <1>1 DEF LooksUp, Works, ReadBegins, ReadEnds, Exits, OtherTypes, State
<1>5. OtherTypes'
  BY <1>1, <1>2, <1>4 DEF OtherTypes, work
<1>6. ListsInv'
  BY <1>1, <1>2, <1>3, MoveLists DEF work, TypeOK
<1>7. l \in Active \ Spawning
  BY DEF Active, Started, Ending, Spawning
<1>8. QED
  BY <1>1, <1>2, <1>3, <1>5, <1>6, <1>7, MoveStep

LEMMA FreeActive ==
  ASSUME NEW t \in Thread, Free(t)
  PROVE  pc[t] \in Active \ Spawning
BY DEF Free, At, Active, Started, Ending, Spawning

(* The beginning of a kill. *)
LEMMA BeginsKeep ==
  ASSUME ProcessInv, NEW t \in Thread, NEW l \in {"kill", "walk"}, NEW r \in Thread,
         NEW f \in Seq(Pid), NEW targets \in Seq(Pid), NEW found \in SUBSET Pid,
         l = "walk" => f # <<>>, Begins(t, l, r, f, targets, found)
  PROVE  ProcessInv'
<1>1. TypeOK /\ OtherTypes /\ ListsInv
  BY ProcessTypes
<1>2. /\ pc[t] \in Active \ Spawning /\ Goto(t, l)
      /\ front' = [front EXCEPT ![t] = f] /\ list' = [list EXCEPT ![t] = targets]
      /\ root' = [root EXCEPT ![t] = r] /\ due' = [due EXCEPT ![t] = found]
      /\ UNCHANGED <<procs, parent, state, told, atoms, child>>
  BY FreeActive DEF Begins
<1>3. kills' \in 0 .. MaxWork
  <2>1. Unused \in SUBSET Pid /\ IsFiniteSet(Pid \ Unused)
    BY PidsFinite, FS_Subset DEF Unused
  <2>2. Cardinality(Pid \ Unused) \in Nat
    BY <2>1, FS_CardinalityType
  <2>3. QED
    BY <1>1, <2>2 DEF Begins, WithinBound, OtherTypes
<1>4. OtherTypes'
  BY <1>1, <1>2, <1>3 DEF OtherTypes
<1>5. front'[t] = f /\ list'[t] = targets
  BY <1>1, <1>2 DEF OtherTypes
<1>6. ListsInv'
  BY <1>1, <1>2, <1>5, MoveLists
<1>7. l \in Active \ Spawning
  BY DEF Active, Started, Ending, Spawning
<1>8. QED
  BY <1>2, <1>4, <1>6, <1>7, MoveStep

LEMMA KillsBegin ==
  ASSUME ProcessInv, NEW t \in Thread, Kill(t) \/ KillTree(t) \/ CloseAll(t)
  PROVE  ProcessInv'
<1>1. procs \subseteq Pid /\ Pid \subseteq Thread /\ 0 \in Thread
  BY ProcessTypes, PidsAreThreads DEF TypeOK, Desktop
<1>2. CASE Kill(t)
  <2>1. PICK p \in procs : Begins(t, "kill", p, <<>>, <<p>>, {p})
    BY <1>2 DEF Kill
  <2>2. <<p>> \in Seq(Pid) /\ <<>> \in Seq(Pid) /\ {p} \in SUBSET Pid /\ p \in Thread
    BY <1>1
  <2>3. QED
    BY <2>1, <2>2, BeginsKeep
<1>3. CASE KillTree(t)
  <2>1. PICK p \in Pid : Begins(t, "walk", p, <<p>>, <<>>, Descendants(p))
    BY <1>3 DEF KillTree
  <2>2. <<p>> \in Seq(Pid) /\ <<>> \in Seq(Pid) /\ <<p>> # <<>> /\ p \in Thread
    BY <1>1
  <2>3. Descendants(p) \in SUBSET Pid
    BY DEF Descendants
  <2>4. QED
    BY <2>1, <2>2, <2>3, BeginsKeep
<1>4. CASE CloseAll(t)
  <2>1. Begins(t, "kill", 0, <<>>, SetToSeq(procs), procs)
    BY <1>4 DEF CloseAll
  <2>2. SetToSeq(procs) \in Seq(Pid) /\ <<>> \in Seq(Pid)
    BY <1>1, SetToSeqType
  <2>3. QED
    BY <1>1, <2>1, <2>2, BeginsKeep
<1>5. QED
  BY <1>2, <1>3, <1>4

-----------------------------------------------------------------------------
(* The steps of a kill *)

LEMMA WalksKeep ==
  ASSUME ProcessInv, NEW t \in Thread, Walks(t)
  PROVE  ProcessInv'
<1>1. TypeOK /\ OtherTypes /\ ListsInv
  BY ProcessTypes
<1>2. pc[t] \in Active \ Spawning /\ front[t] \in Seq(Pid) /\ front[t] # <<>> /\ list[t] \in Seq(Pid)
  BY <1>1 DEF Walks, At, Active, Started, Ending, Spawning, ListsInv, OtherTypes
<1>3. PICK f, g : /\ f = Front(front[t]) \o SetToSeq(Children(Last(front[t])))
                  /\ g = <<Last(front[t])>> \o list[t]
                  /\ front' = [front EXCEPT ![t] = f] /\ list' = [list EXCEPT ![t] = g]
  BY DEF Walks, Walk
<1>4. Front(front[t]) \in Seq(Pid) /\ Last(front[t]) \in Pid
  BY <1>2, FrontLast
<1>5. SetToSeq(Children(Last(front[t]))) \in Seq(Pid)
  <2>1. Children(Last(front[t])) \in SUBSET Pid
    BY <1>1 DEF Children, TypeOK
  <2>2. QED
    BY <2>1, SetToSeqType
<1>6. f \in Seq(Pid) /\ g \in Seq(Pid)
  <2>1. <<Last(front[t])>> \in Seq(Pid)
    BY <1>4
  <2>2. QED
    BY <1>2, <1>3, <1>4, <1>5, <2>1
<1>7. OtherTypes'
  BY <1>1, <1>3, <1>6 DEF OtherTypes, Walks
<1>8. front'[t] = f /\ list'[t] = g
  BY <1>1, <1>3 DEF OtherTypes
<1>9. PICK l \in {"kill", "walk"} : Goto(t, l) /\ (l = "walk" => front'[t] # <<>>)
  BY DEF Walks
<1>10. ListsInv'
  BY <1>1, <1>3, <1>8, <1>9, MoveLists
<1>11. l \in Active \ Spawning
  BY DEF Active, Started, Ending, Spawning
<1>12. QED
  BY <1>2, <1>7, <1>9, <1>10, <1>11, MoveStep DEF Walks

LEMMA LooksKeep ==
  ASSUME ProcessInv, NEW t \in Thread, Looks(t)
  PROVE  ProcessInv'
<1>1. TypeOK /\ OtherTypes /\ ListsInv
  BY ProcessTypes
<1>2. pc[t] = "kill" /\ pc[t] \in Active \ Spawning /\ list[t] \in Seq(Pid) /\ list[t] # <<>>
  BY <1>1 DEF Looks, At, Active, Started, Ending, Spawning, OtherTypes
<1>3. CASE Target(t) \in procs
  <2>1. PICK l \in {"join", "stop"} : Goto(t, l)
    BY <1>3 DEF Looks
  <2>2. OtherTypes' /\ list' = list /\ front' = front
    BY <1>1, <1>3 DEF Looks, OtherTypes
  <2>3. front' = [front EXCEPT ![t] = front'[t]] /\ list' = [list EXCEPT ![t] = list'[t]]
    BY <1>1, <2>2 DEF OtherTypes
  <2>4. ListsInv'
    BY <1>1, <1>2, <2>1, <2>2, <2>3, MoveLists
  <2>5. l \in Active \ Spawning
    BY DEF Active, Started, Ending, Spawning
  <2>6. QED
    BY <1>2, <2>1, <2>2, <2>4, <2>5, MoveStep DEF Looks
<1>4. CASE Target(t) \notin procs
  <2>1. list' = [list EXCEPT ![t] = Tail(@)] /\ pc' = pc /\ front' = front
    BY <1>4 DEF Looks, NextTarget
  <2>2. Tail(list[t]) \in Seq(Pid)
    BY <1>2, HeadTail
  <2>3. OtherTypes'
    BY <1>1, <1>4, <2>1, <2>2 DEF Looks, OtherTypes
  <2>4. Goto(t, "kill")
    BY <1>1, <1>2, <2>1 DEF Goto, TypeOK
  <2>5. front' = [front EXCEPT ![t] = front'[t]] /\ list' = [list EXCEPT ![t] = list'[t]]
    BY <1>1, <2>1 DEF OtherTypes
  <2>6. ListsInv'
    BY <1>1, <2>4, <2>5, MoveLists
  <2>7. QED
    BY <1>2, <2>3, <2>4, <2>6, MoveStep DEF Looks
<1>5. QED
  BY <1>3, <1>4

(* The step is one thread's move, writes only its own list, and what is    *)
(* left of the list has the right type.                                    *)
LEMMA EndOfTarget ==
  ASSUME ProcessInv, NEW t \in Thread, NEW l \in {"kill", "join", "run", "exit"},
         pc[t] \in {"stop", "join", "kill"}, Goto(t, l),
         UNCHANGED <<procs, atoms, child, parent, front, kills>>,
         state' \in [Pid -> State], told' \in [Pid -> BOOLEAN],
         root' \in [Thread -> Thread], due' \in [Thread -> SUBSET Pid],
         NEW s \in Seq(Pid), list' = [list EXCEPT ![t] = s], l = "join" => s # <<>>
  PROVE  ProcessInv'
<1>1. TypeOK /\ OtherTypes /\ ListsInv
  BY ProcessTypes
<1>2. OtherTypes'
  BY <1>1 DEF OtherTypes
<1>3. front' = [front EXCEPT ![t] = front'[t]] /\ list' = [list EXCEPT ![t] = list'[t]] /\ list'[t] = s
  BY <1>1 DEF OtherTypes
<1>4. ListsInv'
  BY <1>1, <1>3, MoveLists
<1>5. pc[t] \in Active \ Spawning /\ l \in Active \ Spawning
  BY DEF Active, Started, Ending, Spawning
<1>6. QED
  BY <1>2, <1>4, <1>5, MoveStep

LEMMA KillStepsKeep ==
  ASSUME ProcessInv, NEW t \in Thread,
         Asks(t) \/ Joins(t) \/ TimesOut(t) \/ Raises(t) \/ Returns(t)
  PROVE  ProcessInv'
<1>1. TypeOK /\ OtherTypes /\ ListsInv /\ Desktop \in Thread
  BY ProcessTypes, PidsAreThreads
<1>2. /\ list[t] \in Seq(Pid) /\ <<>> \in Seq(Pid)
      /\ list = [list EXCEPT ![t] = list[t]] /\ 0 \in Thread
      /\ pc[t] \in {"stop", "join"} => list[t] # <<>> /\ Tail(list[t]) \in Seq(Pid)
  BY <1>1, HeadTail DEF OtherTypes, ListsInv, Desktop
<1>3. CASE Asks(t)
  <2>1. state' \in [Pid -> State] /\ told' \in [Pid -> BOOLEAN]
    BY <1>1, <1>3 DEF Asks, OtherTypes, State
  <2>2. list' = [list EXCEPT ![t] = list[t]] /\ list[t] # <<>>
    BY <1>2, <1>3 DEF Asks, At, work
  <2>3. root' \in [Thread -> Thread] /\ due' \in [Thread -> SUBSET Pid]
    BY <1>1, <1>3 DEF Asks, work, OtherTypes
  <2>4. QED
    BY <1>2, <1>3, <2>1, <2>2, <2>3, EndOfTarget DEF Asks, At, work
<1>4. CASE Joins(t) \/ TimesOut(t)
  <2>1. state' \in [Pid -> State]
    BY <1>1, <1>4 DEF Joins, TimesOut, OtherTypes, State
  <2>2. list' = [list EXCEPT ![t] = Tail(list[t])] /\ Tail(list[t]) \in Seq(Pid)
    BY <1>2, <1>4 DEF Joins, TimesOut, At, NextTarget
  <2>3. told' \in [Pid -> BOOLEAN] /\ root' \in [Thread -> Thread] /\ due' \in [Thread -> SUBSET Pid]
    BY <1>1, <1>4 DEF Joins, TimesOut, OtherTypes
  <2>4. QED
    BY <1>4, <2>1, <2>2, <2>3, EndOfTarget DEF Joins, TimesOut, At
<1>5. CASE Raises(t)
  <2>1. PICK l \in {"run", "exit"} : Goto(t, l)
    BY <1>5 DEF Raises
  <2>2. /\ state' \in [Pid -> State] /\ told' \in [Pid -> BOOLEAN]
        /\ root' \in [Thread -> Thread] /\ due' \in [Thread -> SUBSET Pid]
    BY <1>1, <1>2, <1>5 DEF Raises, OtherTypes
  <2>3. QED
    BY <1>2, <1>5, <2>1, <2>2, EndOfTarget DEF Raises, At
<1>6. CASE Returns(t)
  <2>1. /\ state' \in [Pid -> State] /\ told' \in [Pid -> BOOLEAN]
        /\ root' \in [Thread -> Thread] /\ due' \in [Thread -> SUBSET Pid]
    BY <1>1, <1>2, <1>6 DEF Returns, OtherTypes
  <2>2. list' = [list EXCEPT ![t] = list[t]]
    BY <1>2, <1>6 DEF Returns
  <2>3. QED
    BY <1>2, <1>6, <2>1, <2>2, EndOfTarget DEF Returns, At
<1>7. QED
  BY <1>3, <1>4, <1>5, <1>6

-----------------------------------------------------------------------------
(* The steps of a spawn, and the end of a process *)

LEMMA FreeNotChild ==
  ASSUME ProcessInv, NEW t \in Thread, pc[t] \notin {"none", "made"}, NEW u \in Thread, pc[u] \in Spawning
  PROVE  child[u] # t
BY DEF ProcessInv, SpawnInv, Spawning

(* The lists are untouched, and no thread comes to where it needs one. *)
LEMMA ListsStay ==
  ASSUME ListsInv, UNCHANGED <<front, list>>,
         \A u \in Thread : pc'[u] = pc[u] \/ pc'[u] \notin {"walk", "stop", "join"}
  PROVE  ListsInv'
BY DEF ListsInv

LEMMA SpawnKeeps ==
  ASSUME ProcessInv, NEW t \in Thread, Spawn(t)
  PROVE  ProcessInv'
<1>1. TypeOK /\ ListsInv /\ Pid \subseteq Thread /\ pc[t] \in Active \ Spawning
  BY ProcessTypes, PidsAreThreads, FreeActive DEF Spawn
<1>2. PICK c \in Pid :
        /\ c \notin procs /\ pc[c] = "none"
        /\ procs' = procs \cup {c}
        /\ parent' = [parent EXCEPT ![c] = t]
        /\ child' = [child EXCEPT ![t] = c]
  BY DEF Spawn, Unused, At
<1>3. c # t /\ c \in Thread
  BY <1>1, <1>2 DEF Active, Started, Ending
<1>4. pc' = [pc EXCEPT ![t] = "atom"] /\ atoms' = atoms
  BY DEF Spawn, Goto
<1>5. \A u \in Thread : pc'[u] = (IF u = t THEN "atom" ELSE pc[u]) /\ child'[u] = (IF u = t THEN c ELSE child[u])
  BY <1>1, <1>2, <1>4 DEF TypeOK
<1>6. TypeOK'
  BY <1>1, <1>2, <1>3, <1>4 DEF TypeOK, Started, Spawn
<1>7. Kept /\ Pid \subseteq Thread
  BY PidsAreThreads, KeptRecords DEF ProcessInv
<1>8. Kept'
  BY <1>1, <1>2, <1>3, <1>4, <1>5, <1>7 DEF Kept, Active, Started, Ending
<1>9. SpawnInv'
  <2>1. ASSUME NEW u \in Thread, pc[u] \in Spawning, u # t
        PROVE  child[u] # t /\ child[u] # c /\ child[u] \in Thread
    BY <1>1, <1>2, <2>1, FreeNotChild DEF ProcessInv, SpawnInv, Active, Started, Ending, TypeOK
  <2>2. ASSUME NEW u \in Thread, pc'[u] \in Spawning
        PROVE  /\ child'[u] \in procs'
               /\ pc'[child'[u]] = (IF pc'[u] = "begin" THEN "made" ELSE "none")
               /\ pc'[u] # "atom" => child'[u] \in atoms'
    <3>1. CASE u = t
      BY <1>2, <1>3, <1>5, <3>1
    <3>2. CASE u # t
      BY <1>2, <1>4, <1>5, <2>1, <2>2, <3>2 DEF ProcessInv, SpawnInv
    <3>3. QED
      BY <3>1, <3>2
  <2>3. ASSUME NEW u \in Thread, NEW v \in Thread, pc'[u] \in Spawning, pc'[v] \in Spawning, u # v
        PROVE  child'[u] # child'[v]
    BY <1>5, <2>1, <2>3 DEF ProcessInv, SpawnInv
  <2>4. QED
    BY <2>2, <2>3 DEF SpawnInv
<1>10. ListsInv'
  BY <1>1, <1>5, ListsStay DEF Spawn
<1>11. QED
  BY <1>6, <1>7, <1>8, <1>9, <1>10 DEF ProcessInv, RecordsOfLiving, Kept, At

LEMMA MakesAtomKeeps ==
  ASSUME ProcessInv, NEW t \in Thread, MakesAtom(t)
  PROVE  ProcessInv'
<1>1. TypeOK /\ ListsInv /\ Pid \subseteq Thread /\ pc[t] = "atom"
  BY ProcessTypes, PidsAreThreads DEF MakesAtom, At
<1>2. child[t] \in procs /\ pc[child[t]] = "none" /\ child[t] \in Pid
  BY <1>1 DEF ProcessInv, SpawnInv, Spawning, TypeOK
<1>3. /\ pc' = [pc EXCEPT ![t] = "start"] /\ atoms' = atoms \cup {child[t]}
      /\ UNCHANGED <<procs, parent, state, told, work>>
  BY DEF MakesAtom, Goto
<1>4. \A u \in Thread : pc'[u] = (IF u = t THEN "start" ELSE pc[u])
  BY <1>1, <1>3 DEF TypeOK
<1>5. TypeOK'
  BY <1>1, <1>2, <1>3 DEF TypeOK, Started, work
<1>6. Kept /\ Pid \subseteq Thread
  BY PidsAreThreads, KeptRecords DEF ProcessInv
<1>7. Kept'
  BY <1>1, <1>2, <1>3, <1>4, <1>6 DEF Kept, Active, Started, Ending
<1>8. SpawnInv'
  <2>1. ASSUME NEW u \in Thread, pc[u] \in Spawning
        PROVE  child[u] # t
    BY <1>1, <2>1, FreeNotChild
  <2>2. ASSUME NEW u \in Thread, pc'[u] \in Spawning
        PROVE  /\ child'[u] \in procs'
               /\ pc'[child'[u]] = (IF pc'[u] = "begin" THEN "made" ELSE "none")
               /\ pc'[u] # "atom" => child'[u] \in atoms'
    <3>1. pc[u] \in Spawning
      BY <1>1, <1>4, <2>2 DEF Spawning
    <3>2. child[u] \in Thread /\ child[u] # t /\ child'[u] = child[u]
      BY <1>1, <1>3, <2>1, <3>1 DEF TypeOK, work
    <3>3. CASE u = t
      BY <1>1, <1>2, <1>3, <1>4, <3>2, <3>3
    <3>4. CASE u # t
      BY <1>3, <1>4, <3>1, <3>2, <3>4 DEF ProcessInv, SpawnInv
    <3>5. QED
      BY <3>3, <3>4
  <2>3. ASSUME NEW u \in Thread, NEW v \in Thread, pc'[u] \in Spawning, pc'[v] \in Spawning, u # v
        PROVE  child'[u] # child'[v]
    BY <1>1, <1>3, <1>4, <2>3 DEF ProcessInv, SpawnInv, Spawning, work
  <2>4. QED
    BY <2>2, <2>3 DEF SpawnInv
<1>9. ListsInv'
  BY <1>1, <1>3, <1>4, ListsStay DEF work
<1>10. QED
  BY <1>5, <1>6, <1>7, <1>8, <1>9 DEF ProcessInv, RecordsOfLiving, Kept, At

(* Thread t moves, and the child it spawns moves with it. *)
LEMMA ChildMoved ==
  ASSUME ProcessInv, NEW t \in Thread, pc[t] \in {"start", "begin"}, NEW c, c = child[t],
         pc' \in [Thread -> {"none", "made"} \cup Started], pc'[t] \in {"begin", "run"},
         pc'[c] = (IF pc'[t] = "begin" THEN "made" ELSE "run"),
         \A u \in Thread : u # t /\ u # c => pc'[u] = pc[u],
         child' \in [Thread -> Thread], \A u \in Thread : u # t => child'[u] = child[u],
         pc'[t] = "begin" => child'[t] = c,
         state' \in [Pid -> State],
         UNCHANGED <<procs, parent, told, atoms, front, list, root, due, kills>>
  PROVE  ProcessInv'
<1>1. TypeOK /\ ListsInv /\ Pid \subseteq Thread
  BY ProcessTypes, PidsAreThreads
<1>2. c \in procs /\ c \in atoms /\ c \in Pid /\ c \in Thread /\ c # t /\ pc[c] \in {"none", "made"}
  BY <1>1 DEF ProcessInv, SpawnInv, Spawning, TypeOK
<1>3. TypeOK'
  BY <1>1 DEF TypeOK
<1>4. Kept /\ Pid \subseteq Thread
  BY PidsAreThreads, KeptRecords DEF ProcessInv
<1>5. Kept'
  BY <1>1, <1>2, <1>4 DEF Kept, Active, Started, Ending
<1>6. SpawnInv'
  <2>1. ASSUME NEW u \in Thread, pc[u] \in Spawning, u # t
        PROVE  child[u] # t /\ child[u] # c /\ u # c /\ child[u] \in Thread
    BY <1>1, <1>2, <2>1, FreeNotChild DEF ProcessInv, SpawnInv, Spawning, TypeOK
  <2>2. ASSUME NEW u \in Thread, pc'[u] \in Spawning
        PROVE  IF u = t THEN pc'[t] = "begin" ELSE u # c /\ pc[u] \in Spawning /\ pc'[u] = pc[u]
    BY <1>2, <2>2 DEF Spawning
  <2>3. ASSUME NEW u \in Thread, pc'[u] \in Spawning
        PROVE  /\ child'[u] \in procs'
               /\ pc'[child'[u]] = (IF pc'[u] = "begin" THEN "made" ELSE "none")
               /\ pc'[u] # "atom" => child'[u] \in atoms'
    <3>1. CASE u = t
      BY <1>2, <2>2, <2>3, <3>1
    <3>2. CASE u # t
      BY <2>1, <2>2, <2>3, <3>2 DEF ProcessInv, SpawnInv
    <3>3. QED
      BY <3>1, <3>2
  <2>4. ASSUME NEW u \in Thread, NEW v \in Thread, pc'[u] \in Spawning, pc'[v] \in Spawning, u # v
        PROVE  child'[u] # child'[v]
    BY <2>1, <2>2, <2>4 DEF ProcessInv, SpawnInv
  <2>5. QED
    BY <2>3, <2>4 DEF SpawnInv
<1>7. ListsInv'
  BY <1>1, <1>2, ListsStay
<1>8. QED
  BY <1>3, <1>4, <1>5, <1>6, <1>7 DEF ProcessInv, RecordsOfLiving, Kept, At

(* Prepares and Starts: thread t moves, and its child moves with it. *)
LEMMA ChildMoves ==
  ASSUME ProcessInv, NEW t \in Thread, Prepares(t) \/ Starts(t)
  PROVE  ProcessInv'
<1>1. TypeOK /\ ListsInv /\ Pid \subseteq Thread /\ pc[t] \in {"start", "begin"}
  BY ProcessTypes, PidsAreThreads DEF Prepares, Starts, At
<1>2. PICK c : c = child[t]
  OBVIOUS
<1>3. c \in procs /\ c \in atoms /\ c \in Pid /\ c \in Thread /\ c # t /\ pc[c] \in {"none", "made"}
  BY <1>1, <1>2 DEF ProcessInv, SpawnInv, Spawning, TypeOK
<1>4. CASE Prepares(t)
  <2>1. pc' = [pc EXCEPT ![t] = "begin", ![c] = "made"]
    BY <1>2, <1>4 DEF Prepares
  <2>2. state' = [state EXCEPT ![c] = "RUNNING"]
    BY <1>2, <1>4 DEF Prepares
  <2>3. UNCHANGED <<procs, parent, told, atoms, front, list, root, due, kills, child>>
    BY <1>4 DEF Prepares, work
  <2>4. pc'[t] = "begin" /\ pc'[c] = "made" /\ pc' \in [Thread -> {"none", "made"} \cup Started]
    BY <1>1, <1>3, <2>1 DEF TypeOK, Started
  <2>5. \A u \in Thread : u # t /\ u # c => pc'[u] = pc[u]
    BY <1>1, <1>3, <2>1 DEF TypeOK
  <2>6. state' \in [Pid -> State]
    BY <1>1, <2>2 DEF TypeOK, State
  <2>7. child' \in [Thread -> Thread]
    BY <1>1, <2>3 DEF TypeOK
  <2>8. QED
    BY <1>1, <1>2, <2>3, <2>4, <2>5, <2>6, <2>7, ChildMoved
<1>5. CASE Starts(t)
  <2>1. pc' = [pc EXCEPT ![t] = "run", ![c] = "run"]
    BY <1>2, <1>5 DEF Starts
  <2>2. child' = [child EXCEPT ![t] = 0]
    BY <1>5 DEF Starts
  <2>3. UNCHANGED <<procs, parent, state, told, atoms, front, list, root, due, kills>>
    BY <1>5 DEF Starts
  <2>4. pc'[t] = "run" /\ pc'[c] = "run" /\ pc' \in [Thread -> {"none", "made"} \cup Started]
    BY <1>1, <1>3, <2>1 DEF TypeOK, Started
  <2>5. \A u \in Thread : u # t /\ u # c => pc'[u] = pc[u]
    BY <1>1, <1>3, <2>1 DEF TypeOK
  <2>6. child' \in [Thread -> Thread] /\ \A u \in Thread : u # t => child'[u] = child[u]
    BY <1>1, <2>2, PidsAreThreads DEF TypeOK, Desktop
  <2>7. state' \in [Pid -> State]
    BY <1>1, <2>3 DEF TypeOK
  <2>8. QED
    BY <1>1, <1>2, <2>3, <2>4, <2>5, <2>6, <2>7, ChildMoved
<1>6. QED
  BY <1>4, <1>5

LEMMA DropsAtomKeeps ==
  ASSUME ProcessInv, NEW q \in Pid, DropsAtom(q)
  PROVE  ProcessInv'
<1>1. TypeOK /\ ListsInv /\ Pid \subseteq Thread /\ q \in Thread /\ pc[q] = "drop"
  BY ProcessTypes, PidsAreThreads DEF DropsAtom, At
<1>2. /\ pc' = [pc EXCEPT ![q] = "reap"] /\ atoms' = atoms \ {q}
      /\ UNCHANGED <<procs, parent, state, told, work>>
  BY DEF DropsAtom, Goto
<1>3. \A u \in Thread : pc'[u] = (IF u = q THEN "reap" ELSE pc[u])
  BY <1>1, <1>2 DEF TypeOK
<1>4. TypeOK'
  BY <1>1, <1>2 DEF TypeOK, Started, Ending, work
<1>5. Kept /\ Pid \subseteq Thread
  BY PidsAreThreads, KeptRecords DEF ProcessInv
<1>6. Kept'
  BY <1>1, <1>2, <1>3, <1>5 DEF Kept, Active, Started, Ending
<1>7. SpawnInv'
  <2>1. ASSUME NEW u \in Thread, pc'[u] \in Spawning
        PROVE  /\ u # q /\ pc[u] \in Spawning /\ pc'[u] = pc[u] /\ child'[u] = child[u]
               /\ child[u] # q /\ child[u] \in Thread
    BY <1>1, <1>2, <1>3, <2>1, FreeNotChild DEF Spawning, work, TypeOK
  <2>2. ASSUME NEW u \in Thread, pc'[u] \in Spawning
        PROVE  /\ child'[u] \in procs'
               /\ pc'[child'[u]] = (IF pc'[u] = "begin" THEN "made" ELSE "none")
               /\ pc'[u] # "atom" => child'[u] \in atoms'
    BY <1>2, <1>3, <2>1, <2>2 DEF ProcessInv, SpawnInv
  <2>3. ASSUME NEW u \in Thread, NEW v \in Thread, pc'[u] \in Spawning, pc'[v] \in Spawning, u # v
        PROVE  child'[u] # child'[v]
    BY <2>1, <2>3 DEF ProcessInv, SpawnInv
  <2>4. QED
    BY <2>2, <2>3 DEF SpawnInv
<1>8. ListsInv'
  BY <1>1, <1>2, <1>3, ListsStay DEF work
<1>9. QED
  BY <1>4, <1>5, <1>6, <1>7, <1>8 DEF ProcessInv, RecordsOfLiving, Kept, At

LEMMA ExitReapsKeeps ==
  ASSUME ProcessInv, NEW q \in Pid, ExitReaps(q)
  PROVE  ProcessInv'
<1>1. TypeOK /\ ListsInv /\ Pid \subseteq Thread /\ q \in Thread /\ pc[q] = "reap"
  BY ProcessTypes, PidsAreThreads DEF ExitReaps, At
<1>2. /\ pc' = [pc EXCEPT ![q] = "end"] /\ procs' = procs \ {q}
      /\ UNCHANGED <<parent, state, told, atoms, work>>
  BY DEF ExitReaps, Reaps, Goto
<1>3. \A u \in Thread : pc'[u] = (IF u = q THEN "end" ELSE pc[u])
  BY <1>1, <1>2 DEF TypeOK
<1>4. TypeOK'
  BY <1>1, <1>2 DEF TypeOK, Started, Ending, work
<1>5. Kept /\ Pid \subseteq Thread
  BY PidsAreThreads, KeptRecords DEF ProcessInv
<1>6. Kept'
  BY <1>1, <1>2, <1>3, <1>5 DEF Kept, Active, Started, Ending
<1>7. SpawnInv'
  <2>1. ASSUME NEW u \in Thread, pc'[u] \in Spawning
        PROVE  /\ u # q /\ pc[u] \in Spawning /\ pc'[u] = pc[u] /\ child'[u] = child[u]
               /\ child[u] # q /\ child[u] \in Thread
    BY <1>1, <1>2, <1>3, <2>1, FreeNotChild DEF Spawning, work, TypeOK
  <2>2. ASSUME NEW u \in Thread, pc'[u] \in Spawning
        PROVE  /\ child'[u] \in procs'
               /\ pc'[child'[u]] = (IF pc'[u] = "begin" THEN "made" ELSE "none")
               /\ pc'[u] # "atom" => child'[u] \in atoms'
    BY <1>2, <1>3, <2>1, <2>2 DEF ProcessInv, SpawnInv
  <2>3. ASSUME NEW u \in Thread, NEW v \in Thread, pc'[u] \in Spawning, pc'[v] \in Spawning, u # v
        PROVE  child'[u] # child'[v]
    BY <2>1, <2>3 DEF ProcessInv, SpawnInv
  <2>4. QED
    BY <2>2, <2>3 DEF SpawnInv
<1>8. ListsInv'
  BY <1>1, <1>2, <1>3, ListsStay DEF work
<1>9. QED
  BY <1>4, <1>5, <1>6, <1>7, <1>8 DEF ProcessInv, RecordsOfLiving, Kept, At

-----------------------------------------------------------------------------

LEMMA ProcessInit == Init => ProcessInv
<1>1. SUFFICES ASSUME Init PROVE ProcessInv
  OBVIOUS
<1>2. \A t \in Thread : pc[t] \in {"run", "none"} /\ (t \in Pid => pc[t] = "none")
  BY <1>1, PidsAreThreads DEF Init
<1>3. 0 \in Thread /\ Desktop \in Thread /\ 0 \in 0 .. MaxWork
  BY PidsAreThreads DEF Desktop
<1>4. TypeOK
  BY <1>1, <1>3 DEF Init, TypeOK, State, Started
<1>5. SpawnInv /\ ListsInv
  BY <1>2 DEF SpawnInv, ListsInv, Spawning
<1>6. Kept
  BY <1>1, <1>2, PidsAreThreads DEF Kept, Init
<1>7. QED
  BY <1>4, <1>5, <1>6, KeptRecords DEF ProcessInv

LEMMA ProcessStep == ProcessInv /\ [Next]_vars => ProcessInv'
<1>1. SUFFICES ASSUME ProcessInv, [Next]_vars PROVE ProcessInv'
  OBVIOUS
<1>2. ASSUME NEW t \in Thread, Choice(t)
      PROVE  ProcessInv'
  BY <1>1, <1>2, SpawnKeeps, KillsBegin DEF Choice
<1>3. ASSUME NEW t \in Thread, Goes(t)
      PROVE  ProcessInv'
  BY <1>1, <1>3, MakesAtomKeeps, ChildMoves, WalksKeep, LooksKeep, KillStepsKeep DEF Goes
<1>4. ASSUME NEW p \in Pid, Runs(p) \/ ReadEnds(p)
      PROVE  ProcessInv'
  BY <1>1, <1>4, RunsKeep, DropsAtomKeeps, ExitReapsKeeps DEF Runs
<1>5. CASE UNCHANGED vars
  BY <1>1, <1>5 DEF vars, work, ProcessInv, RecordsOfLiving, TypeOK, SpawnInv, ListsInv, At
<1>6. QED
  BY <1>1, <1>2, <1>3, <1>4, <1>5 DEF Next

(* Whatever is spawned and killed by whichever threads, every atom is that *)
(* of a process in the table, a running process has both, one whose exit   *)
(* is being told has its record alone, and one that has ended has neither  *)
(* (_on_exit, karmazyn_process.py).                                        *)
THEOREM ProcessRecords == Spec => []RecordsOfLiving
<1>1. ProcessInv => RecordsOfLiving
  BY DEF ProcessInv
<1>2. QED
  BY <1>1, ProcessInit, ProcessStep, PTL DEF Spec

-----------------------------------------------------------------------------
(* The line of a process *)

(* A set of numbers has a least one. *)
LEMMA Least ==
  ASSUME NEW S \in SUBSET Nat, S # {} PROVE \E m \in S : \A x \in S : m <= x
<1>1. \E m \in S : \A x \in S : <<x, m>> \notin OpToRel(<, Nat)
  BY NatLessThanWellFounded, WFMin, Zenon
<1>2. \A x, m \in Nat : <<x, m>> \in OpToRel(<, Nat) <=> x < m
  BY Zenon DEF OpToRel
<1>3. \E m \in S : \A x \in S : ~ x < m
  BY <1>1, <1>2, Zenon
<1>4. QED
  BY <1>3

(* Induction for a set of numbers. *)
LEMMA Induction ==
  ASSUME NEW S, 0 \in S, \A n, m \in Nat : n \in S /\ m = n + 1 => m \in S
  PROVE  Nat \subseteq S
<1> DEFINE T == Nat \ S
<1>1. ASSUME T # {} PROVE FALSE
  <2>1. PICK m \in T : \A x \in T : m <= x
    BY <1>1, Least
  <2>2. m # 0 /\ m - 1 \in Nat /\ m - 1 \notin T
    BY <2>1
  <2>3. QED
    BY <2>1, <2>2
<1>2. QED
  BY <1>1

LEMMA PidBound == MaxPid \in Nat
BY ProcessAssumption

(* Line, as a function of who is whose parent. *)
LineOf(par) == CHOOSE f : f = [p \in Pid |-> IF par[p] = Desktop THEN {p} ELSE {p} \cup f[par[p]]]

LEMMA LineIs == Line = LineOf(parent) /\ Line' = LineOf(parent')
BY DEF Line, LineOf

LineTo(f, par, n) ==
  f = [p \in 1 .. n |-> IF par[p] = Desktop THEN {p} ELSE {p} \cup f[par[p]]]

Ordered(par) == \A p \in Pid : par[p] \in Nat /\ par[p] < p

LEMMA LineExists ==
  ASSUME NEW par, Ordered(par), NEW n \in 0 .. MaxPid PROVE \E f : LineTo(f, par, n)
<1> DEFINE S == {m \in Nat : m <= MaxPid => \E f : LineTo(f, par, m)}
<1> HIDE DEF S
<1>1. 0 \in S
  <2>1. LineTo([p \in 1 .. 0 |-> {p}], par, 0)
    BY DEF LineTo
  <2>2. QED
    BY <2>1 DEF S
<1>2. ASSUME NEW m \in Nat, NEW k \in Nat, m \in S, k = m + 1 PROVE k \in S
  <2>1. SUFFICES ASSUME k <= MaxPid PROVE \E f : LineTo(f, par, k)
    BY DEF S
  <2>small. k = m + 1 /\ k <= MaxPid /\ m <= MaxPid
    BY <1>2, <2>1, PidBound
  <2>2. PICK f : LineTo(f, par, m)
    BY <1>2, <2>small, Zenon DEF S
  <2> DEFINE g == [p \in 1 .. k |-> IF p <= m THEN f[p]
                                    ELSE IF par[p] = Desktop THEN {p} ELSE {p} \cup f[par[p]]]
  <2>3. ASSUME NEW p \in 1 .. k
        PROVE  g[p] = IF par[p] = Desktop THEN {p} ELSE {p} \cup g[par[p]]
    <3>0. p \in Pid /\ p <= m + 1
      BY <2>small, PidBound DEF Pid
    <3>older. PICK q \in Nat : q = par[p] /\ q < p
      BY <3>0 DEF Ordered
    <3>1. par[p] = Desktop \/ (par[p] \in 1 .. k /\ par[p] <= m /\ par[p] \in 1 .. m)
      BY <2>small, <3>0, <3>older DEF Desktop, Pid
    <3>2. par[p] # Desktop => g[par[p]] = f[par[p]]
      BY <3>1
    <3>3. CASE p <= m
      <4>1. p \in 1 .. m /\ g[p] = f[p]
        BY <3>3
      <4>2. f[p] = IF par[p] = Desktop THEN {p} ELSE {p} \cup f[par[p]]
        BY <2>2, <4>1 DEF LineTo
      <4>3. QED
        BY <3>2, <4>1, <4>2
    <3>4. CASE ~ p <= m
      BY <3>2, <3>4
    <3>5. QED
      BY <3>3, <3>4
  <2>4. LineTo(g, par, k)
    BY <2>3, Zenon DEF LineTo
  <2>5. QED
    BY <2>4
<1>3. n \in S
  BY <1>1, <1>2, Induction
<1>4. QED
  BY <1>3 DEF S

LEMMA LineStep ==
  ASSUME NEW par, Ordered(par), NEW p \in Pid
  PROVE  LineOf(par)[p] = IF par[p] = Desktop THEN {p} ELSE {p} \cup LineOf(par)[par[p]]
<1> DEFINE IsLine(f) == f = [q \in Pid |-> IF par[q] = Desktop THEN {q} ELSE {q} \cup f[par[q]]]
<1>0. MaxPid \in 0 .. MaxPid
  BY PidBound
<1>1. PICK f : LineTo(f, par, MaxPid)
  BY <1>0, LineExists, Zenon
<1>2. IsLine(f)
  BY <1>1 DEF LineTo, Pid
<1>3. IsLine(LineOf(par))
  BY <1>2, Zenon DEF LineOf
<1>4. QED
  BY <1>3

(* Processes of a set that has everyone's parent keep their line as long   *)
(* as they keep their parents.                                             *)
LEMMA LineKept ==
  ASSUME NEW a, NEW b, Ordered(a), Ordered(b), NEW U \in SUBSET Pid,
         \A p \in U : b[p] = a[p] /\ (a[p] = Desktop \/ a[p] \in U)
  PROVE  \A p \in U : LineOf(b)[p] = LineOf(a)[p]
<1> DEFINE S == {n \in Nat : \A p \in U : p <= n => LineOf(b)[p] = LineOf(a)[p]}
<1> HIDE DEF S
<1>1. 0 \in S
  BY DEF S, Pid
<1>2. ASSUME NEW n \in Nat, NEW m \in Nat, n \in S, m = n + 1 PROVE m \in S
  <2>1. SUFFICES ASSUME NEW p \in U, p <= m PROVE LineOf(b)[p] = LineOf(a)[p]
    BY DEF S
  <2>2. p \in Pid
    OBVIOUS
  <2>3. LineOf(a)[p] = IF a[p] = Desktop THEN {p} ELSE {p} \cup LineOf(a)[a[p]]
    BY <2>2, LineStep
  <2>4. LineOf(b)[p] = IF b[p] = Desktop THEN {p} ELSE {p} \cup LineOf(b)[b[p]]
    BY <2>2, LineStep
  <2>5. CASE a[p] = Desktop
    BY <2>3, <2>4, <2>5
  <2>6. CASE a[p] # Desktop
    <3>1. PICK q \in U : q = a[p] /\ q = b[p] /\ q < p
      BY <2>2, <2>6 DEF Ordered
    <3>2. q <= n
      BY <1>2, <2>1, <2>2, <3>1 DEF Pid
    <3>3. LineOf(b)[q] = LineOf(a)[q]
      BY <1>2, <3>2 DEF S
    <3>4. QED
      BY <2>3, <2>4, <2>6, <3>1, <3>3
  <2>7. QED
    BY <2>5, <2>6
<1>3. Nat \subseteq S
  BY <1>1, <1>2, Induction
<1>4. QED
  BY <1>3 DEF S, Pid

(* Who is on the line of p: p, the line of its parent, and, below anyone   *)
(* else on it, one of that one's children.                                 *)
LEMMA LineFacts ==
  ASSUME NEW a, Ordered(a), NEW U \in SUBSET Pid, \A p \in U : a[p] = Desktop \/ a[p] \in U
  PROVE  \A p \in U : /\ p \in LineOf(a)[p] /\ LineOf(a)[p] \subseteq U
                      /\ \A q \in LineOf(a)[p] : q # p =>
                           \E c \in LineOf(a)[p] : a[c] = q
<1> DEFINE L == LineOf(a)
           Fact(p) == /\ p \in L[p] /\ L[p] \subseteq U
                      /\ \A q \in L[p] : q # p => \E c \in L[p] : a[c] = q
           S == {n \in Nat : \A p \in U : p <= n => Fact(p)}
<1> HIDE DEF S, L
<1>1. 0 \in S
  BY DEF S, Pid
<1>2. ASSUME NEW n \in Nat, NEW m \in Nat, n \in S, m = n + 1 PROVE m \in S
  <2>1. SUFFICES ASSUME NEW p \in U, p <= m PROVE Fact(p)
    BY DEF S
  <2>2. L[p] = IF a[p] = Desktop THEN {p} ELSE {p} \cup L[a[p]]
    BY LineStep DEF L
  <2>3. CASE a[p] = Desktop
    BY <2>2, <2>3
  <2>4. CASE a[p] # Desktop
    <3>1. PICK q \in U : q = a[p] /\ q < p
      BY <2>4 DEF Ordered
    <3>2. q <= n
      BY <1>2, <2>1, <3>1 DEF Pid
    <3>3. Fact(q)
      BY <1>2, <3>2 DEF S
    <3>4. L[p] = {p} \cup L[q]
      BY <2>2, <2>4, <3>1
    <3>5. ASSUME NEW r \in L[p], r # p PROVE \E c \in L[p] : a[c] = r
      BY <3>1, <3>3, <3>4, <3>5, Zenon
    <3>6. QED
      BY <3>3, <3>4, <3>5
  <2>5. QED
    BY <2>3, <2>4
<1>3. Nat \subseteq S
  BY <1>1, <1>2, Induction
<1>4. QED
  BY <1>3 DEF S, L, Pid

-----------------------------------------------------------------------------
(* The invariant of a kill *)

(* Pids that were given out; the least of the others is given out next.    *)
InUse == {p \in Pid : p \in procs \/ pc[p] # "none"}

TreeInv ==
  /\ Ordered(parent)
  /\ \A p \in InUse : parent[p] = Desktop \/ parent[p] \in InUse
  /\ \A p \in InUse : \A q \in Pid : q < p => q \in InUse

Heard(p) == told[p] \/ Over(p)

(* A process is a ZOMBIE only if it was asked, and a kill waits only for    *)
(* one that was.                                                           *)
AskInv ==
  /\ \A p \in Pid : state[p] \in {"ZOMBIE", "DEAD"} => Heard(p)
  /\ \A t \in Thread : pc[t] = "join" => Heard(Head(list[t]))

Killing == {"walk", "kill", "stop", "join"}

Sought(t, p) == p \in due[t] /\ p \in procs /\ (root[t] # 0 => Hangs(p, root[t]))

FrontInv(t) ==
  /\ due[t] \subseteq InUse
  /\ pc[t] = "walk" => root[t] # 0
  /\ pc[t] # "walk" => front[t] = <<>>
  /\ \A q \in ToSet(front[t]) : root[t] <= q

(* Who has not heard is on the list, or below one whose children are yet   *)
(* to be looked for.                                                       *)
FoundInv(t) ==
  \A p \in Pid : Sought(t, p) =>
    p \in ToSet(list[t]) \/ Heard(p) \/ \E q \in ToSet(front[t]) : q \in Line[p]

(* The children of one on the list are before it or yet to be put there.   *)
OrderInv(t) ==
  root[t] # 0 => \A i \in 1 .. Len(list[t]) : \A p \in Pid :
    Sought(t, p) /\ parent[p] = list[t][i] =>
      Heard(p) \/ p \in ToSet(front[t]) \/ \E j \in 1 .. i - 1 : list[t][j] = p

KillInv(t) == FrontInv(t) /\ FoundInv(t) /\ OrderInv(t)

TreeKillInv == TreeInv /\ AskInv /\ \A t \in Thread : pc[t] \in Killing => KillInv(t)

(* What no step undoes. *)
Calm ==
  /\ InUse \subseteq InUse'
  /\ \A p \in InUse : parent'[p] = parent[p] /\ (p \in procs' => p \in procs)
  /\ \A p \in Pid : Heard(p) => Heard(p)'

LEMMA LinesStay ==
  ASSUME TreeInv, TreeInv', Calm
  PROVE  \A p \in InUse : Line'[p] = Line[p] /\ Line[p] \subseteq InUse
<1> DEFINE U == InUse
<1>1. /\ U \in SUBSET Pid /\ Ordered(parent) /\ Ordered(parent')
      /\ \A p \in U : parent'[p] = parent[p] /\ (parent[p] = Desktop \/ parent[p] \in U)
  BY DEF TreeInv, Calm, InUse
<1> HIDE DEF U
<1>2. \A p \in U : LineOf(parent')[p] = LineOf(parent)[p]
  BY <1>1, LineKept
<1>3. \A p \in U : LineOf(parent)[p] \subseteq U
  BY <1>1, LineFacts
<1>4. QED
  BY <1>2, <1>3, LineIs DEF U

LEMMA SoughtBefore ==
  ASSUME TreeInv, TreeInv', Calm, NEW t, due[t] \subseteq InUse, due'[t] = due[t], root'[t] = root[t]
  PROVE  \A p \in Pid : Sought(t, p)' =>
           /\ Sought(t, p) /\ p \in InUse
           /\ Line'[p] = Line[p] /\ parent'[p] = parent[p] /\ p \in procs'
<1>1. SUFFICES ASSUME NEW p \in Pid, Sought(t, p)'
               PROVE  /\ Sought(t, p) /\ p \in InUse
                      /\ Line'[p] = Line[p] /\ parent'[p] = parent[p] /\ p \in procs'
  OBVIOUS
<1>2. p \in InUse /\ p \in due[t] /\ p \in procs'
  BY <1>1 DEF Sought
<1>3. p \in procs /\ parent'[p] = parent[p] /\ Line'[p] = Line[p] /\ Line[p] \subseteq InUse
  BY <1>2, LinesStay DEF Calm
<1>4. ASSUME root[t] # 0 PROVE Hangs(p, root[t])
  <2>1. \A q \in Line[p] : q > root[t] => q \in procs'
    BY <1>1, <1>3, <1>4 DEF Sought, Hangs
  <2>2. \A q \in Line[p] : q > root[t] => q \in procs
    BY <1>3, <2>1 DEF Calm
  <2>3. QED
    BY <1>3, <2>2 DEF Hangs
<1>5. QED
  BY <1>2, <1>3, <1>4 DEF Sought

(* A kill is not disturbed by what others do, nor by its own steps that    *)
(* leave its lists alone.                                                  *)
LEMMA KillStays ==
  ASSUME TreeInv, TreeInv', Calm, NEW t \in Thread, KillInv(t),
         front'[t] = front[t], list'[t] = list[t], root'[t] = root[t], due'[t] = due[t],
         pc'[t] = pc[t] \/ (pc[t] # "walk" /\ pc'[t] # "walk")
  PROVE  KillInv(t)'
<1>1. \A p \in Pid : Sought(t, p)' =>
        Sought(t, p) /\ Line'[p] = Line[p] /\ parent'[p] = parent[p]
  BY SoughtBefore DEF KillInv, FrontInv
<1>2. \A p \in Pid : Heard(p) => Heard(p)'
  BY DEF Calm
<1>3. FrontInv(t)'
  BY DEF KillInv, FrontInv, Calm
<1>4. FoundInv(t)'
  BY <1>1, <1>2 DEF KillInv, FoundInv
<1>5. OrderInv(t)'
  BY <1>1, <1>2 DEF KillInv, OrderInv
<1>6. QED
  BY <1>3, <1>4, <1>5 DEF KillInv

LEMMA Tails ==
  ASSUME NEW s \in Seq(Pid), s # <<>>
  PROVE  /\ Tail(s) \in Seq(Pid) /\ Len(Tail(s)) = Len(s) - 1
         /\ \A i \in 1 .. Len(s) - 1 : Tail(s)[i] = s[i + 1]
         /\ Head(s) = s[1] /\ Head(s) \in Pid
         /\ ToSet(s) = {Head(s)} \cup ToSet(Tail(s))
<1>1. /\ Tail(s) \in Seq(Pid) /\ Len(Tail(s)) = Len(s) - 1
      /\ \A i \in 1 .. Len(s) - 1 : Tail(s)[i] = s[i + 1]
      /\ Head(s) = s[1] /\ Head(s) \in Pid
      /\ Len(s) \in Nat /\ Len(s) >= 1
      /\ DOMAIN s = 1 .. Len(s)
  OBVIOUS
<1>2. DOMAIN Tail(s) = 1 .. Len(s) - 1
  BY <1>1
<1>3. ASSUME NEW x \in ToSet(s) PROVE x = s[1] \/ x \in ToSet(Tail(s))
  <2>1. PICK i \in 1 .. Len(s) : x = s[i]
    BY <1>1 DEF ToSet
  <2>2. CASE i = 1
    BY <2>1, <2>2
  <2>3. CASE i # 1
    <3>1. i - 1 \in 1 .. Len(s) - 1 /\ Tail(s)[i - 1] = s[i]
      BY <1>1, <2>3
    <3>2. QED
      BY <1>2, <2>1, <3>1 DEF ToSet
  <2>4. QED
    BY <2>2, <2>3
<1>4. ASSUME NEW x \in ToSet(Tail(s)) PROVE x \in ToSet(s)
  <2>1. PICK i \in 1 .. Len(s) - 1 : x = s[i + 1]
    BY <1>1, <1>2 DEF ToSet
  <2>2. i + 1 \in 1 .. Len(s)
    BY <1>1
  <2>3. QED
    BY <1>1, <2>1, <2>2 DEF ToSet
<1>5. s[1] \in ToSet(s)
  BY <1>1 DEF ToSet
<1>6. QED
  BY <1>1, <1>3, <1>4, <1>5

(* It goes on to the next target when this one has heard or is gone.       *)
LEMMA KillPops ==
  ASSUME TreeInv, TreeInv', Calm, NEW t \in Thread, KillInv(t),
         list[t] \in Seq(Pid), list[t] # <<>>, list'[t] = Tail(list[t]),
         front'[t] = front[t], root'[t] = root[t], due'[t] = due[t],
         pc[t] # "walk", pc'[t] # "walk",
         NEW h \in Pid, h = Head(list[t]), Heard(h)' \/ h \notin procs'
  PROVE  KillInv(t)'
<1>1. \A p \in Pid : Sought(t, p)' =>
        /\ Sought(t, p) /\ Line'[p] = Line[p] /\ parent'[p] = parent[p]
        /\ p = h => Heard(p)'
  BY SoughtBefore DEF KillInv, FrontInv
<1>2. \A p \in Pid : Heard(p) => Heard(p)'
  BY DEF Calm
<1>3. PICK l : l = list[t]
  OBVIOUS
<1>4. /\ Len(Tail(l)) = Len(l) - 1 /\ Len(l) \in Nat
      /\ \A i \in 1 .. Len(l) - 1 : Tail(l)[i] = l[i + 1]
      /\ Head(l) = l[1]
      /\ ToSet(l) = {Head(l)} \cup ToSet(Tail(l))
  BY <1>3, Tails
<1>5. FrontInv(t)'
  BY DEF KillInv, FrontInv, Calm
<1>6. FoundInv(t)'
  <2>1. \A p \in Pid : Sought(t, p) =>
          p \in ToSet(l) \/ Heard(p) \/ \E q \in ToSet(front[t]) : q \in Line[p]
    BY <1>3 DEF KillInv, FoundInv
  <2>2. ASSUME NEW p \in Pid, Sought(t, p)'
        PROVE  p \in ToSet(Tail(l)) \/ Heard(p)' \/ \E q \in ToSet(front[t]) : q \in Line'[p]
    BY <1>1, <1>2, <1>3, <1>4, <2>1, <2>2
  <2>3. QED
    BY <1>3, <2>2 DEF FoundInv
<1>7. OrderInv(t)'
  <2>1. SUFFICES ASSUME root[t] # 0, NEW i \in 1 .. Len(l) - 1, NEW p \in Pid,
                        Sought(t, p)', parent'[p] = Tail(l)[i]
                 PROVE  \/ Heard(p)' \/ p \in ToSet(front[t])
                        \/ \E j \in 1 .. i - 1 : Tail(l)[j] = p
    BY <1>3, <1>4 DEF OrderInv
  <2>2. i + 1 \in 1 .. Len(l) /\ parent[p] = l[i + 1] /\ Sought(t, p)
    BY <1>1, <1>4, <2>1
  <2>3. PICK k : k = i + 1
    OBVIOUS
  <2>4. Heard(p) \/ p \in ToSet(front[t]) \/ \E j \in 1 .. k - 1 : l[j] = p
    BY <1>3, <2>1, <2>2, <2>3 DEF KillInv, OrderInv
  <2>5. ASSUME NEW j \in 1 .. k - 1, l[j] = p
        PROVE  Heard(p)' \/ \E m \in 1 .. i - 1 : Tail(l)[m] = p
    <3>1. CASE j = 1
      BY <1>1, <1>3, <1>4, <2>1, <2>5, <3>1
    <3>2. CASE j # 1
      <4>1. j - 1 \in 1 .. i - 1 /\ j - 1 \in 1 .. Len(l) - 1 /\ (j - 1) + 1 = j
        BY <1>4, <2>3, <2>5, <3>2
      <4>2. Tail(l)[j - 1] = l[j]
        BY <1>4, <4>1
      <4>3. QED
        BY <2>5, <4>1, <4>2
    <3>3. QED
      BY <3>1, <3>2
  <2>6. QED
    BY <1>2, <2>4, <2>5
<1>8. QED
  BY <1>5, <1>6, <1>7 DEF KillInv

(* SetToSeq leaves nobody out. *)
LEMMA SetToSeqAll ==
  ASSUME NEW S \in SUBSET Pid
  PROVE  SetToSeq(S) \in Seq(Pid) /\ ToSet(SetToSeq(S)) = S
<1>1. IsFiniteSet(S)
  BY PidsFinite, FS_Subset
<1>2. Cardinality(S) \in Nat /\ ExistsBijection(1 .. Cardinality(S), S)
  BY <1>1, FS_CardinalityType
<1>3. \E f \in [1 .. Cardinality(S) -> S] : IsInjective(f)
  BY <1>2 DEF ExistsBijection, Bijection, Injection
<1>4. SetToSeq(S) \in [1 .. Cardinality(S) -> S] /\ IsInjective(SetToSeq(S))
  BY <1>3 DEF SetToSeq
<1>5. PICK f, n : f = SetToSeq(S) /\ n = Cardinality(S)
  OBVIOUS
<1>6. f \in Injection(1 .. n, S) /\ n \in Nat
  BY <1>2, <1>4, <1>5 DEF Injection
<1>7. Cardinality(1 .. n) = n
  BY <1>6, FS_Interval
<1>8. f \in Surjection(1 .. n, S)
  BY <1>1, <1>5, <1>6, <1>7, FS_Injection
<1>9. f \in [1 .. n -> S] /\ \A x \in S : \E i \in 1 .. n : f[i] = x
  BY <1>8 DEF Surjection
<1>10. ToSet(f) = S
  BY <1>9 DEF ToSet
<1>11. QED
  BY <1>5, <1>10, SetToSeqType

LEMMA Concat ==
  ASSUME NEW f \in Seq(Pid), NEW u \in Seq(Pid)
  PROVE  /\ f \o u \in Seq(Pid) /\ Len(f \o u) = Len(f) + Len(u)
         /\ \A i \in 1 .. Len(f) : (f \o u)[i] = f[i]
         /\ \A i \in 1 .. Len(u) : (f \o u)[Len(f) + i] = u[i]
OBVIOUS

(* w is f, of length n, and u, of length m, behind it. *)
Pieces(w, f, u, n, m) ==
  /\ Len(w) = n + m
  /\ \A i \in 1 .. n : w[i] = f[i]
  /\ \A i \in 1 .. m : w[n + i] = u[i]

LEMMA ConcatPieces ==
  ASSUME NEW f \in Seq(Pid), NEW u \in Seq(Pid), NEW w, w = f \o u,
         NEW n, NEW m, Len(f) = n, Len(u) = m
  PROVE  Pieces(w, f, u, n, m)
BY Concat DEF Pieces

LEMMA Joining ==
  ASSUME NEW s \in Seq(Pid), s # <<>>, NEW u \in Seq(Pid)
  PROVE  /\ Front(s) \o u \in Seq(Pid) /\ Last(s) \in Pid /\ Last(s) \in ToSet(s)
         /\ ToSet(s) \subseteq ToSet(Front(s) \o u) \cup {Last(s)}
         /\ ToSet(u) \subseteq ToSet(Front(s) \o u)
         /\ ToSet(Front(s) \o u) \subseteq ToSet(s) \cup ToSet(u)
<1>1. PICK n, m \in Nat : n = Len(s) - 1 /\ m = Len(u)
  OBVIOUS
<1>2. PICK f \in Seq(Pid) : f = Front(s)
  BY FrontLast
<1>3. Len(f) = n /\ (\A i \in 1 .. n : f[i] = s[i]) /\ Last(s) = s[n + 1] /\ Len(s) = n + 1
  BY <1>1, <1>2 DEF Front, Last
<1>4. PICK w \in Seq(Pid) : w = f \o u
  BY Concat
<1>lengths. Len(f) = n /\ Len(u) = m
  BY <1>1, <1>3
<1>pieces. Pieces(w, f, u, n, m)
  BY <1>4, <1>lengths, ConcatPieces, Zenon
<1>5. /\ Len(w) = n + m
      /\ \A i \in 1 .. n : w[i] = s[i]
      /\ \A i \in 1 .. m : w[n + i] = u[i]
  BY <1>3, <1>pieces DEF Pieces
<1>6. DOMAIN s = 1 .. n + 1 /\ DOMAIN u = 1 .. m /\ DOMAIN w = 1 .. n + m
  BY <1>1, <1>3, <1>5
<1>7. ASSUME NEW x \in ToSet(s), x # Last(s) PROVE x \in ToSet(w)
  <2>1. PICK i \in 1 .. n + 1 : x = s[i]
    BY <1>6 DEF ToSet
  <2>2. i \in 1 .. n /\ i \in 1 .. n + m
    BY <1>1, <1>3, <1>7, <2>1
  <2>3. QED
    BY <1>5, <1>6, <2>1, <2>2 DEF ToSet
<1>8. ASSUME NEW x \in ToSet(u) PROVE x \in ToSet(w)
  <2>1. PICK i \in 1 .. m : x = u[i]
    BY <1>6 DEF ToSet
  <2>2. n + i \in 1 .. n + m
    BY <1>1
  <2>3. QED
    BY <1>5, <1>6, <2>1, <2>2 DEF ToSet
<1>9. ASSUME NEW x \in ToSet(w) PROVE x \in ToSet(s) \cup ToSet(u)
  <2>1. PICK i \in 1 .. n + m : x = w[i]
    BY <1>6 DEF ToSet
  <2>2. CASE i \in 1 .. n
    <3>1. i \in 1 .. n + 1
      BY <2>2
    <3>2. x = s[i]
      BY ONLY <1>5, <2>1, <2>2
    <3>3. QED
      BY <1>6, <3>1, <3>2 DEF ToSet
  <2>3. CASE i \notin 1 .. n
    <3>1. i - n \in 1 .. m /\ n + (i - n) = i
      BY <1>1, <2>3
    <3>2. x = u[i - n]
      BY <1>5, <2>1, <3>1
    <3>3. QED
      BY <1>6, <3>1, <3>2 DEF ToSet
  <2>4. QED
    BY <2>2, <2>3
<1>10. Last(s) \in ToSet(s) /\ Last(s) \in Pid
  <2>1. n + 1 \in 1 .. n + 1
    BY <1>1
  <2>2. QED
    BY <1>3, <1>6, <2>1, FrontLast DEF ToSet
<1>11. QED
  BY <1>2, <1>4, <1>7, <1>8, <1>9, <1>10

(* One pid is taken off the front, its children go there, and it goes to   *)
(* the head of the list.                                                   *)
LEMMA WalkKeepsKill ==
  ASSUME ProcessInv, TreeInv, TreeInv', Calm, NEW t \in Thread, KillInv(t), Walks(t)
  PROVE  KillInv(t)'
<1>1. /\ front[t] \in Seq(Pid) /\ front[t] # <<>> /\ list[t] \in Seq(Pid)
      /\ root[t] \in Thread /\ root[t] # 0
      /\ pc[t] = "walk" /\ pc' = [pc EXCEPT ![t] = IF front'[t] = <<>> THEN "kill" ELSE "walk"]
      /\ pc \in [Thread -> {"none", "made"} \cup Started]
  BY DEF ProcessInv, RecordsOfLiving, TypeOK, ListsInv, KillInv, FrontInv, Walks, At, Goto
<1>2. PICK q, u, l, n : q = Last(front[t]) /\ u = SetToSeq(Children(q)) /\ l = list[t] /\ n = Len(l)
  OBVIOUS
<1>3. Children(q) \in SUBSET Pid
  BY DEF Children, ProcessInv, RecordsOfLiving, TypeOK
<1>4. u \in Seq(Pid) /\ ToSet(u) = Children(q)
  BY <1>2, <1>3, SetToSeqAll
<1>5. /\ front'[t] = Front(front[t]) \o u /\ list'[t] = <<q>> \o l
      /\ UNCHANGED <<procs, parent, told, root, due>>
  BY <1>2 DEF Walks, Walk, ProcessInv, RecordsOfLiving, TypeOK, work
<1>6. /\ q \in Pid /\ q \in ToSet(front[t])
      /\ ToSet(front[t]) \subseteq ToSet(front'[t]) \cup {q}
      /\ Children(q) \subseteq ToSet(front'[t])
      /\ ToSet(front'[t]) \subseteq ToSet(front[t]) \cup Children(q)
  BY <1>1, <1>2, <1>4, <1>5, Joining
<1>7. l \in Seq(Pid) /\ <<q>> \in Seq(Pid) /\ Len(<<q>>) = 1 /\ n \in Nat /\ Len(l) = n
  BY <1>1, <1>2, <1>6
<1>8. Pieces(list'[t], <<q>>, l, 1, n)
  BY <1>5, <1>7, ConcatPieces, Zenon
<1>9. /\ Len(list'[t]) = n + 1 /\ list'[t][1] = q
      /\ \A i \in 1 .. n : list'[t][1 + i] = l[i]
  <2>1. PICK w : w = list'[t]
    OBVIOUS
  <2>2. /\ Len(w) = 1 + n /\ \A i \in 1 .. 1 : w[i] = <<q>>[i]
        /\ \A i \in 1 .. n : w[1 + i] = l[i]
    BY <1>8, <2>1, Zenon DEF Pieces
  <2>3. w[1] = <<q>>[1] /\ Len(w) = n + 1
    BY <1>7, <2>2
  <2>4. QED
    BY <2>1, <2>2, <2>3
<1>10. list'[t] \in Seq(Pid)
  BY <1>5, <1>7
<1>11. q \in ToSet(list'[t]) /\ ToSet(l) \subseteq ToSet(list'[t])
  <2>1. PICK w \in Seq(Pid) : w = list'[t]
    BY <1>10
  <2>2. DOMAIN w = 1 .. n + 1 /\ DOMAIN l = 1 .. n
    BY <1>7, <1>9, <2>1
  <2>3. 1 \in 1 .. n + 1 /\ \A i \in 1 .. n : 1 + i \in 1 .. n + 1
    BY <1>7
  <2>4. \A i \in 1 .. n : w[1 + i] = l[i]
    BY <1>9, <2>1
  <2>5. q \in ToSet(w)
    BY <1>9, <2>1, <2>2, <2>3 DEF ToSet
  <2>6. ToSet(l) \subseteq ToSet(w)
    BY <2>2, <2>3, <2>4 DEF ToSet
  <2>7. QED
    BY <2>1, <2>5, <2>6
<1>12. \A p \in Pid : Sought(t, p)' =>
         Sought(t, p) /\ p \in InUse /\ Line'[p] = Line[p] /\ parent'[p] = parent[p]
  BY <1>5, SoughtBefore DEF KillInv, FrontInv
<1>13. \A p \in Pid : Heard(p) => Heard(p)'
  BY DEF Calm
<1>14. root[t] <= q /\ \A c \in Children(q) : parent[c] = q /\ q < c
  BY <1>3, <1>6 DEF KillInv, FrontInv, Children, TreeInv, Ordered
<1>15. FrontInv(t)'
  <2>1. ASSUME NEW x \in ToSet(front'[t]) PROVE root[t] <= x
    <3>1. CASE x \in ToSet(front[t])
      BY <3>1 DEF KillInv, FrontInv
    <3>2. CASE x \in Children(q)
      <4>1. root[t] \in Int /\ q \in Int /\ x \in Int
        BY <1>1, <1>3, <1>6, <3>2 DEF Thread, Desktop, Pid
      <4>2. QED
        BY <1>14, <3>2, <4>1
    <3>3. QED
      BY <1>6, <3>1, <3>2
  <2>2. pc'[t] # "walk" => front'[t] = <<>>
    BY <1>1
  <2>3. due'[t] \subseteq InUse'
    BY <1>5 DEF KillInv, FrontInv, Calm
  <2>4. QED
    BY <1>1, <1>5, <2>1, <2>2, <2>3 DEF FrontInv
<1>16. FoundInv(t)'
  <2>1. SUFFICES ASSUME NEW p \in Pid, Sought(t, p)'
                 PROVE  \/ p \in ToSet(list'[t]) \/ Heard(p)'
                        \/ \E x \in ToSet(front'[t]) : x \in Line'[p]
    BY DEF FoundInv
  <2>2. Sought(t, p) /\ p \in InUse /\ Line'[p] = Line[p]
    BY <1>12, <2>1
  <2>3. p \in ToSet(l) \/ Heard(p) \/ \E x \in ToSet(front[t]) : x \in Line[p]
    BY <1>2, <2>2 DEF KillInv, FoundInv
  <2>4. CASE p \in ToSet(l) \/ Heard(p)
    BY <1>11, <1>13, <2>4
  <2>5. ASSUME NEW x \in ToSet(front[t]), x \in Line[p], x # q
        PROVE  \E y \in ToSet(front'[t]) : y \in Line'[p]
    BY <1>6, <2>2, <2>5
  <2>6. CASE p = q
    BY <1>11, <2>6
  <2>7. ASSUME q \in Line[p], p # q PROVE \E y \in ToSet(front'[t]) : y \in Line'[p]
    <3>1. Line[p] \subseteq InUse /\ \E c \in Line[p] : parent[c] = q
      <4>1. /\ InUse \in SUBSET Pid /\ Ordered(parent)
            /\ \A r \in InUse : parent[r] = Desktop \/ parent[r] \in InUse
        BY DEF TreeInv, InUse
      <4>2. /\ LineOf(parent)[p] \subseteq InUse
            /\ \A r \in LineOf(parent)[p] : r # p => \E c \in LineOf(parent)[p] : parent[c] = r
        BY <2>2, <4>1, LineFacts
      <4>3. QED
        BY <2>7, <4>2, LineIs
    <3>2. PICK c \in Line[p] : parent[c] = q
      BY <3>1
    <3>3. c \in Pid
      BY <3>1 DEF InUse
    <3>4. c > root[t]
      <4>1. root[t] \in Int /\ q \in Int /\ c \in Int /\ q < c
        BY <1>1, <1>6, <3>2, <3>3 DEF Thread, Desktop, Pid, TreeInv, Ordered
      <4>2. QED
        BY <1>14, <4>1
    <3>5. c \in procs
      BY <1>1, <2>2, <3>4 DEF Sought, Hangs
    <3>6. c \in Children(q)
      BY <3>2, <3>5 DEF Children
    <3>7. QED
      BY <1>6, <2>2, <3>6
  <2>8. QED
    BY <2>3, <2>4, <2>5, <2>6, <2>7
<1>17. OrderInv(t)'
  <2>1. SUFFICES ASSUME NEW i \in 1 .. n + 1, NEW p \in Pid, Sought(t, p)', parent'[p] = list'[t][i]
                 PROVE  \/ Heard(p)' \/ p \in ToSet(front'[t])
                        \/ \E j \in 1 .. i - 1 : list'[t][j] = p
    BY <1>9 DEF OrderInv
  <2>2. Sought(t, p) /\ parent[p] = list'[t][i]
    BY <1>12, <2>1
  <2>3. CASE i = 1
    BY <1>6, <1>9, <2>2, <2>3 DEF Children, Sought
  <2>4. CASE i # 1
    <3>1. PICK k \in 1 .. n : i = 1 + k
      <4>1. i - 1 \in 1 .. n /\ i = 1 + (i - 1)
        BY <1>7, <2>4
      <4>2. QED
        BY <4>1
    <3>2. parent[p] = l[k]
      BY <1>9, <2>2, <3>1
    <3>3. Heard(p) \/ p \in ToSet(front[t]) \/ \E j \in 1 .. k - 1 : l[j] = p
      BY <1>1, <1>2, <1>7, <2>2, <3>2 DEF KillInv, OrderInv
    <3>4. CASE p = q
      <4>1. 1 \in 1 .. i - 1
        BY <3>1
      <4>2. QED
        BY <1>9, <3>4, <4>1
    <3>5. ASSUME NEW j \in 1 .. k - 1, l[j] = p PROVE \E m \in 1 .. i - 1 : list'[t][m] = p
      <4>1. j \in 1 .. n /\ 1 + j \in 1 .. i - 1
        BY <1>7, <3>1, <3>5
      <4>2. QED
        BY <1>9, <3>5, <4>1
    <3>6. QED
      BY <1>6, <1>13, <3>3, <3>4, <3>5
  <2>5. QED
    BY <2>3, <2>4
<1>18. QED
  BY <1>15, <1>16, <1>17 DEF KillInv

-----------------------------------------------------------------------------
(* What steps leave *)

(* All steps but a spawn give out no pid. *)
Steady ==
  /\ InUse' = InUse /\ UNCHANGED parent /\ procs' \subseteq procs
  /\ \A p \in Pid : Heard(p) => Heard(p)'

LEMMA SteadyIsCalm == ASSUME Steady, TreeInv PROVE Calm /\ TreeInv'
BY DEF Steady, Calm, TreeInv, Ordered, InUse

(* A step of one thread from one place to another. *)
LEMMA MoveSteady ==
  ASSUME ProcessInv, NEW t \in Thread, NEW l,
         pc[t] # "none", l # "none", pc[t] \in Ending => l \in Ending, Goto(t, l),
         UNCHANGED <<procs, parent>>, \A p \in Pid : told[p] => told'[p]
  PROVE  Steady /\ \A u \in Thread : u # t => pc'[u] = pc[u]
<1>1. pc \in [Thread -> {"none", "made"} \cup Started] /\ Pid \subseteq Thread
  BY PidsAreThreads DEF ProcessInv, RecordsOfLiving, TypeOK
<1>2. \A u \in Thread : pc'[u] = IF u = t THEN l ELSE pc[u]
  BY <1>1 DEF Goto
<1>3. InUse' = InUse
  BY <1>1, <1>2 DEF InUse
<1>4. ASSUME NEW p \in Pid, Heard(p) PROVE Heard(p)'
  BY <1>1, <1>2, <1>4 DEF Heard, Over
<1>5. QED
  BY <1>2, <1>3, <1>4 DEF Steady

LEMMA StaySteady ==
  ASSUME UNCHANGED <<procs, parent, pc, told>> PROVE Steady
BY DEF Steady, InUse, Heard, Over

SameLists(u) ==
  front'[u] = front[u] /\ list'[u] = list[u] /\ root'[u] = root[u] /\ due'[u] = due[u]

(* A kill goes on, or is not disturbed. *)
LEMMA KillsKept ==
  ASSUME TreeKillInv, TreeInv', Calm,
         \A u \in Thread : pc'[u] \in Killing =>
           \/ KillInv(u)'
           \/ /\ pc[u] \in Killing /\ SameLists(u)
              /\ pc'[u] = pc[u] \/ (pc[u] # "walk" /\ pc'[u] # "walk")
  PROVE  \A u \in Thread : pc'[u] \in Killing => KillInv(u)'
BY KillStays DEF TreeKillInv, SameLists

LEMMA AskKept ==
  ASSUME ProcessInv, AskInv, \A p \in Pid : Heard(p) => Heard(p)',
         \A p \in Pid : state'[p] \in {"ZOMBIE", "DEAD"} => state'[p] = state[p] \/ Heard(p)',
         \A u \in Thread : pc'[u] = "join" =>
           (pc[u] = "join" /\ list'[u] = list[u]) \/ Heard(Head(list[u]))'
  PROVE  AskInv'
<1>1. \A p \in Pid : state'[p] \in {"ZOMBIE", "DEAD"} => Heard(p)'
  BY DEF AskInv
<1>2. ASSUME NEW u \in Thread, pc[u] = "join", list'[u] = list[u] PROVE Heard(Head(list[u]))'
  <2>1. list[u] \in Seq(Pid) /\ list[u] # <<>>
    BY <1>2 DEF ProcessInv, RecordsOfLiving, TypeOK, ListsInv
  <2>2. PICK p \in Pid : p = Head(list[u])
    BY <2>1
  <2>3. Heard(p)
    BY <1>2, <2>2 DEF AskInv
  <2>4. p = Head(list'[u])
    BY <1>2, <2>2
  <2>5. QED
    BY <2>3, <2>4 DEF Heard, Over
<1>3. QED
  BY <1>1, <1>2 DEF AskInv

(* A step that touches no list. *)
LEMMA QuietKeeps ==
  ASSUME ProcessInv, TreeKillInv, Steady, UNCHANGED <<front, list, root, due>>,
         \A p \in Pid : state'[p] \in {"ZOMBIE", "DEAD"} => state'[p] = state[p] \/ Heard(p)',
         \A u \in Thread : pc'[u] \in Killing => pc'[u] = pc[u]
  PROVE  TreeKillInv'
<1>1. Calm /\ TreeInv'
  BY SteadyIsCalm DEF TreeKillInv
<1>2. \A u \in Thread : pc'[u] \in Killing => KillInv(u)'
  BY <1>1, KillsKept DEF SameLists
<1>3. AskInv'
  BY <1>1, AskKept DEF TreeKillInv, Calm, Killing
<1>4. QED
  BY <1>1, <1>2, <1>3 DEF TreeKillInv

(* The target of a process. *)
LEMMA RunsKeepKills ==
  ASSUME ProcessInv, TreeKillInv, NEW p \in Pid,
         LooksUp(p) \/ Works(p) \/ ReadBegins(p) \/ ReadEnds(p) \/ Exits(p)
  PROVE  TreeKillInv'
<1>1. p \in Thread /\ state \in [Pid -> State] /\ pc \in [Thread -> {"none", "made"} \cup Started]
  BY PidsAreThreads DEF ProcessInv, RecordsOfLiving, TypeOK
<1>2. UNCHANGED <<procs, parent, told, front, list, root, due>>
  BY DEF LooksUp, Works, ReadBegins, ReadEnds, Exits, work
<1>3. PICK l : /\ Goto(p, l) /\ l \in {"run", "busy", "read", "exit", "drop"}
               /\ pc[p] \in {"run", "busy", "read", "exit"} /\ (pc[p] = "exit" => l = "drop")
  BY DEF LooksUp, Works, ReadBegins, ReadEnds, Exits, At
<1>4. Steady /\ \A u \in Thread : u # p => pc'[u] = pc[u]
  <2>1. pc[p] # "none" /\ l # "none" /\ (pc[p] \in Ending => l \in Ending)
    BY <1>3 DEF Ending
  <2>2. \A q \in Pid : told[q] => told'[q]
    BY <1>2
  <2>3. QED
    BY <1>1, <1>2, <1>3, <2>1, <2>2, MoveSteady
<1>5. pc'[p] = l
  BY <1>1, <1>3 DEF Goto
<1>6. \A u \in Thread : pc'[u] \in Killing => pc'[u] = pc[u]
  BY <1>3, <1>4, <1>5 DEF Killing
<1>7. ASSUME NEW q \in Pid, state'[q] \in {"ZOMBIE", "DEAD"} PROVE state'[q] = state[q] \/ Heard(q)'
  <2>1. CASE Exits(p)
    <3>1. q # p => state'[q] = state[q]
      BY <1>1, <2>1 DEF Exits
    <3>2. pc'[p] \in Ending
      BY <1>1, <2>1 DEF Exits, Goto, Ending
    <3>3. QED
      BY <3>1, <3>2 DEF Heard, Over
  <2>2. CASE ~ Exits(p)
    BY <1>1, <1>7, <2>2 DEF LooksUp, Works, ReadBegins, ReadEnds
  <2>3. QED
    BY <2>1, <2>2
<1>8. QED
  BY <1>2, <1>4, <1>6, <1>7, QuietKeeps

LEMMA DropsAtomKeepsKills ==
  ASSUME ProcessInv, TreeKillInv, NEW p \in Pid, DropsAtom(p)
  PROVE  TreeKillInv'
<1>1. /\ p \in Thread /\ pc \in [Thread -> {"none", "made"} \cup Started]
      /\ pc[p] = "drop" /\ procs \subseteq Pid /\ Pid \subseteq Thread
  BY PidsAreThreads DEF ProcessInv, RecordsOfLiving, TypeOK, DropsAtom, At
<1>2. UNCHANGED <<procs, parent, state, told, front, list, root, due>>
  BY DEF DropsAtom, work
<1>3. \A u \in Thread : pc'[u] = IF u = p THEN "reap" ELSE pc[u]
  BY <1>1 DEF DropsAtom, Goto
<1>4. Steady
  <2>1. InUse' = InUse
    BY <1>1, <1>2, <1>3 DEF InUse
  <2>2. \A q \in Pid : Heard(q) => Heard(q)'
    BY <1>1, <1>2, <1>3 DEF Heard, Over, Ending
  <2>3. QED
    BY <1>2, <2>1, <2>2 DEF Steady
<1>5. \A u \in Thread : pc'[u] \in Killing => pc'[u] = pc[u]
  BY <1>3 DEF Killing
<1>6. QED
  BY <1>2, <1>4, <1>5, QuietKeeps

LEMMA ExitReapsKeepsKills ==
  ASSUME ProcessInv, TreeKillInv, NEW p \in Pid, ExitReaps(p)
  PROVE  TreeKillInv'
<1>1. /\ p \in Thread /\ pc \in [Thread -> {"none", "made"} \cup Started]
      /\ pc[p] = "reap" /\ procs \subseteq Pid /\ Pid \subseteq Thread
  BY PidsAreThreads DEF ProcessInv, RecordsOfLiving, TypeOK, ExitReaps, At
<1>2. UNCHANGED <<parent, state, told, front, list, root, due>> /\ procs' = procs \ {p}
  BY DEF ExitReaps, Reaps, work
<1>3. \A u \in Thread : pc'[u] = IF u = p THEN "end" ELSE pc[u]
  BY <1>1 DEF ExitReaps, Goto
<1>4. Steady
  <2>1. InUse' = InUse
    BY <1>1, <1>2, <1>3 DEF InUse
  <2>2. \A q \in Pid : Heard(q) => Heard(q)'
    BY <1>1, <1>2, <1>3 DEF Heard, Over, Ending
  <2>3. QED
    BY <1>2, <2>1, <2>2 DEF Steady
<1>5. \A u \in Thread : pc'[u] \in Killing => pc'[u] = pc[u]
  BY <1>3 DEF Killing
<1>6. QED
  BY <1>2, <1>4, <1>5, QuietKeeps

(* The steps of a spawn after the first. *)
LEMMA ChildKeepsKills ==
  ASSUME ProcessInv, TreeKillInv, NEW t \in Thread, MakesAtom(t) \/ Prepares(t) \/ Starts(t)
  PROVE  TreeKillInv'
<1>1. /\ pc \in [Thread -> {"none", "made"} \cup Started] /\ state \in [Pid -> State]
      /\ procs \subseteq Pid /\ Pid \subseteq Thread
  BY PidsAreThreads DEF ProcessInv, RecordsOfLiving, TypeOK
<1>2. PICK c : c = child[t]
  OBVIOUS
<1>3. /\ pc[t] \in Spawning /\ c \in procs
      /\ pc[c] = IF pc[t] = "begin" THEN "made" ELSE "none"
  BY <1>2 DEF ProcessInv, SpawnInv, Spawning, MakesAtom, Prepares, Starts, At
<1>4. c \in Pid /\ c \in Thread
  BY <1>1, <1>3
<1>5. UNCHANGED <<procs, parent, told, front, list, root, due>>
  BY DEF MakesAtom, Prepares, Starts, work
<1>6. \A u \in Thread : \/ pc'[u] = pc[u]
                        \/ u = t /\ pc'[u] \in {"start", "begin", "run"}
                        \/ u = c /\ pc'[u] \in {"made", "run"}
  BY <1>1, <1>2 DEF MakesAtom, Prepares, Starts, Goto
<1>7. Steady
  <2>1. InUse' = InUse
    BY <1>1, <1>3, <1>4, <1>5, <1>6 DEF InUse, Spawning
  <2>2. \A q \in Pid : Heard(q) => Heard(q)'
    BY <1>1, <1>3, <1>5, <1>6 DEF Heard, Over, Ending, Spawning
  <2>3. QED
    BY <1>5, <2>1, <2>2 DEF Steady
<1>8. \A u \in Thread : pc'[u] \in Killing => pc'[u] = pc[u]
  BY <1>6 DEF Killing
<1>9. \A q \in Pid : state'[q] \in {"ZOMBIE", "DEAD"} => state'[q] = state[q]
  BY <1>1, <1>2, <1>4 DEF MakesAtom, Prepares, Starts
<1>10. QED
  BY <1>5, <1>7, <1>8, <1>9, QuietKeeps

LEMMA SpawnKeepsKills ==
  ASSUME ProcessInv, TreeKillInv, NEW t \in Thread, Spawn(t)
  PROVE  TreeKillInv'
<1>1. /\ pc \in [Thread -> {"none", "made"} \cup Started] /\ parent \in [Pid -> Thread]
      /\ procs \subseteq Pid /\ Pid \subseteq Thread /\ TreeInv
  BY PidsAreThreads DEF ProcessInv, RecordsOfLiving, TypeOK, TreeKillInv
<1>2. PICK p \in Unused : /\ \A q \in Unused : p <= q
                          /\ procs' = procs \cup {p}
                          /\ parent' = [parent EXCEPT ![p] = t]
  BY DEF Spawn
<1>3. p \in Pid /\ p \notin procs /\ pc[p] = "none" /\ p \in Nat
  BY <1>2, PidBound DEF Unused, At, Pid
<1>4. /\ pc[t] \in {"run", "busy"} /\ (\A u \in Thread : pc'[u] = IF u = t THEN "atom" ELSE pc[u])
      /\ UNCHANGED <<state, told, front, list, root, due>>
  BY <1>1 DEF Spawn, Free, At, Goto
<1>5. InUse' = InUse \cup {p} /\ p \notin InUse
  BY <1>1, <1>2, <1>3, <1>4 DEF InUse
<1>6. \A q \in Pid : q \in InUse \/ p <= q
  BY <1>2 DEF InUse, Unused, At
<1>7. (t = Desktop /\ t < p) \/ (t \in InUse /\ t < p)
  <2>1. CASE t = Desktop
    BY <1>3, <2>1 DEF Desktop, Pid
  <2>2. CASE t # Desktop
    <3>1. t \in Pid /\ t \in InUse
      BY <1>4, <2>2 DEF Thread, InUse
    <3>2. ~ p < t
      BY <1>1, <1>3, <1>5, <3>1 DEF TreeInv
    <3>3. t \in Nat /\ t # p
      BY <1>5, <3>1, PidBound DEF Pid
    <3>4. QED
      BY <1>3, <3>1, <3>2, <3>3
  <2>3. QED
    BY <2>1, <2>2
<1>8. TreeInv'
  <2>1. t \in Nat
    BY PidBound DEF Thread, Pid, Desktop
  <2>2. \A q \in Pid : parent'[q] = IF q = p THEN t ELSE parent[q]
    BY <1>1, <1>2
  <2>3. Ordered(parent')
    BY <1>1, <1>7, <2>1, <2>2 DEF TreeInv, Ordered
  <2>4. \A q \in InUse' : parent'[q] = Desktop \/ parent'[q] \in InUse'
    BY <1>1, <1>3, <1>5, <1>7, <2>2 DEF TreeInv, InUse
  <2>5. ASSUME NEW q \in InUse', NEW r \in Pid, r < q PROVE r \in InUse'
    <3>1. CASE q = p
      <4>1. r \in Nat /\ ~ p <= r
        BY <1>3, <2>5, <3>1, PidBound DEF Pid
      <4>2. QED
        BY <1>5, <1>6, <4>1
    <3>2. CASE q # p
      BY <1>1, <1>5, <2>5, <3>2 DEF TreeInv
    <3>3. QED
      BY <3>1, <3>2
  <2>6. QED
    BY <2>3, <2>4, <2>5 DEF TreeInv
<1>9. Calm
  <2>1. \A q \in InUse : q \in Pid /\ q # p
    BY <1>5 DEF InUse
  <2>2. \A q \in InUse : parent'[q] = parent[q] /\ (q \in procs' => q \in procs)
    BY <1>1, <1>2, <2>1
  <2>3. \A q \in Pid : Heard(q) => Heard(q)'
    BY <1>1, <1>4 DEF Heard, Over, Ending
  <2>4. QED
    BY <1>5, <2>2, <2>3 DEF Calm
<1>10. \A u \in Thread : pc'[u] \in Killing => pc'[u] = pc[u]
  BY <1>4 DEF Killing
<1>11. \A u \in Thread : pc'[u] \in Killing => KillInv(u)'
  BY <1>4, <1>8, <1>9, <1>10, KillsKept DEF SameLists
<1>12. AskInv'
  BY <1>4, <1>9, <1>10, AskKept DEF TreeKillInv, Calm, Killing
<1>13. QED
  BY <1>8, <1>11, <1>12 DEF TreeKillInv

(* A step of thread t of a kill, which keeps that kill. *)
LEMMA OwnKillKept ==
  ASSUME ProcessInv, TreeKillInv, NEW t \in Thread, Steady,
         \A u \in Thread : u # t => pc'[u] = pc[u] /\ SameLists(u),
         \A p \in Pid : state'[p] \in {"ZOMBIE", "DEAD"} => state'[p] = state[p] \/ Heard(p)',
         pc'[t] \in Killing => KillInv(t)',
         pc'[t] = "join" => Heard(Head(list[t]))'
  PROVE  TreeKillInv'
<1>1. Calm /\ TreeInv'
  BY SteadyIsCalm DEF TreeKillInv
<1>2. \A u \in Thread : pc'[u] \in Killing => KillInv(u)'
  BY <1>1, KillsKept
<1>3. AskInv'
  BY <1>1, AskKept DEF TreeKillInv, Calm, SameLists
<1>4. QED
  BY <1>1, <1>2, <1>3 DEF TreeKillInv

LEMMA BeginsKeepsKills ==
  ASSUME ProcessInv, TreeKillInv, NEW t \in Thread, Kill(t) \/ KillTree(t) \/ CloseAll(t)
  PROVE  TreeKillInv'
<1>1. /\ pc \in [Thread -> {"none", "made"} \cup Started] /\ procs \subseteq Pid
      /\ Pid \subseteq Thread /\ TreeInv
      /\ front \in [Thread -> Seq(Pid)] /\ list \in [Thread -> Seq(Pid)]
      /\ root \in [Thread -> Thread] /\ due \in [Thread -> SUBSET Pid]
  BY PidsAreThreads DEF ProcessInv, RecordsOfLiving, TypeOK, TreeKillInv
<1>2. PICK l, r, f, targets, found :
        /\ Begins(t, l, r, f, targets, found)
        /\ \/ /\ l = "kill" /\ f = <<>> /\ targets = <<r>> /\ found = {r} /\ r \in procs
           \/ /\ l = "walk" /\ f = <<r>> /\ targets = <<>> /\ found = Descendants(r) /\ r \in Pid
           \/ /\ l = "kill" /\ r = 0 /\ f = <<>> /\ targets = SetToSeq(procs) /\ found = procs
  BY DEF Kill, KillTree, CloseAll
<1>3. /\ pc[t] \in {"run", "busy"} /\ Goto(t, l)
      /\ UNCHANGED <<procs, parent, state, told>>
      /\ front'[t] = f /\ list'[t] = targets /\ root'[t] = r /\ due'[t] = found
      /\ \A u \in Thread : u # t => SameLists(u)
  BY <1>1, <1>2 DEF Begins, Free, At, SameLists
<1>4. Steady /\ (\A u \in Thread : u # t => pc'[u] = pc[u]) /\ pc'[t] = l
  <2>1. pc[t] # "none" /\ l # "none" /\ pc[t] \notin Ending
    BY <1>2, <1>3 DEF Ending
  <2>2. \A p \in Pid : told[p] => told'[p]
    BY <1>3
  <2>3. pc'[t] = l
    BY <1>1, <1>3 DEF Goto
  <2>4. QED
    BY <1>3, <2>1, <2>2, <2>3, MoveSteady
<1>5. Calm /\ TreeInv'
  BY <1>1, <1>4, SteadyIsCalm
<1>6. ToSet(<<>>) = {} /\ \A x : ToSet(<<x>>) = {x}
  BY DEF ToSet
<1>7. InUse \subseteq InUse' /\ procs \subseteq InUse
  BY <1>1, <1>5 DEF Calm, InUse
<1>8. \A p \in Pid : Sought(t, p)' => p \in found /\ p \in procs
  BY <1>3 DEF Sought
<1>9. CASE /\ l = "kill" /\ f = <<>> /\ targets = <<r>> /\ found = {r} /\ r \in procs
  <2>1. FrontInv(t)'
    BY <1>3, <1>4, <1>6, <1>7, <1>9 DEF FrontInv
  <2>2. FoundInv(t)'
    BY <1>3, <1>6, <1>8, <1>9 DEF FoundInv
  <2>3. OrderInv(t)'
    <3>1. r \in Pid /\ parent'[r] # r /\ parent'[r] \in Nat
      BY <1>1, <1>5, <1>9, PidBound DEF TreeInv, Ordered, Pid
    <3>2. \A i \in 1 .. Len(<<r>>) : <<r>>[i] = r
      OBVIOUS
    <3>3. QED
      BY <1>3, <1>8, <1>9, <3>1, <3>2 DEF OrderInv
  <2>4. KillInv(t)' /\ pc'[t] # "join"
    BY <1>4, <1>9, <2>1, <2>2, <2>3 DEF KillInv
  <2>5. QED
    BY <1>3, <1>4, <2>4, OwnKillKept
<1>10. CASE /\ l = "walk" /\ f = <<r>> /\ targets = <<>> /\ found = Descendants(r) /\ r \in Pid
  <2>1. \A p \in found : p \in procs /\ p \in InUse /\ r \in Line'[p]
    <3>1. \A p \in found : p \in procs /\ r \in Line[p]
      BY <1>10 DEF Descendants, Hangs
    <3>2. \A p \in InUse : Line'[p] = Line[p]
      BY <1>1, <1>5, LinesStay
    <3>3. QED
      BY <1>7, <3>1, <3>2
  <2>2. r # 0 /\ r <= r
    BY <1>10, PidBound DEF Pid
  <2>3. FrontInv(t)'
    BY <1>3, <1>4, <1>6, <1>7, <1>10, <2>1, <2>2 DEF FrontInv
  <2>4. FoundInv(t)'
    BY <1>3, <1>6, <1>8, <1>10, <2>1 DEF FoundInv
  <2>5. OrderInv(t)'
    <3>1. 1 .. Len(<<>>) = {}
      OBVIOUS
    <3>2. QED
      BY <1>3, <1>10, <3>1 DEF OrderInv
  <2>6. KillInv(t)' /\ pc'[t] # "join"
    BY <1>4, <1>10, <2>3, <2>4, <2>5 DEF KillInv
  <2>7. QED
    BY <1>3, <1>4, <2>6, OwnKillKept
<1>11. CASE l = "kill" /\ r = 0 /\ f = <<>> /\ targets = SetToSeq(procs) /\ found = procs
  <2>1. ToSet(targets) = procs
    BY <1>1, <1>11, SetToSeqAll
  <2>2. FrontInv(t)'
    BY <1>3, <1>4, <1>6, <1>7, <1>11 DEF FrontInv
  <2>3. FoundInv(t)'
    BY <1>3, <1>8, <2>1 DEF FoundInv
  <2>4. OrderInv(t)'
    BY <1>3, <1>11 DEF OrderInv
  <2>5. KillInv(t)' /\ pc'[t] # "join"
    BY <1>4, <1>11, <2>2, <2>3, <2>4 DEF KillInv
  <2>6. QED
    BY <1>3, <1>4, <2>5, OwnKillKept
<1>12. QED
  BY <1>2, <1>9, <1>10, <1>11

LEMMA WalksKeepsKills ==
  ASSUME ProcessInv, TreeKillInv, NEW t \in Thread, Walks(t)
  PROVE  TreeKillInv'
<1>1. /\ pc \in [Thread -> {"none", "made"} \cup Started]
      /\ front \in [Thread -> Seq(Pid)] /\ list \in [Thread -> Seq(Pid)]
  BY DEF ProcessInv, RecordsOfLiving, TypeOK
<1>2. PICK l \in {"kill", "walk"} : Goto(t, l)
  BY DEF Walks
<1>3. /\ pc[t] = "walk" /\ UNCHANGED <<procs, parent, state, told>>
      /\ \A u \in Thread : u # t => SameLists(u)
  BY <1>1 DEF Walks, Walk, At, SameLists
<1>4. Steady /\ (\A u \in Thread : u # t => pc'[u] = pc[u])
  <2>1. pc[t] # "none" /\ l # "none" /\ pc[t] \notin Ending
    BY <1>3 DEF Ending
  <2>2. \A p \in Pid : told[p] => told'[p]
    BY <1>3
  <2>3. QED
    BY <1>2, <1>3, <2>1, <2>2, MoveSteady
<1>5. pc'[t] # "join"
  BY <1>1, <1>2 DEF Goto
<1>6. KillInv(t)'
  BY <1>3, <1>4, SteadyIsCalm, WalkKeepsKill DEF TreeKillInv, Killing
<1>7. QED
  BY <1>3, <1>4, <1>5, <1>6, OwnKillKept

LEMMA KillStepsKeepKills ==
  ASSUME ProcessInv, TreeKillInv, NEW t \in Thread,
         Looks(t) \/ Asks(t) \/ Joins(t) \/ TimesOut(t) \/ Raises(t) \/ Returns(t)
  PROVE  TreeKillInv'
<1>1. /\ pc \in [Thread -> {"none", "made"} \cup Started] /\ state \in [Pid -> State]
      /\ told \in [Pid -> BOOLEAN] /\ Pid \subseteq Thread
      /\ front \in [Thread -> Seq(Pid)] /\ list \in [Thread -> Seq(Pid)]
      /\ root \in [Thread -> Thread] /\ due \in [Thread -> SUBSET Pid]
  BY PidsAreThreads DEF ProcessInv, RecordsOfLiving, TypeOK
<1>2. pc[t] \in {"kill", "stop", "join"} /\ KillInv(t) /\ TreeInv
  BY DEF Looks, Asks, Joins, TimesOut, Raises, Returns, At, TreeKillInv, Killing
<1>3. UNCHANGED <<procs, parent>> /\ \A u \in Thread : u # t => SameLists(u)
  BY <1>1 DEF Looks, Asks, Joins, TimesOut, Raises, Returns, NextTarget, SameLists, work
<1>4. PICK l \in {"kill", "stop", "join", "run", "exit"} : Goto(t, l)
  <2>1. CASE Looks(t) /\ UNCHANGED pc
    <3>1. pc' = [pc EXCEPT ![t] = pc[t]]
      BY <1>1, <2>1
    <3>2. QED
      BY <1>2, <3>1 DEF Goto
  <2>2. CASE ~ (Looks(t) /\ UNCHANGED pc)
    BY <2>2 DEF Looks, Asks, Joins, TimesOut, Raises, Returns
  <2>3. QED
    BY <2>1, <2>2
<1>5. pc'[t] = l
  BY <1>1, <1>4 DEF Goto
<1>6. \A p \in Pid : told[p] => told'[p]
  BY <1>1 DEF Looks, Asks, Joins, TimesOut, Raises, Returns
<1>7. Steady /\ (\A u \in Thread : u # t => pc'[u] = pc[u])
  <2>1. pc[t] # "none" /\ l # "none" /\ pc[t] \notin Ending
    BY <1>2, <1>4 DEF Ending
  <2>2. QED
    BY <1>3, <1>4, <1>6, <2>1, MoveSteady
<1>8. Calm /\ TreeInv'
  BY <1>2, <1>7, SteadyIsCalm
<1>9. ASSUME list[t] # <<>> PROVE Head(list[t]) \in Pid
  BY <1>1, <1>9
<1>10. pc[t] \in {"stop", "join"} => list[t] # <<>>
  BY DEF ProcessInv, ListsInv
<1>11. ASSUME SameLists(t), l \in {"kill", "stop", "join"} PROVE KillInv(t)'
  BY <1>2, <1>5, <1>8, <1>11, KillStays DEF SameLists
<1>12. CASE Looks(t)
  <2>1. PICK p \in Pid : p = Head(list[t])
    BY <1>9, <1>12 DEF Looks
  <2>2. UNCHANGED <<state, front, root, due>>
    BY <1>12 DEF Looks
  <2>3. CASE p \in procs
    <3>1. SameLists(t) /\ l = (IF state[p] \in {"DEAD", "ZOMBIE"} THEN "join" ELSE "stop")
      BY <1>1, <1>5, <1>12, <2>1, <2>3 DEF Looks, SameLists, Goto, Target
    <3>2. l = "join" => Heard(p)'
      BY <1>8, <3>1 DEF TreeKillInv, AskInv, Calm
    <3>3. pc'[t] = "join" => Heard(Head(list[t]))'
      BY <1>5, <2>1, <3>1, <3>2 DEF SameLists, Heard, Over
    <3>4. QED
      BY <1>3, <1>7, <1>11, <2>2, <3>1, <3>3, OwnKillKept
  <2>4. CASE p \notin procs
    <3>1. list'[t] = Tail(list[t]) /\ list[t] # <<>> /\ pc[t] = "kill" /\ UNCHANGED pc
      BY <1>1, <1>12, <2>1, <2>4 DEF Looks, NextTarget, Target, At
    <3>2. p \notin procs'
      BY <1>3, <2>4
    <3>3. KillInv(t)'
      BY <1>1, <1>2, <1>8, <2>1, <2>2, <3>1, <3>2, KillPops
    <3>4. QED
      BY <1>3, <1>7, <2>2, <3>1, <3>3, OwnKillKept
  <2>5. QED
    BY <2>3, <2>4
<1>13. CASE Asks(t)
  <2>1. PICK p \in Pid : p = Head(list[t])
    BY <1>9, <1>10, <1>13 DEF Asks, At
  <2>2. /\ SameLists(t) /\ l = "join" /\ told'[p]
        /\ \A q \in Pid : state'[q] = IF q = p THEN "TERMINATING" ELSE state[q]
    BY <1>1, <1>5, <1>13, <2>1 DEF Asks, SameLists, Goto, Target, work
  <2>3. Heard(Head(list[t]))'
    BY <2>1, <2>2 DEF SameLists, Heard
  <2>4. QED
    BY <1>3, <1>7, <1>11, <2>2, <2>3, OwnKillKept
<1>14. CASE Joins(t) \/ TimesOut(t)
  <2>1. pc[t] = "join" /\ list[t] # <<>>
    BY <1>10, <1>14 DEF Joins, TimesOut, At
  <2>2. PICK p \in Pid : p = Head(list[t])
    BY <1>9, <2>1
  <2>3. Heard(p) /\ Heard(p)'
    BY <1>8, <2>1, <2>2 DEF TreeKillInv, AskInv, Calm
  <2>4. /\ list'[t] = Tail(list[t]) /\ l = "kill" /\ UNCHANGED <<front, root, due>>
        /\ \A q \in Pid : state'[q] = state[q] \/ q = p
    BY <1>1, <1>5, <1>14, <2>2 DEF Joins, TimesOut, NextTarget, Goto, Target
  <2>5. KillInv(t)'
    BY <1>1, <1>2, <1>5, <1>8, <2>1, <2>2, <2>3, <2>4, KillPops
  <2>6. \A q \in Pid : state'[q] = state[q] \/ Heard(q)'
    BY <2>3, <2>4
  <2>7. QED
    BY <1>3, <1>5, <1>7, <2>4, <2>5, <2>6, OwnKillKept
<1>15. CASE Raises(t) \/ Returns(t)
  <2>1. l \in {"run", "exit"} /\ UNCHANGED state
    BY <1>1, <1>5, <1>15 DEF Raises, Returns, Goto
  <2>2. pc'[t] \notin Killing /\ pc'[t] # "join"
    BY <1>5, <2>1 DEF Killing
  <2>3. QED
    BY <1>3, <1>7, <2>1, <2>2, OwnKillKept
<1>16. QED
  BY <1>12, <1>13, <1>14, <1>15

LEMMA TreeKillInit == Init => TreeKillInv
<1>1. SUFFICES ASSUME Init PROVE TreeKillInv
  OBVIOUS
<1>2. InUse = {} /\ Pid \subseteq Thread
  BY <1>1, PidsAreThreads, PidBound DEF Init, InUse, Desktop, Pid
<1>3. TreeInv
  BY <1>1, <1>2, PidBound DEF Init, TreeInv, Ordered, Pid, Desktop
<1>4. \A t \in Thread : pc[t] \in {"run", "none"}
  BY <1>1 DEF Init
<1>5. AskInv
  BY <1>1, <1>4 DEF Init, AskInv
<1>6. QED
  BY <1>3, <1>4, <1>5 DEF TreeKillInv, Killing

LEMMA TreeKillStep ==
  ASSUME ProcessInv, TreeKillInv, [Next]_vars PROVE TreeKillInv'
<1>1. ASSUME NEW t \in Thread, Choice(t) PROVE TreeKillInv'
  BY <1>1, SpawnKeepsKills, BeginsKeepsKills DEF Choice
<1>2. ASSUME NEW t \in Thread, Goes(t) PROVE TreeKillInv'
  BY <1>2, ChildKeepsKills, WalksKeepsKills, KillStepsKeepKills DEF Goes
<1>3. ASSUME NEW p \in Pid, Runs(p) \/ ReadEnds(p) PROVE TreeKillInv'
  BY <1>3, RunsKeepKills, DropsAtomKeepsKills, ExitReapsKeepsKills DEF Runs
<1>4. CASE UNCHANGED vars
  <2>1. UNCHANGED <<procs, parent, pc, told, state, front, list, root, due>>
    BY <1>4 DEF vars, work
  <2>2. QED
    BY <2>1, StaySteady, QuietKeeps
<1>5. QED
  BY <1>1, <1>2, <1>3, <1>4 DEF Next

LEMMA KillsInvariant == Spec => [](ProcessInv /\ TreeKillInv)
<1>1. Init => ProcessInv /\ TreeKillInv
  BY ProcessInit, TreeKillInit
<1>2. ProcessInv /\ TreeKillInv /\ [Next]_vars => (ProcessInv /\ TreeKillInv)'
  BY ProcessStep, TreeKillStep
<1>3. QED
  BY <1>1, <1>2, PTL DEF Spec

(* kill, kill_tree and close_all have asked everyone they were to ask when *)
(* they return, whatever trees grow and wither beside them: a process that *)
(* still hangs on the tree was told, or has ended of itself.               *)
THEOREM NobodyMissed == Spec => KillFindsAll
<1>1. ASSUME TreeKillInv, NEW t \in Thread, Returns(t), NEW p \in due[t] \cap procs,
             root[t] # 0 => Hangs(p, root[t])
      PROVE  told[p] \/ Over(p)
  <2>1. KillInv(t) /\ pc[t] = "kill" /\ list[t] = <<>>
    BY <1>1 DEF Returns, At, TreeKillInv, Killing
  <2>2. front[t] = <<>> /\ ToSet(<<>>) = {}
    BY <2>1 DEF KillInv, FrontInv, ToSet
  <2>3. p \in Pid
    BY <2>1 DEF KillInv, FrontInv, InUse
  <2>4. Sought(t, p)
    BY <1>1 DEF Sought
  <2>5. QED
    BY <2>1, <2>2, <2>3, <2>4 DEF KillInv, FoundInv, Heard
<1>2. ASSUME TreeKillInv, [Next]_vars
      PROVE  [\A t \in Thread : Returns(t) =>
                \A p \in due[t] \cap procs :
                  (root[t] # 0 => Hangs(p, root[t])) => told[p] \/ Over(p)]_vars
  BY <1>1, <1>2
<1>3. ProcessInv /\ TreeKillInv /\ [Next]_vars
        => [\A t \in Thread : Returns(t) =>
              \A p \in due[t] \cap procs :
                (root[t] # 0 => Hangs(p, root[t])) => told[p] \/ Over(p)]_vars
  BY <1>2
<1>4. QED
  BY <1>3, KillsInvariant, PTL DEF Spec, KillFindsAll

(* kill_tree asks nobody before those of its children that were there when *)
(* it began and still hang on the tree (ProcessTable.kill_tree, order).    *)
THEOREM ChildrenAskedFirst == Spec => ChildrenFirst
<1>1. ASSUME ProcessInv, TreeKillInv, NEW t \in Thread, Asks(t), root[t] # 0, NEW p \in due[t],
             parent[p] = Target(t), Hangs(p, root[t])
      PROVE  told[p] \/ Over(p)
  <2>1. KillInv(t) /\ pc[t] = "stop" /\ list[t] # <<>> /\ list[t] \in Seq(Pid)
    BY <1>1 DEF Asks, At, TreeKillInv, Killing, ProcessInv, ListsInv, RecordsOfLiving, TypeOK
  <2>2. 1 \in 1 .. Len(list[t]) /\ list[t][1] = Target(t) /\ 1 .. 1 - 1 = {}
    BY <2>1 DEF Target
  <2>3. front[t] = <<>> /\ ToSet(<<>>) = {}
    BY <2>1 DEF KillInv, FrontInv, ToSet
  <2>4. p \in Pid /\ Sought(t, p)
    BY <1>1, <2>1 DEF KillInv, FrontInv, InUse, Sought, Hangs
  <2>5. QED
    BY <1>1, <2>1, <2>2, <2>3, <2>4 DEF KillInv, OrderInv, Heard
<1>2. ProcessInv /\ TreeKillInv /\ [Next]_vars
        => [\A t \in Thread : Asks(t) /\ root[t] # 0 =>
              \A p \in due[t] :
                parent[p] = Target(t) /\ Hangs(p, root[t]) => told[p] \/ Over(p)]_vars
  BY <1>1
<1>3. QED
  BY <1>2, KillsInvariant, PTL DEF Spec, ChildrenFirst
=============================================================================
