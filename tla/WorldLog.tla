------------------------------ MODULE WorldLog ------------------------------
(***************************************************************************)
(* A world on disk: WorldLog (native/karmazyn_kafd/src/world.rs) over the  *)
(* Journal of flow.rs, behind the guard of the shell's Storage (disk.rs).  *)
(*                                                                         *)
(*   snapshot  <world>.kafd   replaced whole, by tmp + fsync + rename      *)
(*   journal   <world>.kafs   one frame for every document that changed,   *)
(*                            appended, then one fsync                     *)
(*                                                                         *)
(* load replays the journal over the snapshot; save appends the documents  *)
(* whose keys changed; compact writes the snapshot, then empties the       *)
(* journal.  The shell runs guests and saves in one thread, so the Store   *)
(* changes only between saves; a power cut may come between any two steps, *)
(* and keeps any prefix of the frames not yet synced, the last one torn.   *)
(***************************************************************************)
EXTENDS World, Sequences

CONSTANTS
  NoFile, Unreadable,  \* a snapshot file that is missing; that cannot be read
  Torn,                \* bytes of the journal that are no frame
  CompactAt,           \* COMPACT_MIN, in frames: the journal that forces a compact
  MaxJournal,          \* bound: no save starts with a longer journal
  MayFail,             \* may a write fail and leave the file as it was
  MayTear,             \* may a write fail in the middle of a frame
  MayCorrupt,          \* may the snapshot become unreadable while the system is down
  DirtySync            \* may `sync` come when the Store has unsaved changes

ASSUME WorldLogAssumption ==
  /\ CompactAt \in Nat \ {0}
  /\ MaxJournal \in Nat
  /\ {MayFail, MayTear, MayCorrupt, DirtySync} \subseteq BOOLEAN

Frame == [id : Doc, val : UNION {Contents(d) : d \in Doc}]

ASSUME MarksAssumption ==
  /\ {NoFile, Unreadable} \cap [Doc -> UNION {Contents(d) : d \in Doc}] = {}
  /\ NoFile # Unreadable /\ Torn \notin Frame

VARIABLES
  kafd,      \* the snapshot file
  kafs,      \* the journal file, without its header: frames and torn bytes
  synced,    \* how much of kafs an fsync has made durable
  opened,    \* WorldLog.journal: the file is open, its tail already cut
  pc,        \* where the process is in a save or compact
  keys,      \* WorldLog.keys and .native: the content of what is on disk
  full,      \* WorldLog.full: the next save must be a compact
  writable,  \* Storage.writable
  target,    \* the snapshot being saved
  todo,      \* documents of target whose frames are not yet appended
  may        \* history: for every document, what a restart may find

files   == <<kafd, kafs, synced>>
process == <<opened, pc, keys, full, writable, target, todo>>
vars == <<mem, files, process, may>>

TypeOK ==
  /\ IsWorld(mem)
  /\ kafd \in {NoFile, Unreadable} \/ IsWorld(kafd)
  /\ kafs \in Seq(Frame \cup {Torn})
  /\ synced \in 0 .. Len(kafs)
  /\ pc \in {"down", "idle", "append", "check", "reset"}
  /\ {opened, full, writable} \subseteq BOOLEAN
  /\ IsWorld(keys) /\ IsWorld(target)
  /\ todo \subseteq Doc
  /\ \A d \in Doc : may[d] \subseteq Contents(d)

-----------------------------------------------------------------------------
(* What a load finds *)

(* recover_with: the journal up to its first bad frame. *)
Intact(i) == \A j \in 1 .. i : kafs[j] # Torn
(* Mutant of IntactLen: a torn tail is left in the file. *)
UncutLen == Len(kafs)

IntactLen == CHOOSE n \in 0 .. Len(kafs) :
               Intact(n) /\ (n = Len(kafs) \/ kafs[n + 1] = Torn)

(* The snapshot with the journal's frames put over it in order. *)
Replayed ==
  [d \in Doc |->
     LET at == {i \in DOMAIN kafs : Intact(i) /\ kafs[i].id = d}
     IN IF at = {} THEN kafd[d]
        ELSE kafs[CHOOSE i \in at : \A j \in at : j <= i].val]

(* snapshot_from_world: bindings to atoms the file lacks are dropped, and  *)
(* next_atom is past every id.                                             *)
Installed(w) ==
  [d \in Doc |->
     IF d \in Bubble /\ w[d] \in AtomId \ Present(w) THEN Unbound
     ELSE IF d = Native
       THEN CHOOSE n \in {w[d]} \cup {a + 1 : a \in Present(w)} :
              w[d] <= n /\ \A a \in Present(w) : a < n
     ELSE w[d]]

Recoverable == IF kafd = NoFile THEN Empty ELSE Installed(Replayed)

-----------------------------------------------------------------------------
(* load *)

Init ==
  /\ mem = Empty
  /\ kafd = NoFile /\ kafs = <<>> /\ synced = 0
  /\ pc = "down"
  /\ opened = FALSE /\ full = TRUE /\ writable = TRUE
  /\ keys = Empty /\ target = Empty /\ todo = {}
  /\ may = [d \in Doc |-> {Empty[d]}]

Settled(w) == may' = [d \in Doc |-> {w[d]}]

LoadNothing ==
  /\ pc = "down" /\ kafd = NoFile
  /\ pc' = "idle"
  /\ UNCHANGED <<mem, files, opened, keys, full, writable, target, todo, may>>

(* The journal is opened, and its tail cut, only if it has frames. *)
LoadWorld ==
  /\ pc = "down" /\ kafd \notin {NoFile, Unreadable}
  /\ pc' = "idle"
  /\ mem' = Recoverable /\ keys' = Recoverable
  /\ Settled(Recoverable)
  /\ full' = FALSE
  /\ opened' = (kafs # <<>>)
  /\ kafs' = SubSeq(kafs, 1, IntactLen)
  /\ synced' = IntactLen
  /\ UNCHANGED <<kafd, writable, target, todo>>

(* Storage.load: a world that cannot be read suspends every save. *)
(* Mutant of LoadFails: saves go on. *)
LoadFailsWritable ==
  /\ pc = "down" /\ kafd = Unreadable
  /\ pc' = "idle"
  /\ UNCHANGED <<mem, files, opened, keys, full, writable, target, todo, may>>

LoadFails ==
  /\ pc = "down" /\ kafd = Unreadable
  /\ pc' = "idle"
  /\ writable' = FALSE
  /\ UNCHANGED <<mem, files, opened, keys, full, target, todo, may>>

-----------------------------------------------------------------------------
(* save *)

(* Mutant of Changed: a document that is gone gets no frame. *)
ChangedPresent == {d \in Doc : keys[d] # mem[d] /\ mem[d] # Gone}

Changed == {d \in Doc : keys[d] # mem[d]}

(* Mutant of Rank: bubbles go out before the atoms they bind. *)
RankBubblesFirst(d) ==
  IF d = Native THEN MaxAtomId + 1 ELSE IF d \in Bubble THEN -1 ELSE d

(* Frames go out atoms first, by id, then bubbles, then the documents that *)
(* are gone, then the counters.                                            *)
Rank(d) ==
  IF d = Native THEN 2 * MaxAtomId + 4
  ELSE IF d \in Bubble THEN MaxAtomId + 1
  ELSE IF target[d] = Gone THEN MaxAtomId + 2 + d
  ELSE d

Attempt == may' = [d \in Doc |-> may[d] \cup {mem[d]}]

(* The counters also change with ticks, which the model leaves out: their  *)
(* frame may be due though next_atom is the same.  open_journal cuts the   *)
(* tail of a journal this process had not opened.                          *)
SaveBegin ==
  /\ pc = "idle" /\ writable /\ ~ full
  /\ Len(kafs) <= MaxJournal
  /\ target' = mem /\ todo' \in {Changed, Changed \cup {Native}}
  /\ Attempt
  /\ IF todo' = {}
       THEN pc' = "check" /\ UNCHANGED <<kafs, synced, opened>>
       ELSE /\ pc' = "append"
            /\ opened' = TRUE
            /\ IF opened THEN UNCHANGED <<kafs, synced>>
               ELSE kafs' = SubSeq(kafs, 1, IntactLen) /\ synced' = IntactLen
  /\ UNCHANGED <<mem, kafd, keys, full, writable>>

AppendFrame ==
  /\ pc = "append"
  /\ \E d \in todo :
       /\ \A e \in todo : Rank(d) <= Rank(e)
       /\ kafs' = Append(kafs, [id |-> d, val |-> target[d]])
       /\ todo' = todo \ {d}
  /\ UNCHANGED <<mem, kafd, synced, opened, pc, keys, full, writable, target, may>>

(* Mutant of Commit: success is reported before the fsync. *)
CommitUnsynced ==
  /\ pc = "append" /\ todo = {}
  /\ pc' = "check"
  /\ keys' = target
  /\ Settled(target)
  /\ UNCHANGED <<mem, kafd, kafs, synced, opened, full, writable, target, todo>>

Commit ==
  /\ pc = "append" /\ todo = {}
  /\ pc' = "check"
  /\ synced' = Len(kafs)
  /\ keys' = target
  /\ Settled(target)
  /\ UNCHANGED <<mem, kafd, kafs, opened, full, writable, target, todo>>

(* An error leaves save at once: the keys stay as they were. *)
SaveFails ==
  /\ pc = "append"
  /\ \/ MayFail /\ UNCHANGED kafs
     \/ MayTear /\ todo # {} /\ kafs' = Append(kafs, Torn)
  /\ pc' = "idle" /\ todo' = {}
  /\ UNCHANGED <<mem, kafd, synced, opened, keys, full, writable, target, may>>

(* A save of nothing new settles what the last one left: keys = target. *)
SaveEnd ==
  /\ pc = "check" /\ Len(kafs) < CompactAt
  /\ pc' = "idle"
  /\ keys' = target
  /\ Settled(target)
  /\ UNCHANGED <<mem, files, opened, full, writable, target, todo>>

-----------------------------------------------------------------------------
(* compact *)

(* A save that must be full, `sync`, or a journal past its threshold. *)
CompactDue ==
  \/ pc = "idle" /\ writable /\ (full \/ DirtySync \/ Changed = {})
  \/ pc = "check" /\ Len(kafs) >= CompactAt

WriteSnapshot ==
  /\ CompactDue
  /\ pc' = "reset"
  /\ kafd' = mem /\ target' = mem
  /\ Attempt
  /\ UNCHANGED <<mem, kafs, synced, opened, keys, full, writable, todo>>

WriteFails ==
  /\ MayFail /\ CompactDue
  /\ pc' = "idle"
  /\ UNCHANGED <<mem, files, opened, keys, full, writable, target, todo, may>>

(* Mutant of ResetJournal: the frames stay.                               *)
ResetNothing ==
  /\ pc = "reset"
  /\ pc' = "idle"
  /\ opened' = FALSE /\ full' = FALSE
  /\ keys' = target
  /\ Settled(target)
  /\ UNCHANGED <<mem, files, writable, target, todo>>

ResetJournal ==
  /\ pc = "reset"
  /\ pc' = "idle"
  /\ kafs' = <<>> /\ synced' = 0
  /\ opened' = FALSE /\ full' = FALSE
  /\ keys' = target
  /\ Settled(target)
  /\ UNCHANGED <<mem, kafd, writable, target, todo>>

(* The journal is as it was, or emptied already: it is truncated before    *)
(* its header is written, and one without a header counts as empty.        *)
ResetFails ==
  /\ MayFail /\ pc = "reset"
  /\ pc' = "idle"
  /\ opened' = FALSE
  /\ \/ UNCHANGED <<kafs, synced>>
     \/ kafs' = <<>> /\ synced' = 0
  /\ UNCHANGED <<mem, kafd, keys, full, writable, target, todo, may>>

-----------------------------------------------------------------------------
(* The world around it *)

Change == pc = "idle" /\ StoreChanges /\ UNCHANGED <<files, process, may>>

(* Power is cut: of the frames not synced a prefix is left, then perhaps a *)
(* torn one; the process starts anew.                                      *)
Crash ==
  /\ pc # "down"
  /\ pc' = "down"
  /\ \E n \in synced .. Len(kafs) :
       \/ kafs' = SubSeq(kafs, 1, n)
       \/ n < Len(kafs) /\ kafs' = Append(SubSeq(kafs, 1, n), Torn)
  /\ synced' = Len(kafs')
  /\ mem' = Empty
  /\ opened' = FALSE /\ full' = TRUE /\ writable' = TRUE
  /\ keys' = Empty /\ target' = Empty /\ todo' = {}
  /\ UNCHANGED <<kafd, may>>

Corrupt ==
  /\ MayCorrupt /\ pc = "down" /\ kafd # NoFile
  /\ kafd' = Unreadable
  /\ UNCHANGED <<mem, kafs, synced, process, may>>

Next ==
  \/ LoadNothing \/ LoadWorld \/ LoadFails
  \/ SaveBegin \/ AppendFrame \/ Commit \/ SaveFails \/ SaveEnd
  \/ WriteSnapshot \/ WriteFails \/ ResetJournal \/ ResetFails
  \/ Change \/ Crash \/ Corrupt

Spec == Init /\ [][Next]_vars

-----------------------------------------------------------------------------
(* Properties *)

(* Frames go to the journal in an order that keeps every prefix closed: a  *)
(* bubble that survives a power cut finds the atoms it binds.              *)
WorldSound ==
  /\ TypeOK
  /\ kafd \notin {NoFile, Unreadable} => Closed(Replayed)

(* WorldLog.keys is the content of what is on disk (world.rs:528) whenever *)
(* a save has succeeded, so that the next save may rely on it.             *)
SavedOnDisk ==
  pc = "idle" /\ writable /\ ~ full /\ (\A d \in Guests : may[d] = {keys[d]})
    => \A d \in Guests : Recoverable[d] = keys[d]

(* A world that could not be read is never overwritten: neither its        *)
(* snapshot nor its journal changes until the system goes down.            *)
UnreadableKept ==
  [][kafd = Unreadable => kafd' = Unreadable /\ (kafs' = kafs \/ pc' = "down")]_vars

(* Whatever failed or torn writes came before, a compact that succeeds     *)
(* leaves exactly the world it was given.                                  *)
CompactHeals == [][ResetJournal => Recoverable' = target]_vars

Durable == INSTANCE DurableWorld WITH durable <- Recoverable

(* Snapshot, journal and recovery together implement DurableWorld. *)
ImplementsDurable == Durable!DurableSpec
=============================================================================
