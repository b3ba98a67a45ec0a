------------------------------- MODULE Shell -------------------------------
(***************************************************************************)
(* When the shell (native/karmazyn_shell/src/main.rs) saves the world.     *)
(* One thread runs commands and, between them, epochs; after each it calls *)
(* autosync, which saves when the hash of the Store's content differs from *)
(* the hash it remembers as saved.  The event journal (dziennik.rs) lives  *)
(* in the Store too, but its entries do not count as content.              *)
(*                                                                         *)
(* Content is one value: all that content_hash covers but the journal's    *)
(* bubble and the two that a load makes sure of, Lisp's "repl" and Lua's   *)
(* "lua" with their roots.  A save is one step here, whole or without      *)
(* effect: WorldLog has its parts.                                         *)
(***************************************************************************)
EXTENDS Integers, FiniteSets

CONSTANTS
  Content,             \* contents of a Store
  Fresh,               \* the content of a Store just started
  NoWorld, Unreadable, \* a disk without a world; one whose world is damaged
  CAP,                 \* dziennik::CAP: entries the event journal keeps
  MaxEntry,            \* bound: numbers of its entries
  MayFail,             \* may a save fail
  FormatLate           \* may `disk format` come when there is content to lose

ASSUME ShellAssumption ==
  /\ Fresh \in Content
  /\ CAP \in Nat \ {0} /\ MaxEntry \in Nat
  /\ {MayFail, FormatLate} \subseteq BOOLEAN

World == [content : Content, guests : BOOLEAN, log : SUBSET (1 .. MaxEntry)]

ASSUME MarksAssumption == {NoWorld, Unreadable} \cap World = {} /\ NoWorld # Unreadable

VARIABLES
  store,    \* content and entries in memory
  disk,     \* the world a load would find
  storage,  \* App.storage and pending_device: none, pending, on; suspended is not writable
  synced,   \* App.synced, a Hash
  auto,     \* App.autosync
  journal,  \* App.journal: FALSE in a batch
  failed,   \* did the last autosync print an error
  pc        \* where the loop is: down, prompt, command, editing, ran

process == <<store, storage, synced, auto, journal, failed, pc>>
vars == <<process, disk>>

FreshStore == [content |-> Fresh, guests |-> TRUE, log |-> {}]

(* content_hash: entries do not count, the bubble the first one makes does. *)
Hash(s) == <<s.content, s.guests, s.log # {}>>
HashType == Content \X BOOLEAN \X BOOLEAN

(* Every variable is of its type; the journal keeps at most CAP entries.   *)
TypeOK ==
  /\ store \in World /\ disk \in World \cup {NoWorld, Unreadable}
  /\ storage \in {"none", "pending", "on", "suspended"}
  /\ synced \in HashType
  /\ {auto, journal, failed} \subseteq BOOLEAN
  /\ pc \in {"down", "prompt", "command", "editing", "ran"}
  /\ Cardinality(store.log) <= CAP

Init ==
  /\ store = FreshStore /\ disk = NoWorld
  /\ storage = "none" /\ synced = Hash(FreshStore)
  /\ auto = TRUE /\ journal = FALSE /\ failed = FALSE
  /\ pc = "down"

-----------------------------------------------------------------------------
NextEntry(l) == {n \in 1 .. MaxEntry : (\A e \in l : e < n) /\ (n = 1 \/ n - 1 \in l)}

Newest(l) == {e \in l : Cardinality({f \in l : e <= f}) <= CAP}

(* dziennik::record: the next number, and the oldest entries over CAP go;  *)
(* beyond the bound MaxEntry nothing is added.                             *)
(* Mutant of Noted: nothing goes. *)
NotedForEver(s) == [s EXCEPT !.log = @ \cup NextEntry(@)]
Noted(s) == [s EXCEPT !.log = Newest(@ \cup NextEntry(@))]

-----------------------------------------------------------------------------
(* Saving *)

(* write_if_changed: is there something to write, and where to?            *)
(* Mutant of WriteDue: entries count. *)
WriteDueForEntries(s) == storage = "on" /\ (Hash(s) # synced \/ s.log # {})
WriteDue(s) == storage = "on" /\ Hash(s) # synced

Outcome == {TRUE} \cup {~ MayFail}

(* Mutant of WriteIfChanged: a save that failed counts as done. *)
WriteIfChangedAnyway(s, ok) ==
  /\ disk' = IF WriteDue(s) /\ ok THEN s ELSE disk
  /\ synced' = IF WriteDue(s) THEN Hash(s) ELSE synced

WriteIfChanged(s, ok) ==
  /\ disk' = IF WriteDue(s) /\ ok THEN s ELSE disk
  /\ synced' = IF WriteDue(s) /\ ok THEN Hash(s) ELSE synced

(* After every command and epoch. *)
Autosync ==
  /\ pc = "ran" /\ pc' = "prompt"
  /\ \E ok \in Outcome :
       IF auto THEN WriteIfChanged(store, ok) /\ failed' = (WriteDue(store) /\ ~ ok)
       ELSE failed' = FALSE /\ UNCHANGED <<disk, synced>>
  /\ UNCHANGED <<store, storage, auto, journal>>

-----------------------------------------------------------------------------
(* Starting *)

(* remount_repl and remount_session: the bubbles of the guests are made if *)
(* the world has none and rooted if they are not.                          *)
Remounted(s) == [s EXCEPT !.guests = TRUE]

(* attach_world: a readable world replaces the Store, and what the Store   *)
(* holds when the guests are remounted counts as saved; an unreadable one  *)
(* suspends every write.                                                   *)
Loaded(s, d) == IF d \in World THEN Remounted(d) ELSE s

(* Mutant of AttachWorld: writes go on. *)
AttachWorldWritable(s, d) == storage' = "on" /\ synced' = Hash(Loaded(s, d))

AttachWorld(s, d) ==
  /\ storage' = IF d = Unreadable THEN "suspended" ELSE "on"
  /\ synced' = Hash(Loaded(s, d))

(* Storage is off, the device cannot be attached, or it is: then its world *)
(* is loaded.                                                              *)
OpenDisk(attached) ==
  IF attached THEN AttachWorld(FreshStore, disk)
  ELSE storage' \in {"none", "pending"} /\ UNCHANGED synced

(* A batch starts with what was loaded; the shell proper first changes the *)
(* content (seeds, time stamp), notes its start and saves.                 *)
Boot ==
  /\ pc = "down"
  /\ auto' \in BOOLEAN /\ journal' \in BOOLEAN /\ failed' = FALSE
  /\ pc' = IF journal' THEN "ran" ELSE "prompt"
  /\ UNCHANGED disk
  /\ \E c \in Content, attached \in BOOLEAN :
       LET s == IF attached THEN Loaded(FreshStore, disk) ELSE FreshStore
       IN /\ store' = IF journal' THEN Noted([s EXCEPT !.content = c]) ELSE s
          /\ OpenDisk(attached)

-----------------------------------------------------------------------------
(* Commands and epochs *)

Dispatch ==
  /\ pc = "prompt" /\ pc' = "command"
  /\ store' = IF journal THEN Noted(store) ELSE store
  /\ UNCHANGED <<storage, synced, auto, journal, failed, disk>>

(* What a command or an epoch may make of a Store; `unroot` takes the root *)
(* of a guest's bubble too.                                                *)
Changes(s) == {after \in World : after.log = s.log}

(* Epochs change the content (a tick reaps, servitors work) and may note   *)
(* what the servitors say.                                                 *)
RunEpochs(s) ==
  \E after \in Changes(s) : store' = after \/ (journal /\ store' = Noted(after))

Leave == pc = "command" /\ pc' = "ran" /\ UNCHANGED <<auto, journal, failed>>

(* Whatever a command makes of the content: nothing, a change, epochs, the *)
(* `load` of a snapshot without a journal.                                 *)
Run ==
  /\ Leave
  /\ RunEpochs(store) \/ RunEpochs([store EXCEPT !.log = {}])
  /\ UNCHANGED <<storage, synced, disk>>

(* Between commands, on the clock. *)
Epoch ==
  /\ pc = "prompt" /\ pc' = "ran" /\ journal
  /\ RunEpochs(store)
  /\ UNCHANGED <<storage, synced, auto, journal, failed, disk>>

(* The editor saves as often as it is told to, before the command ends.    *)
EditSave ==
  /\ pc \in {"command", "editing"} /\ pc' = "editing"
  /\ \E c \in Content, ok \in Outcome :
       /\ store' = [store EXCEPT !.content = c]
       /\ WriteIfChanged(store', ok)
  /\ UNCHANGED <<storage, auto, journal, failed>>

CloseEditor ==
  /\ pc = "editing" /\ pc' = "ran"
  /\ UNCHANGED <<store, storage, synced, auto, journal, failed, disk>>

(* `sync`: a compact, whatever is remembered as saved. *)
Sync ==
  /\ Leave /\ storage = "on"
  /\ disk' = store /\ synced' = Hash(store)
  /\ UNCHANGED <<store, storage>>

(* `disk format`: only a device that is not attached.  One that can be     *)
(* mounted now is left as it is, any other is formatted; then its world is *)
(* attached as at a start.                                                 *)
(* Mutant of Format: an attached disk as well. *)
FormatAttached ==
  /\ Leave /\ storage \in {"pending", "on"}
  /\ FormatLate \/ Hash(store) = Hash(FreshStore)
  /\ disk' = NoWorld
  /\ AttachWorld(store, NoWorld)
  /\ UNCHANGED store

Format ==
  /\ Leave /\ storage = "pending"
  /\ disk' \in {disk, NoWorld}
  /\ FormatLate \/ disk' # NoWorld \/ Hash(store) = Hash(FreshStore)
  /\ AttachWorld(store, disk')
  /\ store' = Loaded(store, disk')

(* The device may be wiped though it cannot be mounted afterwards. *)
FormatFails ==
  /\ Leave /\ storage = "pending" /\ MayFail
  /\ disk' = NoWorld
  /\ UNCHANGED <<store, storage, synced>>

-----------------------------------------------------------------------------
(* The process ends: a quit, the end of a batch, or a power cut at any     *)
(* step.                                                                   *)
Stop ==
  /\ pc # "down" /\ pc' = "down"
  /\ store' = FreshStore /\ synced' = Hash(FreshStore)
  /\ storage' = "none" /\ auto' = TRUE /\ journal' = FALSE /\ failed' = FALSE
  /\ UNCHANGED disk

Damage ==
  /\ pc = "down" /\ disk \in World
  /\ disk' = Unreadable
  /\ UNCHANGED process

Next ==
  \/ Boot \/ Dispatch \/ Run \/ Epoch \/ EditSave \/ CloseEditor \/ Sync
  \/ Format \/ FormatFails \/ Autosync \/ Stop \/ Damage

Spec == Init /\ [][Next]_vars

-----------------------------------------------------------------------------
(* Properties *)

(* The hash of the world on the disk, and that of what a restart makes of  *)
(* it: the same unless the guests lacked a bubble or a root.               *)
OnDisk ==
  IF disk \in World THEN {Hash(disk), Hash(Remounted(disk))} ELSE {Hash(FreshStore)}

(* "After every command a save, if the Store has changed" (main.rs:84): at *)
(* the prompt, unless the last save was reported as failed, the content    *)
(* the operator has before him is on the disk, or is what a restart makes  *)
(* of it, through failed saves, changes undone, edits and syncs.           *)
PromptSaved ==
  pc = "prompt" /\ auto /\ storage = "on" /\ ~ failed => Hash(store) \in OnDisk

(* Entries of the event journal do not wake autosync (main.rs:794): it     *)
(* writes only when the content on the disk is another.                    *)
JournalDoesNotWake == [][Autosync /\ disk' # disk => OnDisk # {Hash(store)}]_vars

(* A damaged world is never written over (disk.rs:114), only formatted     *)
(* while its device is not attached; a formatted disk was not attached     *)
(* (main.rs:1040), and what an attached one gets is the Store at hand.     *)
DiskKept ==
  [][disk' # disk =>
       \/ storage = "on" /\ disk # Unreadable /\ disk' = store'
       \/ storage = "pending" /\ disk' = NoWorld
       \/ pc = "down"]_vars
=============================================================================
