----------------------------- MODULE ShellProofs -----------------------------
(***************************************************************************)
(* What the hash remembered as saved is worth (Shell), for every content,  *)
(* journal and sequence of commands, failed saves and restarts.            *)
(***************************************************************************)
EXTENDS Shell, FiniteSetTheorems, TLAPS

-----------------------------------------------------------------------------
(* Stores stay Stores *)

Shaped == store \in World /\ disk \in World \cup {NoWorld, Unreadable}

LEMMA NotedWorld == ASSUME NEW s \in World PROVE Noted(s) \in World
BY DEF Noted, Newest, NextEntry, World

LEMMA FreshWorld == ASSUME ShellAssumption PROVE FreshStore \in World
BY DEF ShellAssumption, FreshStore, World

LEMMA ChangesWorld ==
  ASSUME NEW s, NEW after \in Changes(s)
  PROVE  after \in World /\ after.log = s.log
BY DEF Changes

LEMMA EpochsWorld == ASSUME NEW s \in World, RunEpochs(s) PROVE store' \in World
<1>1. PICK after \in Changes(s) : store' = after \/ store' = Noted(after)
  BY DEF RunEpochs
<1>2. after \in World
  BY ChangesWorld
<1> QED BY <1>1, <1>2, NotedWorld

LEMMA LoadedWorld ==
  ASSUME NEW s \in World, NEW d \in World \cup {NoWorld, Unreadable}
  PROVE  Loaded(s, d) \in World
BY DEF Loaded, Remounted, World

LEMMA ShapedStep == ASSUME ShellAssumption, Shaped, [Next]_vars PROVE Shaped'
<1>1. CASE Boot
  <2>1. PICK c \in Content, attached \in BOOLEAN :
          LET s == IF attached THEN Loaded(FreshStore, disk) ELSE FreshStore
          IN store' = IF journal' THEN Noted([s EXCEPT !.content = c]) ELSE s
    BY <1>1 DEF Boot
  <2> DEFINE s == IF attached THEN Loaded(FreshStore, disk) ELSE FreshStore
  <2>2. s \in World
    BY FreshWorld, LoadedWorld DEF Shaped
  <2>3. [s EXCEPT !.content = c] \in World
    BY <2>2 DEF World
  <2>4. store' \in World
    BY <2>1, <2>2, <2>3, NotedWorld
  <2> QED BY <1>1, <2>4 DEF Boot, Shaped
<1>2. CASE Dispatch
  BY <1>2, NotedWorld DEF Dispatch, Shaped
<1>3. CASE Run
  <2>1. [store EXCEPT !.log = {}] \in World
    BY DEF Shaped, World
  <2>2. store' \in World
    BY <1>3, <2>1, EpochsWorld DEF Run, Shaped
  <2> QED BY <1>3, <2>2 DEF Run, Shaped
<1>4. CASE Epoch
  BY <1>4, EpochsWorld DEF Epoch, Shaped
<1>5. CASE EditSave
  <2>1. PICK c \in Content, ok \in Outcome :
          store' = [store EXCEPT !.content = c] /\ WriteIfChanged(store', ok)
    BY <1>5 DEF EditSave
  <2>2. store' \in World
    BY <2>1 DEF Shaped, World
  <2> QED BY <2>1, <2>2 DEF WriteIfChanged, Shaped
<1>6. CASE Sync
  BY <1>6 DEF Sync, Shaped
<1>7. CASE Format \/ FormatFails
  BY <1>7, LoadedWorld DEF Format, FormatFails, Shaped
<1>8. CASE Autosync
  BY <1>8 DEF Autosync, WriteIfChanged, Shaped
<1>9. CASE Stop
  BY <1>9, FreshWorld DEF Stop, Shaped
<1>10. CASE Damage
  BY <1>10 DEF Damage, process, Shaped
<1>11. CASE CloseEditor \/ UNCHANGED vars
  BY <1>11 DEF CloseEditor, vars, process, Shaped
<1> QED
  BY <1>1, <1>2, <1>3, <1>4, <1>5, <1>6, <1>7, <1>8, <1>9, <1>10, <1>11 DEF Next

-----------------------------------------------------------------------------
(* What is remembered *)

(* A device is formatted only while there is nothing to lose. *)
EarlyFormat == FormatLate = FALSE

(* While a world is attached, the hash remembered is that of the content   *)
(* on the disk or of what a load makes of it; at the prompt with no error  *)
(* reported it is also that of the Store.                                  *)
Remembered == storage = "on" => pc # "down" /\ synced \in OnDisk
Prompted == pc = "prompt" /\ auto /\ storage = "on" /\ ~ failed => synced = Hash(store)

SyncInv == Shaped /\ Remembered /\ Prompted

LEMMA SyncInvInit == ASSUME ShellAssumption PROVE Init => SyncInv
BY DEF ShellAssumption, Init, SyncInv, Shaped, Remembered, Prompted, FreshStore, World

(* Writing, or leaving what is written, keeps the hash and the disk        *)
(* together.                                                               *)
LEMMA Writing ==
  ASSUME NEW s \in World, NEW ok \in BOOLEAN, Remembered, WriteIfChanged(s, ok)
  PROVE  /\ storage = "on" => synced' \in OnDisk'
         /\ storage = "on" /\ ~ (WriteDue(s) /\ ~ ok) => synced' = Hash(s)
<1>1. CASE WriteDue(s) /\ ok
  <2>1. disk' = s /\ synced' = Hash(s)
    BY <1>1 DEF WriteIfChanged
  <2> QED BY <2>1 DEF OnDisk
<1>2. CASE ~ (WriteDue(s) /\ ok)
  <2>1. disk' = disk /\ synced' = synced
    BY <1>2 DEF WriteIfChanged
  <2>2. OnDisk' = OnDisk
    BY <2>1 DEF OnDisk
  <2> QED BY <1>2, <2>1, <2>2 DEF WriteDue, Remembered
<1> QED BY <1>1, <1>2

LEMMA SyncInvStep ==
  ASSUME ShellAssumption, MarksAssumption, EarlyFormat, SyncInv, [Next]_vars
  PROVE  SyncInv'
<1>0. Shaped'
  BY ShapedStep DEF SyncInv
<1> USE DEF SyncInv
<1>1. CASE Boot
  <2>1. PICK c \in Content, attached \in BOOLEAN :
          LET s == IF attached THEN Loaded(FreshStore, disk) ELSE FreshStore
          IN /\ store' = IF journal' THEN Noted([s EXCEPT !.content = c]) ELSE s
             /\ OpenDisk(attached)
    BY <1>1 DEF Boot
  <2>2. CASE attached
    <3>1. synced' \in OnDisk'
      BY <1>1, <2>1, <2>2 DEF Boot, OpenDisk, AttachWorld, Loaded, OnDisk
    <3>2. pc' = "prompt" => synced' = Hash(store')
      BY <1>1, <2>1, <2>2 DEF Boot, OpenDisk, AttachWorld
    <3>3. Hash(store)' = Hash(store')
      BY DEF Hash
    <3> QED BY <1>0, <1>1, <3>1, <3>2, <3>3 DEF Boot, Remembered, Prompted
  <2>3. CASE ~ attached
    <3>1. storage' # "on"
      BY <2>1, <2>3 DEF OpenDisk
    <3> QED BY <1>0, <3>1 DEF Remembered, Prompted
  <2> QED BY <2>2, <2>3
<1>2. CASE Dispatch \/ Run \/ Epoch \/ CloseEditor
  <2>1. UNCHANGED <<storage, synced, disk>> /\ pc' \notin {"prompt", "down"}
    BY <1>2 DEF Dispatch, Run, Leave, Epoch, CloseEditor
  <2> QED BY <1>0, <2>1 DEF Remembered, Prompted, OnDisk
<1>3. CASE EditSave
  <2>1. PICK c \in Content, ok \in Outcome :
          store' = [store EXCEPT !.content = c] /\ WriteIfChanged(store', ok)
    BY <1>3 DEF EditSave
  <2>2. store' \in World /\ ok \in BOOLEAN
    BY <1>0 DEF Shaped, ShellAssumption, Outcome
  <2>3. storage = "on" => synced' \in OnDisk'
    BY <2>1, <2>2, Writing
  <2> QED BY <1>0, <1>3, <2>3 DEF EditSave, Remembered, Prompted
<1>4. CASE Sync
  <2>1. Hash(store) \in OnDisk'
    BY <1>4 DEF Sync, OnDisk, Shaped
  <2> QED BY <1>0, <1>4, <2>1 DEF Sync, Leave, Remembered, Prompted
<1>5. CASE Format
  <2>1. synced' = Hash(Loaded(store, disk')) /\ store' = Loaded(store, disk')
    BY <1>5 DEF Format, AttachWorld
  <2>2. storage' = "on" => disk' # Unreadable /\ pc' = "ran"
    BY <1>5 DEF Format, AttachWorld, Leave
  <2>3. CASE disk' \in World
    BY <1>0, <2>1, <2>2, <2>3 DEF Loaded, OnDisk, Remembered, Prompted
  <2>4. CASE disk' = NoWorld
    <3>1. NoWorld \notin World /\ Hash(store) = Hash(FreshStore)
      BY <1>5, <2>4, MarksAssumption DEF Format, EarlyFormat, MarksAssumption
    <3> QED BY <1>0, <2>1, <2>2, <2>4, <3>1 DEF Loaded, OnDisk, Remembered, Prompted
  <2>5. CASE disk' = Unreadable
    BY <1>0, <1>5, <2>2, <2>5 DEF Format, Leave, Remembered, Prompted
  <2> QED BY <1>0, <2>3, <2>4, <2>5 DEF Shaped
<1>6. CASE FormatFails
  BY <1>0, <1>6 DEF FormatFails, Leave, Remembered, Prompted
<1>7. CASE Autosync
  <2>1. PICK ok \in Outcome :
          IF auto THEN WriteIfChanged(store, ok) /\ failed' = (WriteDue(store) /\ ~ ok)
          ELSE failed' = FALSE /\ UNCHANGED <<disk, synced>>
    BY <1>7 DEF Autosync
  <2>2. store \in World /\ ok \in BOOLEAN
    BY DEF Shaped, ShellAssumption, Outcome
  <2>3. UNCHANGED <<store, storage, auto>> /\ pc' = "prompt"
    BY <1>7 DEF Autosync
  <2>4. Hash(store)' = Hash(store)
    BY <2>3 DEF Hash
  <2>5. CASE auto
    <3>1. /\ storage = "on" => synced' \in OnDisk'
          /\ storage = "on" /\ ~ failed' => synced' = Hash(store)
      BY <2>1, <2>2, <2>5, Writing
    <3> QED BY <1>0, <2>3, <2>4, <3>1 DEF Remembered, Prompted
  <2>6. CASE ~ auto
    BY <1>0, <2>1, <2>3, <2>6 DEF Remembered, Prompted, OnDisk
  <2> QED BY <2>5, <2>6
<1>8. CASE Stop
  BY <1>0, <1>8 DEF Stop, Remembered, Prompted
<1>9. CASE Damage
  BY <1>0, <1>9 DEF Damage, process, Remembered, Prompted
<1>10. CASE UNCHANGED vars
  BY <1>0, <1>10 DEF vars, process, Remembered, Prompted, OnDisk, Hash
<1> QED BY <1>1, <1>2, <1>3, <1>4, <1>5, <1>6, <1>7, <1>8, <1>9, <1>10 DEF Next

LEMMA Synced == ASSUME EarlyFormat PROVE Spec => []SyncInv
<1>1. Init => SyncInv
  BY SyncInvInit, ShellAssumption
<1>2. SyncInv /\ [Next]_vars => SyncInv'
  BY SyncInvStep, ShellAssumption, MarksAssumption
<1> QED BY <1>1, <1>2, PTL DEF Spec

(* After every command or epoch whose save was not reported as failed, a   *)
(* restart would find the content the operator has before him (autosync,   *)
(* write_if_changed).                                                      *)
THEOREM Saved == ASSUME EarlyFormat PROVE Spec => []PromptSaved
<1>1. SyncInv => PromptSaved
  BY DEF SyncInv, Remembered, Prompted, PromptSaved
<1> QED BY <1>1, Synced, PTL

(* Entries of the event journal alone never cause a write (content_hash).  *)
THEOREM JournalQuiet == ASSUME EarlyFormat PROVE Spec => JournalDoesNotWake
<1>1. SyncInv => [Autosync /\ disk' # disk => OnDisk # {Hash(store)}]_vars
  BY DEF SyncInv, Remembered, Autosync, WriteIfChanged, WriteDue
<1> QED BY <1>1, Synced, PTL DEF JournalDoesNotWake

-----------------------------------------------------------------------------
(* What is kept *)

(* An attached disk is readable, and its process runs. *)
Attached == storage = "on" => disk # Unreadable /\ pc # "down"

DiskInv == Shaped /\ Attached

LEMMA DiskInvStep ==
  ASSUME ShellAssumption, MarksAssumption, DiskInv, [Next]_vars
  PROVE  DiskInv'
<1>1. Shaped'
  BY ShapedStep DEF DiskInv
<1>2. Unreadable \notin World /\ Unreadable # NoWorld
  BY MarksAssumption DEF MarksAssumption
<1> USE DEF DiskInv
<1>3. CASE Boot
  BY <1>1, <1>3 DEF Boot, OpenDisk, AttachWorld, Attached
<1>4. CASE Dispatch \/ Run \/ Epoch \/ CloseEditor
  BY <1>1, <1>4 DEF Dispatch, Run, Leave, Epoch, CloseEditor, Attached
<1>5. CASE EditSave
  <2>1. disk' = store' \/ disk' = disk
    BY <1>5 DEF EditSave, WriteIfChanged
  <2> QED BY <1>1, <1>2, <1>5, <2>1 DEF EditSave, Shaped, Attached
<1>6. CASE Autosync
  <2>1. disk' = store \/ disk' = disk
    BY <1>6 DEF Autosync, WriteIfChanged
  <2> QED BY <1>1, <1>2, <1>6, <2>1 DEF Autosync, Shaped, Attached
<1>7. CASE Sync \/ Format \/ FormatFails
  BY <1>1, <1>2, <1>7 DEF Sync, Format, FormatFails, AttachWorld, Leave, Shaped, Attached
<1>8. CASE Stop
  BY <1>1, <1>8 DEF Stop, Attached
<1>9. CASE Damage
  BY <1>1, <1>9 DEF Damage, process, Attached
<1>10. CASE UNCHANGED vars
  BY <1>1, <1>10 DEF vars, process, Attached
<1> QED BY <1>3, <1>4, <1>5, <1>6, <1>7, <1>8, <1>9, <1>10 DEF Next

(* An unreadable world is never written over (Storage::guard), and a disk  *)
(* is formatted only while it is not attached (disk_format), whatever the  *)
(* order of starts, damages, commands, failures and late formats.          *)
THEOREM Kept == Spec => DiskKept
<1>1. Init => DiskInv
  BY ShellAssumption, FreshWorld DEF Init, DiskInv, Shaped, Attached
<1>2. DiskInv /\ [Next]_vars => DiskInv'
  BY DiskInvStep, ShellAssumption, MarksAssumption
<1> DEFINE Keeps ==
      disk' # disk => \/ storage = "on" /\ disk # Unreadable /\ disk' = store'
                      \/ storage = "pending" /\ disk' = NoWorld
                      \/ pc = "down"
<1>3. DiskInv /\ [Next]_vars => [Keeps]_vars
  <2> SUFFICES ASSUME DiskInv, Next, disk' # disk PROVE Keeps
    OBVIOUS
  <2>1. CASE EditSave
    BY <2>1 DEF EditSave, WriteIfChanged, WriteDue, DiskInv, Attached
  <2>2. CASE Autosync
    BY <2>2 DEF Autosync, WriteIfChanged, WriteDue, DiskInv, Attached
  <2>3. CASE Sync \/ Format \/ FormatFails \/ Damage
    BY <2>3 DEF Sync, Format, FormatFails, Damage, DiskInv, Attached
  <2>4. CASE Boot \/ Dispatch \/ Run \/ Epoch \/ CloseEditor \/ Stop
    BY <2>4 DEF Boot, Dispatch, Run, Epoch, CloseEditor, Stop
  <2> QED BY <2>1, <2>2, <2>3, <2>4 DEF Next
<1> QED BY <1>1, <1>2, <1>3, PTL DEF Spec, DiskKept

-----------------------------------------------------------------------------
(* The journal's size *)

LEMMA Least ==
  ASSUME NEW S \in SUBSET Nat, S # {} PROVE \E m \in S : \A x \in S : m <= x
<1>1. \E m \in S : \A x \in S : <<x, m>> \notin OpToRel(<, Nat)
  BY NatLessThanWellFounded, WFMin, Zenon
<1>2. \A x, m \in Nat : <<x, m>> \in OpToRel(<, Nat) <=> x < m
  BY Zenon DEF OpToRel
<1>3. \E m \in S : \A x \in S : ~ x < m
  BY <1>1, <1>2, Zenon
<1> QED BY <1>3

(* Of any entries the newest CAP are kept: the oldest of them has at most  *)
(* CAP that are not older, and those are all that is kept.                 *)
LEMMA NewestSize ==
  ASSUME ShellAssumption, NEW l \in SUBSET Nat, IsFiniteSet(l)
  PROVE  Cardinality(Newest(l)) <= CAP
<1>1. CASE Newest(l) = {}
  <2>1. Cardinality(Newest(l)) = 0
    BY <1>1, FS_EmptySet
  <2> QED BY <2>1 DEF ShellAssumption
<1>2. CASE Newest(l) # {}
  <2>1. Newest(l) \in SUBSET Nat
    BY DEF Newest
  <2>2. PICK m \in Newest(l) : \A x \in Newest(l) : m <= x
    BY <1>2, <2>1, Least
  <2> DEFINE younger == {f \in l : m <= f}
  <2>3. Cardinality(younger) <= CAP
    BY <2>2 DEF Newest
  <2>4. Newest(l) \in SUBSET younger /\ younger \in SUBSET l
    BY <2>2 DEF Newest
  <2>5. IsFiniteSet(younger) /\ IsFiniteSet(Newest(l))
    <3>1. IsFiniteSet(younger)
      BY <2>4, FS_Subset
    <3> QED BY <2>4, <3>1, FS_Subset
  <2>6. /\ Cardinality(Newest(l)) <= Cardinality(younger)
        /\ Cardinality(Newest(l)) \in Nat /\ Cardinality(younger) \in Nat
    BY <2>4, <2>5, FS_Subset, FS_CardinalityType
  <2> QED BY <2>3, <2>6 DEF ShellAssumption
<1> QED BY <1>1, <1>2

Capped(s) == s \in World /\ Cardinality(s.log) <= CAP

LEMMA NotedCapped ==
  ASSUME ShellAssumption, NEW s \in World PROVE Capped(Noted(s))
<1> DEFINE l == s.log \cup NextEntry(s.log)
<1>1. l \in SUBSET (1 .. MaxEntry)
  BY DEF World, NextEntry
<1>2. IsFiniteSet(1 .. MaxEntry)
  BY FS_Interval DEF ShellAssumption
<1>3. IsFiniteSet(l) /\ l \in SUBSET Nat
  BY <1>1, <1>2, FS_Subset
<1>4. Noted(s).log = Newest(l)
  BY DEF Noted, World
<1> QED BY <1>3, <1>4, NewestSize, NotedWorld DEF Capped

LEMMA EmptyCapped ==
  ASSUME ShellAssumption, NEW c \in Content, NEW g \in BOOLEAN
  PROVE  Capped([content |-> c, guests |-> g, log |-> {}])
<1>1. Cardinality({}) = 0
  BY FS_EmptySet
<1> QED BY <1>1 DEF ShellAssumption, Capped, World

LEMMA ContentCapped ==
  ASSUME NEW s, Capped(s), NEW c \in Content PROVE Capped([s EXCEPT !.content = c])
BY DEF Capped, World

LEMMA EpochsCapped ==
  ASSUME ShellAssumption, NEW s, Capped(s), RunEpochs(s) PROVE Capped(store')
<1>1. PICK after \in Changes(s) : store' = after \/ store' = Noted(after)
  BY DEF RunEpochs
<1>2. Capped(after)
  BY ChangesWorld DEF Capped
<1> QED BY <1>1, <1>2, NotedCapped DEF Capped

LEMMA LoadedCapped ==
  ASSUME NEW s, Capped(s), NEW d, d \in World => Capped(d) PROVE Capped(Loaded(s, d))
BY DEF Capped, Loaded, Remounted, World

(* Stores in memory and on the disk keep at most CAP entries: a world that *)
(* is loaded brings no more back.                                          *)
CapInv == Capped(store) /\ (disk \in World => Capped(disk))

LEMMA CapInvStep ==
  ASSUME ShellAssumption, MarksAssumption, CapInv, [Next]_vars PROVE CapInv'
<1>0. Capped(FreshStore)
  BY EmptyCapped DEF ShellAssumption, FreshStore
<1>1. CASE Boot
  <2>1. PICK c \in Content, attached \in BOOLEAN :
          LET s == IF attached THEN Loaded(FreshStore, disk) ELSE FreshStore
          IN store' = IF journal' THEN Noted([s EXCEPT !.content = c]) ELSE s
    BY <1>1 DEF Boot
  <2> DEFINE s == IF attached THEN Loaded(FreshStore, disk) ELSE FreshStore
  <2>2. Capped(s)
    BY <1>0, LoadedCapped DEF CapInv
  <2>3. Capped([s EXCEPT !.content = c])
    BY <2>2, ContentCapped
  <2>4. Capped(store')
    BY <2>1, <2>2, <2>3, NotedCapped DEF Capped
  <2> QED BY <1>1, <2>4 DEF Boot, CapInv, Capped
<1>2. CASE Dispatch
  BY <1>2, NotedCapped DEF Dispatch, CapInv, Capped
<1>3. CASE Run
  <2>1. [store EXCEPT !.log = {}] =
          [content |-> store.content, guests |-> store.guests, log |-> {}]
    BY DEF CapInv, Capped, World
  <2>2. Capped([store EXCEPT !.log = {}])
    BY <2>1, EmptyCapped DEF CapInv, Capped, World
  <2>3. Capped(store')
    BY <1>3, <2>2, EpochsCapped DEF Run, CapInv
  <2> QED BY <1>3, <2>3 DEF Run, CapInv, Capped
<1>4. CASE Epoch
  BY <1>4, EpochsCapped DEF Epoch, CapInv, Capped
<1>5. CASE EditSave
  <2>1. PICK c \in Content, ok \in Outcome :
          store' = [store EXCEPT !.content = c] /\ WriteIfChanged(store', ok)
    BY <1>5 DEF EditSave
  <2>2. Capped(store')
    BY <2>1, ContentCapped DEF CapInv
  <2> QED BY <2>1, <2>2 DEF WriteIfChanged, CapInv, Capped
<1>6. CASE Sync
  BY <1>6 DEF Sync, CapInv, Capped
<1>7. CASE Format \/ FormatFails
  <2>1. disk' \in World => Capped(disk')
    BY <1>7, MarksAssumption DEF MarksAssumption, Format, FormatFails, CapInv
  <2>2. Capped(Loaded(store, disk'))
    BY <2>1, LoadedCapped DEF CapInv
  <2> QED BY <1>7, <2>1, <2>2 DEF Format, FormatFails, CapInv, Capped
<1>8. CASE Autosync
  BY <1>8 DEF Autosync, WriteIfChanged, CapInv, Capped
<1>9. CASE Stop
  BY <1>0, <1>9 DEF Stop, CapInv, Capped
<1>10. CASE Damage
  BY <1>10, MarksAssumption DEF MarksAssumption, Damage, process, CapInv, Capped
<1>11. CASE CloseEditor \/ UNCHANGED vars
  BY <1>11 DEF CloseEditor, vars, process, CapInv, Capped
<1> QED
  BY <1>1, <1>2, <1>3, <1>4, <1>5, <1>6, <1>7, <1>8, <1>9, <1>10, <1>11 DEF Next

LEMMA HashTyped == ASSUME NEW s \in World PROVE Hash(s) \in HashType
BY DEF Hash, HashType, World

LEMMA WritingType ==
  ASSUME TypeOK, NEW s \in World, NEW ok, WriteIfChanged(s, ok)
  PROVE  disk' \in World \cup {NoWorld, Unreadable} /\ synced' \in HashType
BY HashTyped DEF WriteIfChanged, TypeOK

LEMMA TypeStep ==
  ASSUME ShellAssumption, MarksAssumption, TypeOK, CapInv, [Next]_vars PROVE TypeOK'
<1>1. store' \in World /\ Cardinality(store'.log) <= CAP
  BY CapInvStep DEF CapInv, Capped
<1>2. FreshStore \in World /\ Hash(FreshStore) \in HashType
  BY FreshWorld, HashTyped
<1> USE DEF TypeOK
<1>3. CASE Boot
  <2>1. /\ {auto', journal', failed'} \subseteq BOOLEAN /\ UNCHANGED disk
        /\ pc' \in {"prompt", "ran"}
    BY <1>3 DEF Boot
  <2>2. PICK attached \in BOOLEAN : OpenDisk(attached)
    BY <1>3 DEF Boot
  <2>3. storage' \in {"none", "pending", "on", "suspended"} /\ synced' \in HashType
    BY <1>2, <2>2, LoadedWorld, HashTyped DEF OpenDisk, AttachWorld
  <2> QED BY <1>1, <2>1, <2>3
<1>4. CASE Dispatch \/ Run \/ Epoch \/ CloseEditor
  BY <1>1, <1>4 DEF Dispatch, Run, Leave, Epoch, CloseEditor
<1>5. CASE EditSave
  BY <1>1, <1>5, WritingType DEF EditSave
<1>6. CASE Sync
  BY <1>1, <1>6, HashTyped DEF Sync, Leave
<1>7. CASE Format
  <2>1. Loaded(store, disk') \in World
    BY <1>1, <1>7 DEF Format
  <2> QED BY <1>1, <1>7, <2>1, HashTyped DEF Format, Leave, AttachWorld
<1>8. CASE FormatFails
  BY <1>1, <1>8 DEF FormatFails, Leave
<1>9. CASE Autosync
  <2>1. PICK ok \in Outcome :
          IF auto THEN WriteIfChanged(store, ok) /\ failed' = (WriteDue(store) /\ ~ ok)
          ELSE failed' = FALSE /\ UNCHANGED <<disk, synced>>
    BY <1>9 DEF Autosync
  <2>2. disk' \in World \cup {NoWorld, Unreadable} /\ synced' \in HashType
    BY <2>1, WritingType
  <2>3. failed' \in BOOLEAN
    BY <2>1
  <2> QED BY <1>1, <1>9, <2>2, <2>3 DEF Autosync
<1>10. CASE Stop
  BY <1>1, <1>2, <1>10 DEF Stop
<1>11. CASE Damage
  BY <1>1, <1>11 DEF Damage, process
<1>12. CASE UNCHANGED vars
  BY <1>1, <1>12 DEF vars, process
<1> QED
  BY <1>3, <1>4, <1>5, <1>6, <1>7, <1>8, <1>9, <1>10, <1>11, <1>12 DEF Next

(* The event journal never holds more than CAP entries, over epochs,       *)
(* batches, restarts and loaded worlds (dziennik::record), and every       *)
(* variable of the shell stays of its type.                                *)
THEOREM TypeCorrect == Spec => []TypeOK
<1>1. Init => TypeOK /\ CapInv
  <2> SUFFICES ASSUME Init PROVE TypeOK /\ CapInv
    OBVIOUS
  <2>1. Capped(FreshStore)
    BY ShellAssumption, EmptyCapped DEF ShellAssumption, FreshStore
  <2>2. Hash(FreshStore) \in HashType
    BY <2>1, HashTyped DEF Capped
  <2>3. NoWorld \notin World
    BY MarksAssumption DEF MarksAssumption
  <2> QED BY <2>1, <2>2, <2>3 DEF Init, TypeOK, CapInv, Capped
<1>2. TypeOK /\ CapInv /\ [Next]_vars => (TypeOK /\ CapInv)'
  BY TypeStep, CapInvStep, ShellAssumption, MarksAssumption
<1> QED BY <1>1, <1>2, PTL DEF Spec
=============================================================================
