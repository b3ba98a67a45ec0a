---------------------------- MODULE DurableWorld ----------------------------
(***************************************************************************)
(* What saving a world promises.  For every document there is a set of     *)
(* contents a crash may leave: the one the last successful save wrote, and *)
(* those of the saves tried since.  A save that succeeds leaves exactly    *)
(* one; nothing else shrinks the set, and no crash finds anything outside  *)
(* it.  WorldLog implements this with a snapshot file and a journal.  The  *)
(* counters are promised only to be past every atom.                       *)
(***************************************************************************)
EXTENDS World

VARIABLES
  durable,  \* the world a restart would load now
  may       \* for every document, the contents a restart may load

(* The disk holds for every document something a save wrote to it. *)
Promised == \A d \in Guests : durable'[d] \in may'[d]

Change == StoreChanges /\ UNCHANGED <<durable, may>>

(* A save starts: from here on a restart may find what it writes. *)
Try ==
  /\ may' = [d \in Doc |-> may[d] \cup {mem[d]}]
  /\ Promised
  /\ UNCHANGED mem

(* Some documents reach the disk. *)
Write == Promised /\ UNCHANGED <<mem, may>>

(* A save succeeds: the disk holds the world it was given and no other. *)
Acknowledge ==
  /\ \A d \in Guests : durable'[d] = mem[d]
  /\ may' = [d \in Doc |-> {mem[d]}]
  /\ UNCHANGED mem

(* The process dies, and with it what the disk had not yet kept. *)
Die == mem' = Empty /\ Promised /\ UNCHANGED may

(* A restart loads the world of the disk, its counters past every atom. *)
Restart ==
  /\ mem' = durable
  /\ \A a \in Present(durable) : a < durable[Native]
  /\ may' = [d \in Doc |-> {durable[d]}]
  /\ UNCHANGED durable

DurableInit ==
  /\ mem = Empty
  /\ durable = Empty
  /\ may = [d \in Doc |-> {Empty[d]}]

DurableNext == Change \/ Try \/ Write \/ Acknowledge \/ Die \/ Restart

DurableSpec == DurableInit /\ [][DurableNext]_<<mem, durable, may>>
=============================================================================
