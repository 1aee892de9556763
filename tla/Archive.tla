------------------------------- MODULE Archive -------------------------------
(***************************************************************************)
(* internal/archive: one payload file per delivery, published by linking a *)
(* synced temporary file under its final name and syncing the directory,   *)
(* and the lock (storeMu) that serialises readers, writers and the space   *)
(* reservations of admissions.                                             *)
(*                                                                         *)
(* A linked file is seen by every later read, but until its directory is   *)
(* synced a power loss may take it away.  The event is part of the payload *)
(* (the file name holds it), disk space is part of the failures of the     *)
(* modules that use this one.                                              *)
(***************************************************************************)
EXTENDS Integers

CONSTANTS
  Nobody        (* storeMu is free                                          *)

VARIABLES
  files,        (* files[d]: the payload visible under d's directory        *)
  synced,       (* deliveries whose directory entry is on disk              *)
  lock          (* who holds storeMu                                        *)

archiveVars == <<files, synced, lock>>

Init ==
  /\ files = [d \in {} |-> {}]
  /\ synced = {}
  /\ lock = Nobody

(* The three answers of existingPayload; Differs is ErrConflict. *)
Absent(d) == d \notin DOMAIN files
Holds(d, p) == d \in DOMAIN files /\ files[d] = p
Differs(d, p) == d \in DOMAIN files /\ files[d] # p

(* verifyExisting and store sync the directory of a payload they find. *)
SyncDir(d) == synced' = synced \cup {d} /\ UNCHANGED files

(* os.Link of the synced temporary file, before the directory is synced. *)
Link(d, p) ==
  /\ Absent(d)
  /\ files' = [e \in DOMAIN files \cup {d} |-> IF e = d THEN p ELSE files[e]]
  /\ UNCHANGED synced

(* The process dies (lost = {}) or the machine does: links that were never *)
(* synced may be gone.                                                     *)
Lose(lost) ==
  /\ lost \subseteq DOMAIN files \ synced
  /\ files' = [d \in DOMAIN files \ lost |-> files[d]]
  /\ UNCHANGED synced
  /\ lock' = Nobody
==============================================================================
