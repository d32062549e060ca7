----------------------------- MODULE N5WriterLock -----------------------------
(***************************************************************************)
(* The lock of everything that writes pwm values: an flock on              *)
(* /run/n5-fangov/writer.lock, which exists only while somebody created it *)
(* and which the removal of a package or a reboot script may delete while  *)
(* it is held. Files are numbered in the order they are created: a number  *)
(* is an inode, which is not used again while a descriptor holds it.       *)
(***************************************************************************)
EXTENDS Naturals

CONSTANTS
  Runs,      \* processes that want the lock: writing runs and restores
  MaxFiles   \* bound on the files created

NoFile == 0

VARIABLES
  entry,   \* the file at the path, NoFile when there is none
  files,   \* files created so far
  fd,      \* the file each run has open
  held     \* runs whose flock succeeded

lock == <<entry, files, fd, held>>

LockInit == entry = NoFile /\ files = 0 /\ fd = [r \in Runs |-> NoFile] /\ held = {}

Flocked(f) == \E q \in held : fd[q] = f

\* Acquire(), first half: open, or create, what is at the path.
OpenLock(r) ==
  /\ fd[r] = NoFile
  /\ IF entry = NoFile THEN files < MaxFiles /\ files' = files + 1 /\ entry' = files'
                       ELSE UNCHANGED <<files, entry>>
  /\ fd' = [fd EXCEPT ![r] = entry']
  /\ UNCHANGED held

\* Acquire(), second half, on the file that was opened, wherever it is now.
Flock(r) ==
  /\ fd[r] # NoFile /\ r \notin held
  /\ IF Flocked(fd[r]) THEN fd' = [fd EXCEPT ![r] = NoFile] /\ UNCHANGED held
                       ELSE held' = held \cup {r} /\ UNCHANGED fd
  /\ UNCHANGED <<entry, files>>

\* Seeded fault: only the existence of the path is looked at.
VerifiedPath(r) == entry # NoFile

\* Verify(): the path still names the file the descriptor holds.
Verified(r) == entry # NoFile /\ entry = fd[r]

Release(r) ==
  /\ held' = held \ {r} /\ fd' = [fd EXCEPT ![r] = NoFile]
  /\ UNCHANGED <<entry, files>>

\* postrm and the uninstallers delete the directory.
RemoveLock == entry # NoFile /\ entry' = NoFile /\ UNCHANGED <<files, fd, held>>
=============================================================================
