----------------------------- MODULE DiskSpool -----------------------------
(***************************************************************************)
(* The spool directory, src/spool/disk.rs, at the level of the file system *)
(* calls that DiskSpool::store, read_parts and remove make.  SMTP          *)
(* connections and HTTP requests store concurrently, the queue reads and   *)
(* removes, the disk may refuse any call, and the machine may crash.       *)
(*                                                                         *)
(* Abstractions.  A message is the task that stores it, and its file is    *)
(* two blocks, each empty or written by some task.  Files are told apart   *)
(* by the task that created them.  The directory is never fsynced, so a    *)
(* name reaches the disk when the system writes it back, and a crash puts  *)
(* the names on the disk in force again.                                   *)
(***************************************************************************)
EXTENDS Naturals

CONSTANTS
  Messages,    \* the messages to be stored, each by a task of its own
  Readers,     \* tasks that read a message
  Ids,         \* queue ids
  IdOf,        \* the queue id of a message
  None,        \* no file, or an empty block
  MaxCrashes   \* bound: crashes of the machine

\* Queue ids are 48 random bits drawn per message (smtp/session.rs:289-297,
\* http/api.rs:310-316): two messages of one spool are taken to differ.
ASSUME SpoolAssumption ==
  /\ IdOf \in [Messages -> Ids]
  /\ \A m, n \in Messages : IdOf[m] = IdOf[n] => m = n
  /\ None \notin Messages
  /\ MaxCrashes \in Nat

VARIABLES
  pc,        \* how far the store of each message has come
  file,      \* the file each store has opened, by the task that created it
  tmpName,   \* spool/tmp/{id}.msg: the file under that name
  msgName,   \* spool/{id}.msg
  diskName,  \* the last msgName written back to the disk
  data,      \* the two blocks of each file
  diskData,  \* the blocks known to be on the disk
  reader,    \* what each reader has opened and read
  crashes

vars == <<pc, file, tmpName, msgName, diskName, data, diskData, reader, crashes>>

Empty    == <<None, None>>
Whole(m) == <<m, m>>
Blocks   == {None} \cup Messages

Idle == [pc |-> "idle", id |-> None, file |-> None, got |-> Empty]

Init ==
  /\ pc = [m \in Messages |-> "idle"]
  /\ file = [m \in Messages |-> None]
  /\ tmpName = [i \in Ids |-> None]
  /\ msgName = [i \in Ids |-> None]
  /\ diskName = msgName
  /\ data = [m \in Messages |-> Empty]
  /\ diskData = data
  /\ reader = [r \in Readers |-> Idle]
  /\ crashes = 0

Step(m, from, to) == pc[m] = from /\ pc' = [pc EXCEPT ![m] = to]

-----------------------------------------------------------------------------
(* store and atomic_write. *)

\* Variant: one temporary file for all messages.
TmpOfShared(m) == CHOOSE i \in Ids : TRUE

\* The name of the temporary file of a message.
TmpOf(m) == IdOf[m]

\* File::create makes the temporary file, or empties the one that has the name.
Create(m) ==
  /\ Step(m, "idle", "created")
  /\ LET old == tmpName[TmpOf(m)]
         new == IF old = None THEN m ELSE old
     IN /\ file' = [file EXCEPT ![m] = new]
        /\ tmpName' = [tmpName EXCEPT ![TmpOf(m)] = new]
        /\ data' = [data EXCEPT ![new] = Empty]
  /\ UNCHANGED <<msgName, diskName, diskData, reader, crashes>>

\* write_all, in two writes.
WriteFirst(m) ==
  /\ Step(m, "created", "half")
  /\ data' = [data EXCEPT ![file[m]][1] = m]
  /\ UNCHANGED <<file, tmpName, msgName, diskName, diskData, reader, crashes>>

WriteSecond(m) ==
  /\ Step(m, "half", "written")
  /\ data' = [data EXCEPT ![file[m]][2] = m]
  /\ UNCHANGED <<file, tmpName, msgName, diskName, diskData, reader, crashes>>

\* Variant: the data is flushed to the system and not to the disk.
SyncNothing(m) ==
  /\ Step(m, "written", "synced")
  /\ UNCHANGED <<file, tmpName, msgName, diskName, data, diskData, reader, crashes>>

\* flush and sync_all.
Sync(m) ==
  /\ Step(m, "written", "synced")
  /\ diskData' = [diskData EXCEPT ![file[m]] = data[file[m]]]
  /\ UNCHANGED <<file, tmpName, msgName, diskName, data, reader, crashes>>

\* Variant: the file is copied, not renamed.
CopyOver(m) ==
  /\ Step(m, "synced", "renamed")
  /\ tmpName[TmpOf(m)] # None
  /\ msgName' = [msgName EXCEPT ![IdOf[m]] = tmpName[TmpOf(m)]]
  /\ UNCHANGED <<file, tmpName, diskName, data, diskData, reader, crashes>>

\* rename, from tmp/ into the spool directory.
Rename(m) ==
  /\ Step(m, "synced", "renamed")
  /\ tmpName[TmpOf(m)] # None
  /\ msgName' = [msgName EXCEPT ![IdOf[m]] = tmpName[TmpOf(m)]]
  /\ tmpName' = [tmpName EXCEPT ![TmpOf(m)] = None]
  /\ UNCHANGED <<file, diskName, data, diskData, reader, crashes>>

\* store returns Ok.
Return(m) ==
  /\ Step(m, "renamed", "ok")
  /\ UNCHANGED <<file, tmpName, msgName, diskName, data, diskData, reader, crashes>>

\* The HTTP handler that awaits the rename is dropped, because its client has gone: the message
\* is stored, and nobody was told.  Earlier in a store that is like a failure.
Cancel(m) ==
  /\ Step(m, "renamed", "lost")
  /\ UNCHANGED <<file, tmpName, msgName, diskName, data, diskData, reader, crashes>>

\* Any of the calls may fail: store returns the error and leaves the temporary
\* file where it is.
Fail(m) ==
  /\ pc[m] \in {"idle", "created", "half", "written", "synced"}
  /\ pc' = [pc EXCEPT ![m] = "error"]
  /\ UNCHANGED <<file, tmpName, msgName, diskName, data, diskData, reader, crashes>>

-----------------------------------------------------------------------------
(* remove and read_parts, called for a message whose store returned Ok. *)

\* Removal of a missing file is not an error.
Remove(m) ==
  /\ pc[m] = "ok"
  /\ msgName' = [msgName EXCEPT ![IdOf[m]] = None]
  /\ UNCHANGED <<pc, file, tmpName, diskName, data, diskData, reader, crashes>>

\* fs::read opens the file, or fails if there is none.
Open(r, m) ==
  /\ pc[m] = "ok"
  /\ reader[r].pc = "idle"
  /\ msgName[IdOf[m]] # None
  /\ reader' = [reader EXCEPT ![r] = [pc |-> "opened", id |-> IdOf[m],
                                      file |-> msgName[IdOf[m]], got |-> Empty]]
  /\ UNCHANGED <<pc, file, tmpName, msgName, diskName, data, diskData, crashes>>

\* The two blocks are read one after the other from the open file.
ReadFirst(r) ==
  /\ reader[r].pc = "opened"
  /\ reader' = [reader EXCEPT ![r].pc = "half", ![r].got[1] = data[reader[r].file][1]]
  /\ UNCHANGED <<pc, file, tmpName, msgName, diskName, data, diskData, crashes>>

ReadSecond(r) ==
  /\ reader[r].pc = "half"
  /\ reader' = [reader EXCEPT ![r].pc = "done", ![r].got[2] = data[reader[r].file][2]]
  /\ UNCHANGED <<pc, file, tmpName, msgName, diskName, data, diskData, crashes>>

Finish(r) ==
  /\ reader[r].pc = "done"
  /\ reader' = [reader EXCEPT ![r] = Idle]
  /\ UNCHANGED <<pc, file, tmpName, msgName, diskName, data, diskData, crashes>>

-----------------------------------------------------------------------------
(* The system. *)

\* The directory entry of one message reaches the disk.
WriteBack(i) ==
  /\ diskName[i] # msgName[i]
  /\ diskName' = [diskName EXCEPT ![i] = msgName[i]]
  /\ UNCHANGED <<pc, file, tmpName, msgName, data, diskData, reader, crashes>>

\* Blocks that may not be on the disk, and files that may have their temporary name.
Unsynced == {b \in Messages \X (1 .. 2) : data[b[1]][b[2]] # diskData[b[1]][b[2]]}
TmpFiles == {m \in Messages : file[m] = m /\ diskName[IdOf[m]] # m}

\* After a crash the names in the spool directory are those on the disk, a temporary
\* name is gone or still there (back, if the renaming of its file is lost), each block
\* is as it was synced or as it was last written, and every task is gone.
Crash ==
  /\ crashes < MaxCrashes
  /\ crashes' = crashes + 1
  /\ msgName' = diskName
  /\ \E lost \in SUBSET Unsynced :
       data' = [m \in Messages |->
                  <<IF <<m, 1>> \in lost THEN diskData[m][1] ELSE data[m][1],
                    IF <<m, 2>> \in lost THEN diskData[m][2] ELSE data[m][2]>>]
  /\ diskData' = data'
  /\ pc' = [m \in Messages |->
              CASE pc[m] \in {"idle", "ok"}      -> pc[m]
                [] pc[m] \in {"renamed", "lost"} -> "lost"
                [] OTHER                          -> "error"]
  /\ \E left \in SUBSET TmpFiles :
       tmpName' = [i \in Ids |-> IF \E m \in left : IdOf[m] = i
                                 THEN CHOOSE m \in left : IdOf[m] = i ELSE None]
  /\ reader' = [r \in Readers |-> Idle]
  /\ UNCHANGED <<file, diskName>>

Store(m) ==
  \/ Create(m) \/ WriteFirst(m) \/ WriteSecond(m) \/ Sync(m) \/ Rename(m)
  \/ Return(m) \/ Cancel(m) \/ Fail(m)

Read(r) ==
  \/ \E m \in Messages : Open(r, m)
  \/ ReadFirst(r) \/ ReadSecond(r) \/ Finish(r)

Next ==
  \/ \E m \in Messages : Store(m) \/ Remove(m)
  \/ \E r \in Readers : Read(r)
  \/ \E i \in Ids : WriteBack(i)
  \/ Crash

Spec == Init /\ [][Next]_vars

-----------------------------------------------------------------------------
(* Properties. *)

InStore == {"created", "half", "written", "synced"}
Stored  == {"renamed", "ok", "lost"}

\* Types.  A store that is under way has its file open under its temporary name, and no
\* file has a temporary name and a name in the spool directory at once: the next store
\* under that id would empty a message that is already there (File::create, disk.rs:77).
TypeOK ==
  /\ pc \in [Messages -> {"idle", "error"} \cup InStore \cup Stored]
  /\ file \in [Messages -> Blocks]
  /\ tmpName \in [Ids -> Blocks]
  /\ msgName \in [Ids -> Blocks] /\ diskName \in [Ids -> Blocks]
  /\ data \in [Messages -> Blocks \X Blocks]
  /\ diskData \in [Messages -> Blocks \X Blocks]
  /\ reader \in [Readers -> [pc : {"idle", "opened", "half", "done"},
                             id : Ids \cup {None}, file : Blocks,
                             got : Blocks \X Blocks]]
  /\ crashes \in 0 .. MaxCrashes
  /\ \A m \in Messages : pc[m] \in InStore => file[m] = m /\ tmpName[IdOf[m]] = m
  /\ \A i \in Ids : tmpName[i] # None => tmpName[i] \notin {msgName[i], diskName[i]}

\* A .msg file holds one message, all of it, under its own id, both as the running
\* system sees it and as a crash at this moment would leave it: the data is synced
\* before the name exists (atomic_write, disk.rs:77-81).
WholeFile(name) ==
  \A i \in Ids : name[i] # None =>
    /\ IdOf[name[i]] = i
    /\ data[name[i]] = Whole(name[i]) /\ diskData[name[i]] = Whole(name[i])

NoTornMessage == WholeFile(msgName) /\ WholeFile(diskName)

\* Whatever is stored and removed meanwhile, read_parts returns a message complete
\* (disk.rs:112-116).
ReadersSeeWholeMessages ==
  \A r \in Readers : reader[r].pc = "done" =>
    \E m \in Messages : IdOf[m] = reader[r].id /\ reader[r].got = Whole(m)

\* The message under an id, for one who looks at the directory.
Contents(i) ==
  IF msgName[i] # None /\ data[msgName[i]] # Whole(msgName[i]) THEN "torn" ELSE msgName[i]

Atomic == INSTANCE AtomicSpool WITH
  box    <- [i \in Ids |-> Contents(i)],
  placed <- {m \in Messages : pc[m] \in Stored},
  acked  <- {m \in Messages : pc[m] = "ok"},
  losses <- crashes

\* The file system calls add up to the atomic spool: a message appears in one step,
\* complete, before Ok is answered, and only a removal or a crash makes it go.
ImplementsAtomicSpool == Atomic!AtomicSpec

=============================================================================
