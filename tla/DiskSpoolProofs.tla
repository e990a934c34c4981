-------------------------- MODULE DiskSpoolProofs --------------------------
(***************************************************************************)
(* The spool directory for any number of messages, readers and crashes:    *)
(* no name ever leads to a torn file, readers get whole messages, and the  *)
(* file system calls implement AtomicSpool.                                *)
(*                                                                         *)
(* The inductive invariant says, on top of the types, how much of its file *)
(* a store has written at each step (Progress), that a name in the spool   *)
(* directory leads to the file of a store that was renamed (NamesStored),  *)
(* and that a reader holds such a file (ReadersHoldStored).                *)
(***************************************************************************)
EXTENDS DiskSpool, TLAPS

Progress ==
  \A m \in Messages :
    /\ pc[m] = "half" => data[m][1] = m
    /\ pc[m] \in {"written", "synced"} \cup Stored => data[m] = Whole(m)
    /\ pc[m] \in {"synced"} \cup Stored => diskData[m] = Whole(m)

Leads(name) ==
  \A i \in Ids : name[i] # None =>
    /\ name[i] \in Messages
    /\ pc[name[i]] \in Stored
    /\ IdOf[name[i]] = i

TmpNames == \A i \in Ids : tmpName[i] # None => IdOf[tmpName[i]] = i

NamesStored == Leads(msgName) /\ Leads(diskName) /\ TmpNames

ReadersHoldStored ==
  \A r \in Readers : reader[r].pc # "idle" =>
    /\ reader[r].file \in Messages
    /\ pc[reader[r].file] \in Stored
    /\ IdOf[reader[r].file] = reader[r].id
    /\ reader[r].pc = "half" => reader[r].got[1] = reader[r].file
    /\ reader[r].pc = "done" => reader[r].got = Whole(reader[r].file)

Inv == TypeOK /\ Progress /\ NamesStored /\ ReadersHoldStored

-----------------------------------------------------------------------------

LEMMA InitInv == Init => Inv
<1> SUFFICES ASSUME Init PROVE Inv
  OBVIOUS
<1> USE SpoolAssumption
<1>1. TypeOK
  BY DEF Init, TypeOK, Empty, Blocks, Idle, InStore, Stored
<1>2. Progress /\ NamesStored /\ ReadersHoldStored
  BY DEF Init, Progress, NamesStored, Leads, TmpNames, ReadersHoldStored, Stored, Idle
<1> QED
  BY <1>1, <1>2 DEF Inv

\* A store writes to its own file and to no other, under its own temporary name.
LEMMA OwnFile ==
  ASSUME Inv, NEW m \in Messages, pc[m] \in InStore
  PROVE  file[m] = m /\ tmpName[TmpOf(m)] = m
  BY DEF Inv, TypeOK, TmpOf

\* A temporary name that a crash leaves belongs to a file of that id, and that file has
\* no name in the spool directory.
LEMMA TmpAfterCrash ==
  ASSUME Crash
  PROVE  /\ tmpName' \in [Ids -> {None} \cup TmpFiles]
         /\ \A i \in Ids : tmpName'[i] # None => tmpName'[i] \in TmpFiles /\ IdOf[tmpName'[i]] = i
<1>1. PICK left \in SUBSET TmpFiles :
        tmpName' = [i \in Ids |-> IF \E m \in left : IdOf[m] = i
                                  THEN CHOOSE m \in left : IdOf[m] = i ELSE None]
  BY DEF Crash
<1>2. ASSUME NEW i \in Ids, \E m \in left : IdOf[m] = i
      PROVE  tmpName'[i] \in TmpFiles /\ IdOf[tmpName'[i]] = i
  BY <1>1, <1>2
<1>3. ASSUME NEW i \in Ids, ~ \E m \in left : IdOf[m] = i PROVE tmpName'[i] = None
  BY <1>1, <1>3
<1> QED
  BY <1>1, <1>2, <1>3

\* What a reader may have opened and read.
ReaderStates == [pc : {"idle", "opened", "half", "done"}, id : Ids \cup {None},
                 file : Blocks, got : Blocks \X Blocks]

\* Every step keeps the types; the steps of a store also need the invariant's word that
\* a name leads to a file of its own id.
LEMMA TypeStep ==
  ASSUME Inv, [Next]_vars
  PROVE  TypeOK'
<1> USE SpoolAssumption
<1>0. TypeOK
  BY DEF Inv
<1>1. ASSUME NEW m \in Messages, Create(m) PROVE TypeOK'
  <2>1. pc[m] = "idle" /\ pc' = [pc EXCEPT ![m] = "created"]
    BY <1>1 DEF Create, Step
  <2> DEFINE old == tmpName[TmpOf(m)]
             new == IF old = None THEN m ELSE old
  <2>2. new = m
    BY DEF Inv, NamesStored, TmpNames, TypeOK, Blocks, TmpOf
  <2>3. /\ file' = [file EXCEPT ![m] = m]
        /\ tmpName' = [tmpName EXCEPT ![IdOf[m]] = m]
        /\ data' = [data EXCEPT ![m] = Empty]
        /\ UNCHANGED <<msgName, diskName, diskData, reader, crashes>>
    BY <1>1, <2>2 DEF Create, TmpOf
  <2>4. msgName[IdOf[m]] # m /\ diskName[IdOf[m]] # m
    BY <2>1 DEF Inv, NamesStored, Leads, Stored
  <2> QED
    BY <1>0, <2>1, <2>3, <2>4 DEF TypeOK, Empty, Blocks, InStore, Stored
<1>2. ASSUME NEW m \in Messages, WriteFirst(m) PROVE TypeOK'
  BY <1>0, <1>2, OwnFile DEF TypeOK, WriteFirst, Step, Blocks, InStore, Stored
<1>3. ASSUME NEW m \in Messages, WriteSecond(m) PROVE TypeOK'
  BY <1>0, <1>3, OwnFile DEF TypeOK, WriteSecond, Step, Blocks, InStore, Stored
<1>4. ASSUME NEW m \in Messages, Sync(m) PROVE TypeOK'
  BY <1>0, <1>4, OwnFile DEF TypeOK, Sync, Step, Blocks, InStore, Stored
<1>5. ASSUME NEW m \in Messages, Rename(m) PROVE TypeOK'
  BY <1>0, <1>5, OwnFile DEF TypeOK, Rename, Step, TmpOf, Blocks, InStore, Stored
<1>6. ASSUME NEW m \in Messages, Return(m) \/ Cancel(m) PROVE TypeOK'
  BY <1>0, <1>6 DEF TypeOK, Return, Cancel, Step, InStore, Stored
<1>7. ASSUME NEW m \in Messages, Fail(m) PROVE TypeOK'
  BY <1>0, <1>7 DEF TypeOK, Fail, InStore, Stored
<1>8. ASSUME NEW m \in Messages, Remove(m) PROVE TypeOK'
  BY <1>0, <1>8 DEF TypeOK, Remove, Blocks
<1>9. ASSUME NEW r \in Readers, NEW m \in Messages, Open(r, m) PROVE TypeOK'
  BY <1>0, <1>9 DEF TypeOK, Open, Blocks, Empty
<1>10. ASSUME NEW r \in Readers, ReadFirst(r) PROVE TypeOK'
  <2>1. reader[r].pc = "opened" /\ reader[r].file \in Messages
    BY <1>10 DEF ReadFirst, Inv, ReadersHoldStored
  <2>2. data[reader[r].file][1] \in Blocks
    BY <1>0, <2>1 DEF TypeOK
  <2> DEFINE got == [reader[r].got EXCEPT ![1] = data[reader[r].file][1]]
             new == [reader[r] EXCEPT !.pc = "half", !.got = got]
  <2>3. got \in Blocks \X Blocks
    BY <1>0, <2>2 DEF TypeOK
  <2>4. reader' = [reader EXCEPT ![r] = new]
    BY <1>0, <1>10 DEF TypeOK, ReadFirst
  <2> HIDE DEF got
  <2>5. new \in ReaderStates
    <3>1. reader[r] \in ReaderStates
      BY <1>0 DEF TypeOK, ReaderStates
    <3>2. \A state \in ReaderStates :
            [state EXCEPT !.pc = "half", !.got = got] \in ReaderStates
      BY <2>3 DEF ReaderStates
    <3> QED
      BY <3>1, <3>2
  <2> HIDE DEF new
  <2>6. reader' \in [Readers -> ReaderStates]
    BY <1>0, <2>4, <2>5 DEF TypeOK, ReaderStates
  <2> QED
    BY <1>0, <1>10, <2>6 DEF TypeOK, ReadFirst, ReaderStates
<1>11. ASSUME NEW r \in Readers, ReadSecond(r) PROVE TypeOK'
  <2>1. reader[r].pc = "half" /\ reader[r].file \in Messages
    BY <1>11 DEF ReadSecond, Inv, ReadersHoldStored
  <2>2. data[reader[r].file][2] \in Blocks
    BY <1>0, <2>1 DEF TypeOK
  <2> DEFINE got == [reader[r].got EXCEPT ![2] = data[reader[r].file][2]]
             new == [reader[r] EXCEPT !.pc = "done", !.got = got]
  <2>3. got \in Blocks \X Blocks
    <3>1. \A pair \in Blocks \X Blocks, block \in Blocks :
            [pair EXCEPT ![2] = block] \in Blocks \X Blocks
      OBVIOUS
    <3>2. reader[r].got \in Blocks \X Blocks
      BY <1>0 DEF TypeOK
    <3> QED
      BY <2>2, <3>1, <3>2
  <2>4. reader' = [reader EXCEPT ![r] = new]
    <3>1. reader' = [reader EXCEPT ![r].pc = "done", ![r].got[2] = data[reader[r].file][2]]
      BY <1>11, Zenon DEF ReadSecond
    <3>2. DOMAIN reader = Readers
      BY <1>0, Zenon DEF TypeOK
    <3> QED
      BY <3>1, <3>2
  <2> HIDE DEF got
  <2>5. new \in ReaderStates
    <3>1. reader[r] \in ReaderStates
      BY <1>0 DEF TypeOK, ReaderStates
    <3>2. \A state \in ReaderStates :
            [state EXCEPT !.pc = "done", !.got = got] \in ReaderStates
      BY <2>3 DEF ReaderStates
    <3> QED
      BY <3>1, <3>2
  <2> HIDE DEF new
  <2>6. reader' \in [Readers -> ReaderStates]
    BY <1>0, <2>4, <2>5 DEF TypeOK, ReaderStates
  <2> QED
    BY <1>0, <1>11, <2>6 DEF TypeOK, ReadSecond, ReaderStates
<1>12. ASSUME NEW r \in Readers, Finish(r) PROVE TypeOK'
  BY <1>0, <1>12 DEF TypeOK, Finish, Idle, Empty, Blocks
<1>13. ASSUME NEW i \in Ids, WriteBack(i) PROVE TypeOK'
  BY <1>0, <1>13 DEF TypeOK, WriteBack
<1>14. CASE Crash
  <2>1. /\ tmpName' \in [Ids -> Blocks]
        /\ \A i \in Ids : tmpName'[i] # None => tmpName'[i] \notin {msgName'[i], diskName'[i]}
    BY <1>0, <1>14, TmpAfterCrash DEF Crash, TmpFiles, Blocks
  <2>2. /\ pc' \in [Messages -> {"idle", "error"} \cup Stored]
        /\ \A m \in Messages : pc'[m] \notin InStore
    BY <1>0, <1>14 DEF TypeOK, Crash, InStore, Stored
  <2>3. data' \in [Messages -> Blocks \X Blocks] /\ diskData' = data'
    BY <1>0, <1>14 DEF TypeOK, Crash
  <2> QED
    BY <1>0, <1>14, <2>1, <2>2, <2>3 DEF TypeOK, Crash, Idle, Empty, Blocks
<1>15. CASE UNCHANGED vars
  BY <1>0, <1>15 DEF TypeOK, vars
<1> QED
  BY <1>1, <1>2, <1>3, <1>4, <1>5, <1>6, <1>7, <1>8, <1>9, <1>10, <1>11, <1>12,
     <1>13, <1>14, <1>15
  DEF Next, Store, Read

-----------------------------------------------------------------------------

\* A store that has been renamed stays so, through crashes too.
LEMMA StoredForEver ==
  ASSUME Inv, [Next]_vars, NEW m \in Messages, pc[m] \in Stored
  PROVE  pc'[m] \in Stored
<1>0. TypeOK
  BY DEF Inv
<1>1. ASSUME NEW n \in Messages, NEW from \in {"idle"} \cup InStore, NEW to,
             Step(n, from, to)
      PROVE  pc'[m] \in Stored
  BY <1>0, <1>1 DEF Step, TypeOK, Stored, InStore
<1>2. ASSUME NEW n \in Messages, Return(n) \/ Cancel(n) PROVE pc'[m] \in Stored
  BY <1>0, <1>2 DEF Return, Cancel, Step, TypeOK, Stored
<1>3. ASSUME NEW n \in Messages, Fail(n) PROVE pc'[m] \in Stored
  BY <1>0, <1>3 DEF Fail, TypeOK, Stored
<1>4. CASE Crash
  BY <1>0, <1>4 DEF Crash, TypeOK, Stored
<1>5. ASSUME NEW n \in Messages, Store(n) PROVE pc'[m] \in Stored
  BY <1>1, <1>2, <1>3, <1>5
  DEF Store, Create, WriteFirst, WriteSecond, Sync, Rename, InStore
<1>6. ASSUME UNCHANGED pc PROVE pc'[m] \in Stored
  BY <1>6
<1> QED
  BY <1>4, <1>5, <1>6
  DEF Next, Remove, Read, Open, ReadFirst, ReadSecond, Finish, WriteBack, vars

\* Every step of a store leaves the files of the others alone, and a crash changes no
\* block of a file whose data is on the disk.
LEMMA ProgressStep ==
  ASSUME Inv, [Next]_vars
  PROVE  Progress'
<1>0. TypeOK /\ Progress
  BY DEF Inv
<1>1. ASSUME NEW m \in Messages, Create(m) PROVE Progress'
  <2> DEFINE old == tmpName[TmpOf(m)]
             new == IF old = None THEN m ELSE old
  <2>1. new = m
    BY <1>0, SpoolAssumption DEF Inv, NamesStored, TmpNames, TypeOK, Blocks, TmpOf
  <2>2. /\ pc' = [pc EXCEPT ![m] = "created"]
        /\ data' = [data EXCEPT ![m] = Empty] /\ diskData' = diskData
    BY <1>1, <2>1 DEF Create, Step
  <2> QED
    BY <1>0, <2>2 DEF Progress, TypeOK, Stored
<1>2. ASSUME NEW m \in Messages, WriteFirst(m) PROVE Progress'
  BY <1>0, <1>2, OwnFile DEF Progress, WriteFirst, Step, TypeOK, InStore, Stored
<1>3. ASSUME NEW m \in Messages, WriteSecond(m) PROVE Progress'
  <2>1. /\ pc[m] = "half" /\ pc' = [pc EXCEPT ![m] = "written"] /\ diskData' = diskData
        /\ data' = [data EXCEPT ![m] = [data[m] EXCEPT ![2] = m]]
    BY <1>0, <1>3, OwnFile DEF WriteSecond, Step, InStore, TypeOK
  <2>2. [data[m] EXCEPT ![2] = m] = Whole(m)
    BY <1>0, <2>1 DEF TypeOK, Progress, Whole
  <2> QED
    BY <1>0, <2>1, <2>2 DEF Progress, TypeOK, Stored
<1>4. ASSUME NEW m \in Messages, Sync(m) PROVE Progress'
  BY <1>0, <1>4, OwnFile DEF Progress, Sync, Step, TypeOK, InStore, Stored
<1>5. ASSUME NEW m \in Messages, Rename(m) \/ Return(m) \/ Cancel(m) \/ Fail(m)
      PROVE  Progress'
  BY <1>0, <1>5 DEF Progress, Rename, Return, Cancel, Fail, Step, TypeOK, Stored
<1>6. CASE Crash
  <2>1. ASSUME NEW m \in Messages PROVE pc'[m] \in Stored \cup {"idle", "error"}
    BY <1>0, <1>6 DEF Crash, TypeOK, Stored
  <2>2. ASSUME NEW m \in Messages, pc'[m] \in Stored
        PROVE  data'[m] = Whole(m) /\ diskData'[m] = Whole(m)
    <3>1. pc[m] \in Stored
      BY <1>0, <1>6, <2>2 DEF Crash, TypeOK, Stored
    <3>2. data[m] = Whole(m) /\ diskData[m] = Whole(m)
      BY <1>0, <3>1 DEF Progress
    <3>3. PICK lost \in SUBSET Unsynced :
            data' = [n \in Messages |->
                       <<IF <<n, 1>> \in lost THEN diskData[n][1] ELSE data[n][1],
                         IF <<n, 2>> \in lost THEN diskData[n][2] ELSE data[n][2]>>]
      BY <1>6 DEF Crash
    <3>4. data'[m] = Whole(m)
      BY <3>2, <3>3 DEF Whole
    <3> QED
      BY <1>6, <3>4 DEF Crash
  <2> QED
    BY <2>1, <2>2 DEF Progress, Stored
<1>7. ASSUME UNCHANGED <<pc, data, diskData>> PROVE Progress'
  BY <1>0, <1>7 DEF Progress
<1> QED
  BY <1>1, <1>2, <1>3, <1>4, <1>5, <1>6, <1>7
  DEF Next, Store, Remove, Read, Open, ReadFirst, ReadSecond, Finish, WriteBack, vars

LEMMA NamesStep ==
  ASSUME Inv, [Next]_vars
  PROVE  NamesStored'
<1> USE SpoolAssumption
<1>0. TypeOK /\ NamesStored /\ Leads(msgName) /\ Leads(diskName)
  BY DEF Inv, NamesStored
<1>1. ASSUME NEW i \in Ids, NEW f, f \in Messages, pc[f] \in Stored, IdOf[f] = i
      PROVE  f \in Messages /\ pc'[f] \in Stored /\ IdOf[f] = i
  BY <1>1, StoredForEver
<1>2. Leads(msgName)'
  <2>1. ASSUME NEW m \in Messages, Rename(m) PROVE Leads(msgName)'
    <3>1. msgName' = [msgName EXCEPT ![IdOf[m]] = m] /\ pc'[m] \in Stored
      BY <1>0, <2>1, OwnFile DEF Rename, Step, InStore, Stored, TypeOK
    <3> QED
      BY <1>0, <1>1, <3>1 DEF Leads, TypeOK
  <2>2. ASSUME NEW m \in Messages, Remove(m) PROVE Leads(msgName)'
    BY <1>0, <1>1, <2>2 DEF Leads, TypeOK, Remove
  <2>3. CASE Crash
    BY <1>0, <1>1, <2>3 DEF Leads, Crash
  <2>4. ASSUME UNCHANGED msgName PROVE Leads(msgName)'
    BY <1>0, <1>1, <2>4 DEF Leads
  <2> QED
    BY <2>1, <2>2, <2>3, <2>4
    DEF Next, Store, Create, WriteFirst, WriteSecond, Sync, Return, Cancel, Fail, Read, Open,
        ReadFirst, ReadSecond, Finish, WriteBack, vars
<1>3. Leads(diskName)'
  <2>1. ASSUME NEW i \in Ids, WriteBack(i) PROVE Leads(diskName)'
    BY <1>0, <1>1, <2>1 DEF Leads, TypeOK, WriteBack
  <2>2. ASSUME UNCHANGED diskName PROVE Leads(diskName)'
    BY <1>0, <1>1, <2>2 DEF Leads
  <2> QED
    BY <2>1, <2>2
    DEF Next, Store, Create, WriteFirst, WriteSecond, Sync, Rename, Return, Cancel, Fail, Remove,
        Read, Open, ReadFirst, ReadSecond, Finish, Crash, vars
<1>4. TmpNames'
  <2>1. ASSUME NEW m \in Messages, Create(m) PROVE TmpNames'
    <3> DEFINE old == tmpName[TmpOf(m)]
               new == IF old = None THEN m ELSE old
    <3>1. new = m
      BY <1>0 DEF NamesStored, TmpNames, TypeOK, Blocks, TmpOf
    <3>2. tmpName' = [tmpName EXCEPT ![IdOf[m]] = m]
      BY <2>1, <3>1 DEF Create, TmpOf
    <3> QED
      BY <1>0, <3>2 DEF NamesStored, TmpNames, TypeOK
  <2>2. ASSUME NEW m \in Messages, Rename(m) PROVE TmpNames'
    BY <1>0, <2>2 DEF NamesStored, TmpNames, TypeOK, Rename
  <2>3. CASE Crash
    BY <2>3, TmpAfterCrash DEF TmpNames
  <2>4. ASSUME UNCHANGED tmpName PROVE TmpNames'
    BY <1>0, <2>4 DEF NamesStored, TmpNames
  <2> QED
    BY <2>1, <2>2, <2>3, <2>4
    DEF Next, Store, WriteFirst, WriteSecond, Sync, Return, Cancel, Fail, Remove, Read, Open,
        ReadFirst, ReadSecond, Finish, WriteBack, vars
<1> QED
  BY <1>2, <1>3, <1>4 DEF NamesStored

\* The file of a reader was complete when its name was there to be opened, and nothing
\* changes a stored file.
LEMMA ReadersStep ==
  ASSUME Inv, [Next]_vars
  PROVE  ReadersHoldStored'
<1> USE SpoolAssumption
<1>0. TypeOK /\ Progress /\ ReadersHoldStored /\ Leads(msgName)
  BY DEF Inv, NamesStored
<1>1. ASSUME NEW r \in Readers, reader'[r] = reader[r], reader[r].pc # "idle"
      PROVE  /\ reader'[r].file \in Messages /\ pc'[reader'[r].file] \in Stored
             /\ IdOf[reader'[r].file] = reader'[r].id
             /\ reader'[r].pc = "half" => reader'[r].got[1] = reader'[r].file
             /\ reader'[r].pc = "done" => reader'[r].got = Whole(reader'[r].file)
  BY <1>0, <1>1, StoredForEver DEF ReadersHoldStored
<1>2. ASSUME UNCHANGED reader PROVE ReadersHoldStored'
  BY <1>1, <1>2 DEF ReadersHoldStored
<1>3. ASSUME NEW r \in Readers, NEW m \in Messages, Open(r, m) PROVE ReadersHoldStored'
  <2>1. /\ reader' = [reader EXCEPT ![r] = [pc |-> "opened", id |-> IdOf[m],
                                            file |-> msgName[IdOf[m]], got |-> Empty]]
        /\ msgName[IdOf[m]] # None
    BY <1>3 DEF Open
  <2>2. /\ msgName[IdOf[m]] \in Messages /\ pc'[msgName[IdOf[m]]] \in Stored
        /\ IdOf[msgName[IdOf[m]]] = IdOf[m]
    BY <1>0, <2>1, StoredForEver DEF Leads
  <2> QED
    BY <1>0, <1>1, <2>1, <2>2 DEF ReadersHoldStored, TypeOK
<1>4. ASSUME NEW r \in Readers, ReadFirst(r) PROVE ReadersHoldStored'
  <2> DEFINE f == reader[r].file
             got == [reader[r].got EXCEPT ![1] = data[f][1]]
  <2>1. reader[r].pc = "opened" /\ f \in Messages /\ pc[f] \in Stored /\ IdOf[f] = reader[r].id
    BY <1>0, <1>4 DEF ReadFirst, ReadersHoldStored
  <2>2. got[1] = f
    BY <1>0, <2>1 DEF Progress, Whole, TypeOK
  <2>3. reader' = [reader EXCEPT ![r] = [reader[r] EXCEPT !.pc = "half", !.got = got]]
    BY <1>0, <1>4 DEF ReadFirst, TypeOK
  <2>4. /\ reader'[r].pc = "half" /\ reader'[r].file = f /\ reader'[r].got = got
        /\ reader'[r].id = reader[r].id
        /\ \A q \in Readers : q # r => reader'[q] = reader[q]
    BY <1>0, <2>3 DEF TypeOK
  <2>5. pc'[f] \in Stored
    BY <2>1, StoredForEver
  <2> HIDE DEF got, f
  <2> QED
    BY <1>1, <2>1, <2>2, <2>4, <2>5 DEF ReadersHoldStored
<1>5. ASSUME NEW r \in Readers, ReadSecond(r) PROVE ReadersHoldStored'
  <2> DEFINE f == reader[r].file
             got == [reader[r].got EXCEPT ![2] = data[f][2]]
  <2>1. /\ reader[r].pc = "half" /\ f \in Messages /\ pc[f] \in Stored
        /\ IdOf[f] = reader[r].id /\ reader[r].got[1] = f
    BY <1>0, <1>5 DEF ReadSecond, ReadersHoldStored
  <2>2. got = Whole(f)
    BY <1>0, <2>1 DEF Progress, Whole, TypeOK
  <2>3. reader' = [reader EXCEPT ![r] = [reader[r] EXCEPT !.pc = "done", !.got = got]]
    BY <1>0, <1>5 DEF ReadSecond, TypeOK
  <2>4. /\ reader'[r].pc = "done" /\ reader'[r].file = f /\ reader'[r].got = got
        /\ reader'[r].id = reader[r].id
        /\ \A q \in Readers : q # r => reader'[q] = reader[q]
    BY <1>0, <2>3 DEF TypeOK
  <2>5. pc'[f] \in Stored
    BY <2>1, StoredForEver
  <2> HIDE DEF got, f
  <2> QED
    BY <1>1, <2>1, <2>2, <2>4, <2>5 DEF ReadersHoldStored
<1>6. ASSUME NEW r \in Readers, Finish(r) PROVE ReadersHoldStored'
  BY <1>0, <1>1, <1>6 DEF Finish, ReadersHoldStored, TypeOK, Idle
<1>7. CASE Crash
  BY <1>7 DEF Crash, ReadersHoldStored, Idle
<1> QED
  BY <1>2, <1>3, <1>4, <1>5, <1>6, <1>7
  DEF Next, Store, Create, WriteFirst, WriteSecond, Sync, Rename, Return, Cancel, Fail, Remove,
      Read, WriteBack, vars

LEMMA InvStep == Inv /\ [Next]_vars => Inv'
  BY TypeStep, ProgressStep, NamesStep, ReadersStep DEF Inv

THEOREM Invariance == Spec => []Inv
  BY InitInv, InvStep, PTL DEF Spec

-----------------------------------------------------------------------------

\* The types hold, and with them that a store under way has its own temporary file and
\* one that ended well leaves none.
THEOREM TypeCorrect == Spec => []TypeOK
<1>1. Inv => TypeOK
  BY DEF Inv
<1> QED
  BY <1>1, Invariance, PTL

\* However many stores, readers, failures and crashes: what is under a name is a whole
\* message, as the running system sees it and as the next crash would leave it.
THEOREM NothingTorn == Spec => []NoTornMessage
<1>1. Inv => NoTornMessage
  BY SpoolAssumption DEF Inv, NamesStored, Leads, Progress, NoTornMessage, WholeFile
<1> QED
  BY <1>1, Invariance, PTL

\* A reader that races with stores, removals and failures returns a whole message.
THEOREM ReadersCorrect == Spec => []ReadersSeeWholeMessages
<1>1. Inv => ReadersSeeWholeMessages
  BY DEF Inv, ReadersHoldStored, ReadersSeeWholeMessages
<1> QED
  BY <1>1, Invariance, PTL

-----------------------------------------------------------------------------
(* The refinement of AtomicSpool. *)

Box    == [i \in Ids |-> Contents(i)]
Placed == {m \in Messages : pc[m] \in Stored}
Acked  == {m \in Messages : pc[m] = "ok"}

\* No file under a name is torn, so that what is there is the file's own message.
LEMMA BoxIsNames ==
  ASSUME TypeOK, NoTornMessage
  PROVE  Box = msgName
<1>1. ASSUME NEW i \in Ids PROVE Contents(i) = msgName[i]
  BY DEF Contents, NoTornMessage, WholeFile
<1> QED
  BY <1>1 DEF Box, TypeOK

\* Renaming the file is the step that places the message, returning Ok the one that
\* acknowledges it, and a crash loses what the disk does not have; everything else, the
\* writing of names included, is a step that one who looks at the spool cannot see.
LEMMA RefinementStep ==
  ASSUME Inv, Inv', NoTornMessage, NoTornMessage', [Next]_vars
  PROVE  [Atomic!AtomicNext]_(Atomic!atomicVars)
<1> USE SpoolAssumption
<1>0. TypeOK /\ Leads(msgName) /\ Leads(diskName)
  BY DEF Inv, NamesStored
<1>1. Box = msgName /\ Box' = msgName'
  <2>1. TypeOK'
    BY DEF Inv
  <2>2. ASSUME NEW i \in Ids PROVE Contents(i)' = msgName'[i]
    BY DEF Contents, NoTornMessage, WholeFile
  <2> QED
    BY <1>0, <2>1, <2>2, BoxIsNames DEF Box, TypeOK
<1>2. ASSUME UNCHANGED <<msgName, crashes>>, Placed' = Placed, Acked' = Acked
      PROVE  UNCHANGED Atomic!atomicVars
  BY <1>1, <1>2 DEF Atomic!atomicVars, Box, Placed, Acked
<1>3. ASSUME NEW m \in Messages, Rename(m) PROVE Atomic!AtomicNext
  <2>1. /\ pc[m] = "synced" /\ pc' = [pc EXCEPT ![m] = "renamed"]
        /\ msgName' = [msgName EXCEPT ![IdOf[m]] = m] /\ crashes' = crashes
    BY <1>3, OwnFile DEF Rename, Step, InStore
  <2>2. m \notin Placed /\ Placed' = Placed \cup {m} /\ Acked' = Acked
    BY <1>0, <2>1 DEF Placed, Acked, Stored, TypeOK
  <2>3. Atomic!Place(m)
    BY <1>1, <2>1, <2>2 DEF Atomic!Place, Box, Placed, Acked
  <2> QED
    BY <2>3 DEF Atomic!AtomicNext
<1>4. ASSUME NEW m \in Messages, Return(m) PROVE Atomic!AtomicNext
  <2>1. /\ pc[m] = "renamed" /\ pc' = [pc EXCEPT ![m] = "ok"]
        /\ msgName' = msgName /\ crashes' = crashes
    BY <1>4 DEF Return, Step
  <2>2. m \in Placed /\ Placed' = Placed /\ Acked' = Acked \cup {m}
    BY <1>0, <2>1 DEF Placed, Acked, Stored, TypeOK
  <2>3. Atomic!Acknowledge(m)
    BY <1>1, <2>1, <2>2 DEF Atomic!Acknowledge, Box, Placed, Acked
  <2> QED
    BY <2>3 DEF Atomic!AtomicNext
<1>5. ASSUME NEW m \in Messages, Remove(m) PROVE Atomic!AtomicNext
  <2>1. /\ m \in Acked /\ Placed' = Placed /\ Acked' = Acked /\ crashes' = crashes
        /\ msgName' = [msgName EXCEPT ![IdOf[m]] = None]
    BY <1>5 DEF Remove, Placed, Acked
  <2>2. Atomic!TakeOut(m)
    BY <1>1, <2>1 DEF Atomic!TakeOut, Box, Placed, Acked
  <2> QED
    BY <2>2 DEF Atomic!AtomicNext
<1>6. CASE Crash
  <2>1. Placed' = Placed /\ Acked' = Acked
    BY <1>0, <1>6 DEF Crash, Placed, Acked, Stored, TypeOK
  <2>2. /\ msgName' \in [Ids -> {None} \cup Placed]
        /\ \A i \in Ids : msgName'[i] # None => IdOf[msgName'[i]] = i
    BY <1>0, <1>6 DEF Crash, Leads, Placed, TypeOK, Blocks
  <2>3. crashes' = crashes + 1
    BY <1>6 DEF Crash
  <2>4. Atomic!Lose
    BY <1>1, <2>1, <2>2, <2>3 DEF Atomic!Lose, Box, Placed, Acked
  <2> QED
    BY <2>4 DEF Atomic!AtomicNext
<1>7. ASSUME NEW m \in Messages,
             Create(m) \/ WriteFirst(m) \/ WriteSecond(m) \/ Sync(m) \/ Fail(m)
      PROVE  UNCHANGED Atomic!atomicVars
  <2>1. /\ pc[m] \in {"idle"} \cup InStore
        /\ \E to \in InStore \cup {"error"} : pc' = [pc EXCEPT ![m] = to]
        /\ UNCHANGED <<msgName, crashes>>
    BY <1>7 DEF Create, WriteFirst, WriteSecond, Sync, Fail, Step, InStore
  <2>2. Placed' = Placed /\ Acked' = Acked
    BY <1>0, <2>1 DEF Placed, Acked, Stored, InStore, TypeOK
  <2> QED
    BY <1>2, <2>1, <2>2
<1>8. ASSUME \/ \E r \in Readers : Read(r)
             \/ \E i \in Ids : WriteBack(i)
             \/ UNCHANGED vars
      PROVE  UNCHANGED Atomic!atomicVars
  <2>1. UNCHANGED <<pc, msgName, crashes>>
    BY <1>8 DEF Read, Open, ReadFirst, ReadSecond, Finish, WriteBack, vars
  <2> QED
    BY <1>2, <2>1 DEF Placed, Acked
<1>9. ASSUME NEW m \in Messages, Cancel(m) PROVE UNCHANGED Atomic!atomicVars
  <2>1. /\ pc[m] = "renamed" /\ pc' = [pc EXCEPT ![m] = "lost"]
        /\ UNCHANGED <<msgName, crashes>>
    BY <1>9 DEF Cancel, Step
  <2>2. Placed' = Placed /\ Acked' = Acked
    BY <1>0, <2>1 DEF Placed, Acked, Stored, TypeOK
  <2> QED
    BY <1>2, <2>1, <2>2
<1> QED
  BY <1>3, <1>4, <1>5, <1>6, <1>7, <1>8, <1>9 DEF Next, Store

\* DiskSpool implements AtomicSpool: for its users a message is in the spool as a whole
\* or not at all.
THEOREM Refinement == Spec => ImplementsAtomicSpool
<1>1. Init => Atomic!AtomicInit
  <2> SUFFICES ASSUME Init PROVE Atomic!AtomicInit
    OBVIOUS
  <2>1. [i \in Ids |-> Contents(i)] = [i \in Ids |-> None]
    BY DEF Init, Contents
  <2>2. {m \in Messages : pc[m] \in Stored} = {} /\ {m \in Messages : pc[m] = "ok"} = {}
    BY DEF Init, Stored
  <2> QED
    BY <2>1, <2>2 DEF Init, Atomic!AtomicInit
<1>2. Inv /\ Inv' /\ NoTornMessage /\ NoTornMessage' /\ [Next]_vars
      => [Atomic!AtomicNext]_(Atomic!atomicVars)
  BY RefinementStep
<1> QED
  BY <1>1, <1>2, Invariance, NothingTorn, PTL
  DEF Spec, ImplementsAtomicSpool, Atomic!AtomicSpec

=============================================================================
