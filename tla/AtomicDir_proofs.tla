------------------------- MODULE AtomicDir_proofs -------------------------
(***************************************************************************)
(* Proofs about AtomicDir, for any files, contents and inodes.  They hold  *)
(* when a crash cannot lose what was not fsynced, or when the file system  *)
(* has hard links: the copies _link_or_copy falls back to are not fsynced. *)
(***************************************************************************)
EXTENDS AtomicDir, TLAPS

USE DEF Goto, fs

(* write_dir_atomic starts with no folder and nothing half done.           *)
LEMMA InitIInv == Init => IInv
  BY TornAssumption, NoFileAssumption, NoInodeAssumption, AbsentAssumption
  DEF Init, IInv, TypeOK, Siblings, Progress, Opening, Building, Calls, Folders, Empty

(* Each step of the code keeps the invariant.                              *)
LEMMA StepIInv ==
  ASSUME PowerLoss => HardLinks, IInv, [Next]_vars
  PROVE  IInv'
<1> USE NoInodeAssumption, TornAssumption, NoFileAssumption, NoFileTornAssumption,
        AbsentAssumption, FlagsAssumption, InPlaceAssumption
<1> USE DEF IInv, TypeOK, Folders, Siblings, Building
<1>a. CASE MakeFolder
  BY <1>a DEF MakeFolder, Empty, Progress, Opening, Whole, Apart, Durable, Linked, Carried, Written
<1>b. ASSUME NEW n \in InPlace, EditFile(n) PROVE IInv'
  BY <1>b DEF EditFile, Opened, Free, Progress, Opening, Whole, Apart, Durable, Linked, Carried, Written
<1>c. ASSUME NEW n \in InPlace, EditDone(n) PROVE IInv'
  BY <1>c DEF EditDone, Progress, Opening, Whole, Apart, Durable, Linked, Carried, Written
<1>1. CASE Write
  BY <1>1 DEF Write, Progress, Opening, Whole, Apart, Durable, Linked, Carried, Written
<1>2. CASE Promote
  BY <1>2 DEF Promote, Progress, Opening, Whole, Apart, Durable, Linked, Carried, Written
<1>3. CASE RemoveTmp("rmtmp", "rmold")
  BY <1>3 DEF RemoveTmp, RemoveEntry, Unlinked, Progress, Opening, Whole, Apart, Durable, Linked, Carried, Written
<1>4. CASE RemoveOld("rmold", "build")
  BY <1>4 DEF RemoveOld, RemoveEntry, Unlinked, Progress, Opening, Whole, Apart, Durable, Linked, Carried, Written
<1>5. CASE Reject
  BY <1>5 DEF Reject, Progress, Opening, Whole, Apart, Durable, Linked, Carried, Written
<1>6. CASE Build
  BY <1>6 DEF Build, Empty, Present, Progress, Opening, Whole, Apart, Durable, Linked, Carried, Written
<1>7. ASSUME NEW n \in Names, CarryOver(n) PROVE IInv'
  <2> USE <1>7 DEF CarryOver
  <2>1. /\ target # Absent /\ target \in Folders /\ Apart(target) /\ Whole(target)
        /\ tmp \in Folders /\ Apart(tmp) /\ call.carry /\ old = Absent /\ pc = "copy"
        /\ tmp[n] = NoInode /\ target[n] # NoInode /\ target[n] \in Inodes
    BY DEF Progress
  <2>2. PICK i \in Inodes :
          /\ tmp' = [tmp EXCEPT ![n] = i]
          /\ disk'[i] = disk[target[n]]
          /\ \A j \in Inodes : j # i => disk'[j] = disk[j] /\ (j \in synced <=> j \in synced')
          /\ IF HardLinks THEN i = target[n] /\ UNCHANGED <<disk, synced>> ELSE i \in Free
          /\ disk' \in [Inodes -> Values \cup {Torn}] /\ synced' \subseteq Inodes
    BY <2>1 DEF Free
  <2>3. \A m \in Names : target[m] # NoInode => disk'[target[m]] = disk[target[m]]
                                               /\ (target[m] \in synced <=> target[m] \in synced')
    BY <2>1, <2>2 DEF Free, Linked
  <2>4. \A m \in Names : tmp[m] # NoInode => /\ tmp[m] # i
                                             /\ disk'[tmp[m]] = disk[tmp[m]]
                                             /\ (tmp[m] \in synced <=> tmp[m] \in synced')
    <3> SUFFICES ASSUME NEW m \in Names, tmp[m] # NoInode PROVE tmp[m] # i
      BY <2>1, <2>2
    <3>1. CASE ~HardLinks
      BY <3>1, <2>1, <2>2 DEF Free, Linked
    <3>2. CASE HardLinks
      BY <3>2, <2>1, <2>2 DEF Progress, Carried, Apart
    <3> QED BY <3>1, <3>2
  <2>5. TypeOK'
    BY <2>1, <2>2
  <2>6. (target # Absent => Whole(target) /\ Apart(target))'
    BY <2>1, <2>3 DEF Whole, Apart, Durable
  <2>7. Siblings'
    BY <2>1, <2>2, <2>4 DEF Apart
  <2>8. Progress'
    BY <2>1, <2>2, <2>3, <2>4 DEF Progress, Carried, Durable, Whole
  <2>9. Opening'
    BY <2>1 DEF Opening
  <2> QED BY <2>5, <2>6, <2>7, <2>8, <2>9
<1>8. ASSUME NEW n \in Names, OpenFile(n) PROVE IInv'
  BY <1>8 DEF OpenFile, Opened, Unlinked, Free, Progress, Opening, Whole, Apart, Durable, Linked, Carried, Written
<1>9. ASSUME NEW n \in Names, FillFile(n) PROVE IInv'
  <2> USE <1>9 DEF FillFile, Synced
  <2>1. /\ opened = {n} /\ n \in todo /\ n \in Written
        /\ tmp[n] \in Inodes /\ tmp[n] \notin Linked(target)
        /\ \A m \in Names : m # n => tmp[m] # tmp[n]
        /\ call.files[n] \in Values
    BY DEF Progress, Opening, Apart, Calls, Written
  <2>2. TypeOK'
    BY <2>1
  <2>3. (target # Absent => Whole(target) /\ Apart(target))'
    BY <2>1 DEF Whole, Apart, Durable, Linked
  <2>4. Siblings'
    BY <2>1 DEF Whole, Apart, Durable, Linked
  <2>5. \A m \in Names : m # n /\ Carried(m) => Carried(m)'
    BY <2>1 DEF Carried, Durable, Linked
  <2>6. disk'[tmp'[n]] = call.files[n] /\ Durable(tmp[n])'
    BY <2>1 DEF Durable
  <2>7. \A m \in Names : m # n /\ tmp[m] # NoInode /\ Durable(tmp[m])
                            => disk'[tmp'[m]] = disk[tmp[m]] /\ Durable(tmp[m])'
    BY <2>1 DEF Durable
  <2>8. Progress'
    BY <2>1, <2>5, <2>6, <2>7 DEF Progress, Written
  <2>9. Opening'
    BY <2>1 DEF Opening
  <2> QED BY <2>2, <2>3, <2>4, <2>8, <2>9
<1>10. CASE CarriedOver
  BY <1>10 DEF CarriedOver, Progress, Opening, Whole, Apart, Durable, Linked, Carried, Written
<1>11. CASE Built
  BY <1>11 DEF Built, Progress, Opening, Whole, Apart, Durable, Linked, Carried, Written
<1>12. CASE Fail
  BY <1>12 DEF Fail, Progress, Opening, Whole, Apart, Durable, Linked, Carried, Written
<1>13. CASE RemoveTmp("abort", "idle")
  BY <1>13 DEF RemoveTmp, RemoveEntry, Unlinked, Progress, Opening, Whole, Apart, Durable, Linked, Carried, Written
<1>14. CASE MoveAside
  BY <1>14 DEF MoveAside, Progress, Opening, Whole, Apart, Durable, Linked, Carried, Written
<1>15. CASE Install
  BY <1>15 DEF Install, Progress, Opening, Whole, Apart, Durable, Linked, Carried, Written
<1>16. CASE RemoveOld("clean", "idle")
  BY <1>16 DEF RemoveOld, RemoveEntry, Unlinked, Progress, Opening, Whole, Apart, Durable, Linked, Carried, Written
<1>17. CASE Crash
  BY <1>17 DEF Crash, Progress, Opening, Whole, Apart, Durable, Linked, Carried, Written
<1>18. CASE UNCHANGED vars
  <2>1. /\ target' = target /\ tmp' = tmp /\ old' = old /\ disk' = disk
        /\ synced' = synced /\ pc' = pc /\ call' = call /\ todo' = todo
        /\ opened' = opened
    BY <1>18, Zenon DEF vars
  <2>2. TypeOK' /\ Siblings' /\ (target # Absent => Whole(target) /\ Apart(target))'
    BY <2>1 DEF Calls, Whole, Apart, Durable, Linked
  <2>3. /\ \A n \in Names : Carried(n) => Carried(n)'
        /\ \A i \in Inodes : Durable(i) => Durable(i)'
        /\ Linked(target)' = Linked(target)
        /\ Written' = Written
        /\ Whole(tmp) => Whole(tmp)'
    BY <2>1 DEF Carried, Durable, Written, Linked, Whole
  <2>4. Progress'
    <3>1. \A n \in Names : tmp # Absent /\ tmp[n] # NoInode => tmp[n] \in Inodes
      OBVIOUS
    <3> QED BY <2>1, <2>3, <3>1 DEF Progress
  <2>5. Opening'
    BY <2>1, <2>3 DEF Opening
  <2> QED
    BY <2>2, <2>4, <2>5
<1> HIDE DEF IInv, TypeOK, Folders, Siblings, Building, fs, Goto
<1> QED
  BY <1>a, <1>b, <1>c, <1>1, <1>2, <1>3, <1>4, <1>5, <1>6, <1>7, <1>8, <1>9, <1>10, <1>11, <1>12,
     <1>13, <1>14, <1>15, <1>16, <1>17, <1>18 DEF Next, Recover

(* The invariant holds throughout.                                         *)
THEOREM AlwaysIInv ==
  ASSUME PowerLoss => HardLinks
  PROVE  Spec => []IInv
<1>1. Init => IInv
  BY InitIInv
<1>2. IInv /\ [Next]_vars => IInv'
  BY StepIInv
<1> QED
  BY <1>1, <1>2, PTL DEF Spec

(* atomic_dir.py:99-102: every file staged through write_dir_atomic is     *)
(* fsynced to its last byte in the folder recovery leaves.  The chunk      *)
(* cache, written in place and carried over, is not (PromotedIsSynced).    *)
THEOREM StagedSynced ==
  ASSUME PowerLoss, HardLinks
  PROVE  Spec => []StagedIsSynced
<1>1. IInv => StagedIsSynced
  BY DEF IInv, Siblings, StagedIsSynced, Surviving, Whole, Durable
<1> QED
  BY <1>1, AlwaysIInv, PTL

(* atomic_dir.py:73-74: building the new folder never changes a file of    *)
(* the one in place, though they share inodes; only the extraction's own   *)
(* writes and a loss of power reach a file, and only one of its cache.     *)
THEOREM ReadersUndisturbed ==
  ASSUME PowerLoss => HardLinks
  PROVE  Spec => ReaderNeverDisturbed
<1> DEFINE Spared(n) == \/ View(target)'[n] = View(target)[n]
                        \/ n \in InPlace /\ (pc \in {"idle", "edit"} \/ View(target)'[n] = Torn)
           Undisturbed == target # Absent /\ target' = target => \A n \in Names : Spared(n)
<1>1. IInv /\ [Next]_vars => [Undisturbed]_vars
  <2> SUFFICES ASSUME IInv, Next, target # Absent, target' = target, NEW n \in Names
               PROVE  Spared(n)
    BY DEF vars
  <2> USE NoInodeAssumption, FlagsAssumption, InPlaceAssumption
  <2>0. /\ target \in Folders /\ disk \in [Inodes -> Values \cup {Torn}] /\ synced \subseteq Inodes
        /\ Whole(target) /\ Apart(target)
    BY DEF IInv, TypeOK
  <2>1. CASE target[n] = NoInode
    BY <2>1 DEF View
  <2>2. CASE target[n] # NoInode /\ disk'[target[n]] = disk[target[n]]
    BY <2>2 DEF View
  <2>3. CASE target[n] # NoInode /\ disk'[target[n]] # disk[target[n]]
    <3>0. target[n] \in Inodes /\ target[n] \in Linked(target)
      BY <2>0, <2>3 DEF Linked, Folders
    <3>1. ASSUME NEW m \in Names, CarryOver(m) PROVE FALSE
      BY <3>1, <3>0, <2>0, <2>3 DEF CarryOver, Free
    <3>2. ASSUME NEW m \in Names, OpenFile(m) PROVE FALSE
      BY <3>2, <3>0, <2>0, <2>3 DEF OpenFile, Opened, Unlinked, Free, Folders, IInv, TypeOK, Siblings, Building
    <3>3. ASSUME NEW m \in Names, FillFile(m) PROVE FALSE
      BY <3>3, <3>0, <2>0, <2>3 DEF FillFile, Synced, IInv, Opening
    <3>4. ASSUME NEW m \in InPlace, EditFile(m) PROVE n \in InPlace /\ pc = "idle"
      BY <3>4, <3>0, <2>0, <2>3 DEF EditFile, Opened, Free, Apart, Folders
    <3>5. ASSUME NEW m \in InPlace, EditDone(m) PROVE n \in InPlace /\ pc = "edit"
      BY <3>5, <3>0, <2>0, <2>3 DEF EditDone, Apart, Folders, IInv, Opening
    <3>6. CASE Crash
      <4>1. n \in InPlace /\ disk'[target[n]] = Torn
        BY <3>6, <3>0, <2>0, <2>3 DEF Crash, Whole, Durable
      <4> QED BY <4>1, <2>3 DEF View
    <3>7. CASE UNCHANGED disk
      BY <3>7, <2>3
    <3> QED
      BY <3>1, <3>2, <3>3, <3>4, <3>5, <3>6, <3>7
      DEF Next, MakeFolder, Write, Recover, Promote, RemoveTmp, RemoveOld,
          Reject, Build, CarriedOver, Built, Fail, MoveAside, Install
  <2> QED
    BY <2>1, <2>2, <2>3
<1>2. IInv /\ [Next]_vars => IInv'
  BY StepIInv
<1> QED
  BY <1>1, AlwaysIInv, PTL DEF Spec, ReaderNeverDisturbed

-----------------------------------------------------------------------------
(* The content a caller would find, and the call in progress, as the       *)
(* mapping of AtomicReplace gives them.                                    *)
Found == IF Surviving = Absent THEN Absent ELSE View(Surviving)
Running == IF pc \in {"idle", "edit"} THEN NoCall
           ELSE [call |-> call, applied |-> pc = "clean" \/ (pc = "install" /\ old # Absent)]

(* A folder's view is never mistaken for the absence of one.               *)
LEMMA ViewIsAFolder ==
  ASSUME NEW dir \in Folders, disk \in [Inodes -> Values \cup {Torn}]
  PROVE  View(dir) # Absent
<1>1. View(dir) \in [Names -> Values \cup {NoFile, Torn}]
  BY DEF View, Folders
<1> QED
  BY <1>1, AbsentAssumption

(* Nor is a call in progress mistaken for none.                            *)
LEMMA RunningIsACall ==
  ASSUME TypeOK, pc \notin {"idle", "edit"}
  PROVE  Running # NoCall
<1>1. Running \in [call : Calls, applied : BOOLEAN]
  BY DEF Running, TypeOK
<1> QED
  BY <1>1, NoCallAssumption DEF Calls

(* Steps that move no rename and finish no call change neither.            *)
LEMMA Unmoved ==
  ASSUME Found' = Found, Running' = Running
  PROVE  UNCHANGED Promise!avars
BY DEF Promise!avars, Found, Running

(* The view survives as long as the folder's inodes keep their content.    *)
LEMMA SameFound ==
  ASSUME IInv, Surviving' = Surviving,
         \A i \in Linked(Surviving) : disk'[i] = disk[i]
  PROVE  Found' = Found
<1>1. CASE Surviving = Absent
  BY <1>1 DEF Found
<1>2. CASE Surviving # Absent
  <2>1. Surviving \in Folders
    BY <1>2 DEF Surviving, IInv, TypeOK
  <2>2. \A n \in Names : Surviving[n] # NoInode => disk'[Surviving[n]] = disk[Surviving[n]]
    BY <2>1, <1>2 DEF Linked, Folders
  <2> HIDE DEF Surviving
  <2>3. View(Surviving)' = View(Surviving)
    BY <2>2 DEF View
  <2> QED
    BY <2>3, <1>2 DEF Found
<1> QED
  BY <1>1, <1>2

(* Every step of the code is a step of the atomic folder, or invisible.    *)
LEMMA StepPromise ==
  ASSUME PowerLoss => HardLinks, ~Unrecovered, IInv, IInv', Next
  PROVE  [Promise!Next]_(Promise!avars)
<1> USE NoInodeAssumption
<1> DEFINE Kept == \A i \in Linked(Surviving) : disk'[i] = disk[i]
<1>a. ASSUME Surviving' = Surviving, Kept PROVE Found' = Found
  BY <1>a, SameFound
<1>b. ASSUME Surviving' = Surviving, Kept, Running' = Running
      PROVE  [Promise!Next]_(Promise!avars)
  BY <1>b, <1>a, Unmoved
<1>t. TypeOK /\ TypeOK'
  BY DEF IInv
<1> HIDE DEF Kept
<1>m. CASE MakeFolder
  <2>1. target = Absent /\ old = Absent /\ pc = "idle" /\ pc' = "idle" /\ target' = Empty
    BY <1>m DEF MakeFolder
  <2>2. Empty \in Folders /\ Empty # Absent
    BY AbsentAssumption DEF Empty, Folders
  <2>3. Found = Absent /\ Found' = [n \in Names |-> NoFile]
    BY <2>1, <2>2 DEF Found, Surviving, View, Empty
  <2>4. Running = NoCall /\ Running' = NoCall
    BY <2>1 DEF Running
  <2> QED
    BY <2>3, <2>4 DEF Promise!Next, Promise!Make, Found, Running
<1>e. ASSUME NEW n \in InPlace, EditFile(n) \/ EditDone(n)
      PROVE  [Promise!Next]_(Promise!avars)
  <2>1. target # Absent /\ target' # Absent /\ target \in Folders /\ target' \in Folders
    BY <1>e, <1>t, AbsentAssumption DEF EditFile, EditDone, Goto, IInv, Siblings, TypeOK, Folders
  <2>2. Found = View(target) /\ Found' = View(target)' /\ Found # Absent
    <3>1. View(target) # Absent
      BY <2>1, <1>t, ViewIsAFolder DEF TypeOK
    <3> QED BY <2>1, <3>1 DEF Found, Surviving
  <2>3. n \in Names /\ Apart(target) /\ disk \in [Inodes -> Values \cup {Torn}]
    BY <1>t, <2>1, InPlaceAssumption DEF IInv, TypeOK
  <2>4. PICK v \in Values \cup {Torn} :
          /\ \A m \in Names : View(target)'[m] = IF m = n THEN v ELSE View(target)[m]
    <3>1. CASE EditFile(n)
      BY <3>1, <2>1, <2>3 DEF EditFile, Opened, Free, Linked, View, Apart, Folders
    <3>2. CASE EditDone(n)
      BY <3>2, <2>1, <2>3 DEF EditDone, View, Apart, Folders, IInv, Opening
    <3> QED BY <1>e, <3>1, <3>2
  <2>5. View(target)' = [View(target) EXCEPT ![n] = v]
    BY <2>4 DEF View
  <2>6. Running = NoCall /\ Running' = NoCall
    BY <1>e DEF EditFile, EditDone, Goto, Running
  <2> QED
    <3>1. Found' = [Found EXCEPT ![n] = v]
      BY <2>2, <2>5
    <3> QED
      BY <2>2, <2>6, <3>1 DEF Promise!Next, Promise!Edit, Found, Running
<1>1. CASE Write
  <2>1. Surviving' = Surviving /\ Kept
    BY <1>1 DEF Write, Surviving, Kept, fs
  <2>2. Found' = Found
    BY <2>1, <1>a
  <2>3. /\ call' \in Promise!Calls
        /\ Running = NoCall /\ Running' = [call |-> call', applied |-> FALSE]
    BY <1>1 DEF Write, Goto, Running, Calls, Promise!Calls
  <2> QED
    BY <2>2, <2>3 DEF Promise!Next, Promise!Begin, Found, Running
<1>2. CASE Promote
  <2>1. Surviving' = Surviving /\ Kept
    BY <1>2 DEF Promote, Surviving, Kept
  <2>2. Running' = Running
    BY <1>2 DEF Promote, Goto, Running
  <2> QED BY <2>1, <2>2, <1>b
<1>3. CASE RemoveTmp("rmtmp", "rmold")
  <2>1. Surviving' = Surviving /\ Kept
    BY <1>3 DEF RemoveTmp, Surviving, Kept, IInv, Siblings
  <2>2. Running' = Running
    BY <1>3 DEF RemoveTmp, Running
  <2> QED BY <2>1, <2>2, <1>b
<1>4. CASE RemoveOld("rmold", "build")
  <2>1. Surviving' = Surviving /\ Kept
    BY <1>4 DEF RemoveOld, Surviving, Kept, IInv, Siblings
  <2>2. Running' = Running
    BY <1>4 DEF RemoveOld, Running
  <2> QED BY <2>1, <2>2, <1>b
<1>5. CASE Reject
  <2>1. Surviving' = Surviving /\ Kept
    BY <1>5 DEF Reject, Surviving, Kept, fs
  <2>2. Found' = Found
    BY <2>1, <1>a
  <2>3. Running # NoCall /\ ~Running.applied /\ Running' = NoCall
    BY <1>5, <1>t, RunningIsACall DEF Reject, Goto, Running
  <2> QED
    BY <2>2, <2>3 DEF Promise!Next, Promise!Raise, Found, Running
<1>6. CASE Build \/ CarriedOver \/ Built \/ Fail
  <2>1. Surviving' = Surviving /\ Kept
    BY <1>6 DEF Build, CarriedOver, Built, Fail, Goto, Surviving, Kept, fs, IInv, Siblings, Building
  <2>2. Running' = Running
    BY <1>6 DEF Build, CarriedOver, Built, Fail, Goto, Running
  <2> QED BY <2>1, <2>2, <1>b
<1>7. ASSUME NEW n \in Names, CarryOver(n) \/ OpenFile(n) \/ FillFile(n)
      PROVE  [Promise!Next]_(Promise!avars)
  <2>1. pc \in Building /\ pc' \in Building \ {"install", "clean"} /\ UNCHANGED <<target, old, call>>
    BY <1>7 DEF CarryOver, OpenFile, FillFile, Synced, Goto, Building
  <2>2. Surviving' = Surviving /\ Surviving = target
    BY <2>1 DEF IInv, Siblings, Building, Surviving
  <2>3. Running' = Running
    BY <2>1 DEF Running, Building
  <2>4. disk \in [Inodes -> Values \cup {Torn}] /\ (target # Absent => target \in Folders)
    BY <1>t DEF TypeOK
  <2>5. \A i \in Linked(target) : disk'[i] = disk[i]
    <3>1. CASE CarryOver(n)
      BY <3>1, <2>4 DEF CarryOver, Free, Linked, Folders
    <3>2. CASE OpenFile(n)
      BY <3>2, <2>4, <1>t DEF OpenFile, Opened, Unlinked, Free, Linked, Folders, IInv, TypeOK,
         Siblings, Building, Goto
    <3>3. CASE FillFile(n)
      <4>1. tmp[n] \notin Linked(target)
        BY <3>3 DEF FillFile, Synced, IInv, Opening
      <4>2. Linked(target) \subseteq Inodes
        BY <2>4 DEF Linked, Folders
      <4> QED BY <3>3, <4>1, <4>2, <2>4 DEF FillFile, Synced
    <3> QED BY <1>7, <3>1, <3>2, <3>3
  <2>6. Kept
    BY <2>2, <2>5 DEF Kept
  <2> QED BY <2>2, <2>3, <2>6, <1>b
<1>8. CASE RemoveTmp("abort", "idle")
  <2>1. Surviving' = Surviving /\ Kept
    BY <1>8 DEF RemoveTmp, Surviving, Kept, IInv, Siblings, Building
  <2>2. CASE pc' = pc
    <3>1. Running' = Running
      BY <1>8, <2>2 DEF RemoveTmp, Running
    <3> QED BY <2>1, <3>1, <1>b
  <2>3. CASE pc' = "idle"
    <3>1. Running # NoCall /\ ~Running.applied /\ Running' = NoCall
      BY <1>8, <2>3, <1>t, RunningIsACall DEF RemoveTmp, Running
    <3>2. Found' = Found
      BY <2>1, <1>a
    <3> QED
      BY <3>1, <3>2 DEF Promise!Next, Promise!Raise, Found, Running
  <2> QED BY <1>8, <2>2, <2>3 DEF RemoveTmp
<1>9. CASE MoveAside
  <2>1. CASE target = Absent
    <3>1. Surviving' = Surviving /\ Kept /\ Running' = Running
      BY <1>9, <2>1 DEF MoveAside, Goto, Surviving, Kept, Running, IInv, Siblings, Building
    <3> QED BY <3>1, <1>b
  <2>2. CASE target # Absent
    <3>1. /\ pc = "swap" /\ old = Absent /\ tmp # Absent /\ todo = {}
          /\ tmp \in Folders /\ target \in Folders
      BY <1>9, <1>t, <2>2 DEF MoveAside, Goto, IInv, TypeOK, Siblings, Progress, Building
    <3>2. Found = View(target) /\ Found # Absent
      BY <2>2, <3>1, <1>t, ViewIsAFolder DEF Found, Surviving, TypeOK
    <3>3. Found' = View(tmp)
      BY <1>9, <2>2, <3>1 DEF MoveAside, Found, Surviving, View
    <3>4. \A n \in Names : /\ n \in Written => tmp[n] # NoInode /\ disk[tmp[n]] = call.files[n]
                           /\ n \notin Written => Carried(n)
      BY <3>1 DEF IInv, Progress
    <3>5. View(tmp) = Promise!Replaced(call, View(target))
      BY <2>2, <3>2, <3>4 DEF View, Promise!Replaced, Carried, Written
    <3>6. /\ Running = [call |-> call, applied |-> FALSE]
          /\ Running' = [call |-> call, applied |-> TRUE]
          /\ Running # NoCall
      BY <1>9, <2>2, <3>1, <1>t, RunningIsACall DEF MoveAside, Goto, Running
    <3>7. Found' = Promise!Replaced(Running.call, Found) /\ Running' = [call |-> Running.call, applied |-> TRUE]
      <4>1. Running.call = call
        BY <3>6
      <4>2. Found' = Promise!Replaced(call, Found)
        BY <3>2, <3>3, <3>5
      <4>3. Running' = [call |-> Running.call, applied |-> TRUE]
        BY <3>6, <4>1
      <4> HIDE DEF Found, Running
      <4> QED BY <4>1, <4>2, <4>3
    <3> QED
      BY <3>6, <3>7 DEF Promise!Next, Promise!Apply, Found, Running
  <2> QED BY <2>1, <2>2
<1>10. CASE Install
  <2>0. pc = "install" /\ target = Absent /\ tmp # Absent /\ tmp \in Folders
    BY <1>10, <1>t DEF Install, Goto, IInv, TypeOK, Siblings, Building
  <2>1. CASE old # Absent
    <3>1. Surviving' = Surviving /\ Kept /\ Running' = Running
      BY <1>10, <2>0, <2>1 DEF Install, Goto, Surviving, Kept, Running
    <3> QED BY <3>1, <1>b
  <2>2. CASE old = Absent
    <3>1. Found = Absent
      BY <2>0, <2>2 DEF Found, Surviving
    <3>2. Found' = View(tmp)
      BY <1>10, <2>0 DEF Install, Found, Surviving, View
    <3>3. \A n \in Names : IF n \in Written
                           THEN tmp[n] # NoInode /\ disk[tmp[n]] = call.files[n]
                           ELSE tmp[n] = NoInode
      BY <2>0, <2>2 DEF IInv, Progress
    <3>4. View(tmp) = Promise!Replaced(call, Absent)
      BY <3>3 DEF View, Promise!Replaced, Written
    <3>5. /\ Running = [call |-> call, applied |-> FALSE]
          /\ Running' = [call |-> call, applied |-> TRUE]
          /\ Running # NoCall
      BY <1>10, <2>0, <2>2, <1>t, RunningIsACall DEF Install, Goto, Running
    <3>6. Found' = Promise!Replaced(Running.call, Found) /\ Running' = [call |-> Running.call, applied |-> TRUE]
      <4>1. Running.call = call
        BY <3>5
      <4>2. Found' = Promise!Replaced(call, Found)
        BY <3>1, <3>2, <3>4
      <4>3. Running' = [call |-> Running.call, applied |-> TRUE]
        BY <3>5, <4>1
      <4> HIDE DEF Found, Running
      <4> QED BY <4>1, <4>2, <4>3
    <3> QED
      BY <3>5, <3>6 DEF Promise!Next, Promise!Apply, Found, Running
  <2> QED BY <2>1, <2>2
<1>11. CASE RemoveOld("clean", "idle")
  <2>1. Surviving' = Surviving /\ Kept
    BY <1>11 DEF RemoveOld, Surviving, Kept, IInv, Siblings
  <2>2. CASE pc' = pc
    <3>1. Running' = Running
      BY <1>11, <2>2 DEF RemoveOld, Running
    <3> QED BY <2>1, <3>1, <1>b
  <2>3. CASE pc' = "idle"
    <3>1. Running # NoCall /\ Running.applied /\ Running' = NoCall
      BY <1>11, <2>3, <1>t, RunningIsACall DEF RemoveOld, Running
    <3>2. Found' = Found
      BY <2>1, <1>a
    <3> QED
      BY <3>1, <3>2 DEF Promise!Next, Promise!Return, Found, Running
  <2> QED BY <1>11, <2>2, <2>3 DEF RemoveOld
<1>12. CASE Crash
  <2>1. Surviving' = Surviving
    BY <1>12 DEF Crash, Surviving
  <2>2. Running' = NoCall
    BY <1>12 DEF Crash, Running
  <2>3. CASE Surviving = Absent
    <3>1. Found = Absent /\ Found' = Absent
      BY <2>1, <2>3 DEF Found
    <3> QED
      BY <3>1, <2>2 DEF Promise!Next, Promise!Die, Promise!MayTear, Found, Running
  <2>4. CASE Surviving # Absent
    <3>1. Whole(Surviving) /\ Surviving \in Folders
      BY <2>4, <1>t DEF Surviving, IInv, Siblings, TypeOK
    <3> DEFINE lost == {n \in InPlace : Surviving[n] # NoInode /\ disk'[Surviving[n]] # disk[Surviving[n]]}
    <3>2. \A n \in Names : View(Surviving)'[n] =
            IF n \in lost /\ View(Surviving)[n] # NoFile THEN Torn ELSE View(Surviving)[n]
      <4> SUFFICES ASSUME NEW n \in Names
                   PROVE  View(Surviving)'[n] =
                            IF n \in lost /\ View(Surviving)[n] # NoFile THEN Torn ELSE View(Surviving)[n]
        OBVIOUS
      <4>1. CASE Surviving[n] = NoInode
        <5>1. n \notin lost
          BY <4>1
        <5> HIDE DEF Surviving, lost
        <5> QED BY <4>1, <5>1, <2>1 DEF View
      <4>2. CASE Surviving[n] # NoInode
        <5>1. Surviving[n] \in Inodes /\ disk[Surviving[n]] \in Values \cup {Torn}
          BY <4>2, <3>1, <1>t DEF Folders, TypeOK
        <5>2. disk[Surviving[n]] # NoFile
          BY <5>1, NoFileAssumption, NoFileTornAssumption
        <5>3. \/ disk'[Surviving[n]] = disk[Surviving[n]]
              \/ n \in InPlace /\ disk'[Surviving[n]] = Torn
          BY <4>2, <5>1, <3>1, <1>12, <1>t DEF Crash, Whole, Durable, TypeOK
        <5>4. n \in lost <=> disk'[Surviving[n]] # disk[Surviving[n]]
          BY <4>2, <5>3
        <5> HIDE DEF Surviving, lost
        <5> QED BY <4>2, <5>2, <5>3, <5>4, <2>1 DEF View
      <4> QED BY <4>1, <4>2
    <3>3. Found = View(Surviving) /\ Found' = View(Surviving)' /\ Found # Absent
      <4>1. View(Surviving) # Absent
        BY <3>1, <1>t, ViewIsAFolder DEF TypeOK
      <4> HIDE DEF Surviving
      <4> QED BY <4>1, <2>1, <2>4 DEF Found
    <3>4. View(Surviving)' = [n \in Names |-> IF n \in lost /\ View(Surviving)[n] # NoFile
                                              THEN Torn ELSE View(Surviving)[n]]
      <4> HIDE DEF Surviving, lost
      <4> QED BY <3>2 DEF View
    <3>5. lost \subseteq InPlace
      OBVIOUS
    <3>6. Found' \in Promise!MayTear(Found)
      <4> HIDE DEF Surviving, lost, Found
      <4> QED BY <3>3, <3>4, <3>5 DEF Promise!MayTear
    <3> QED
      BY <3>6, <2>2 DEF Promise!Next, Promise!Die, Found, Running
  <2> QED BY <2>3, <2>4
<1> QED
  BY <1>m, <1>e, <1>1, <1>2, <1>3, <1>4, <1>5, <1>6, <1>7, <1>8, <1>9, <1>10, <1>11, <1>12
  DEF Next, Recover

(* atomic_dir.py:1-16: building a sibling and swapping it in by two        *)
(* renames, with recovery at the next write, is an atomic replacement --   *)
(* as long as no extraction makes a folder whose swap was cut short before *)
(* a recovery has seen it (ingest.py:3771 does: OldBesideTargetIsSpent).   *)
THEOREM ImplementsAtomicFolder ==
  ASSUME PowerLoss => HardLinks, ~Unrecovered
  PROVE  Spec => AtomicReplace
<1>1. Init => Promise!Init
  BY DEF Init, Promise!Init, Surviving
<1>2. IInv /\ IInv' /\ [Next]_vars => [Promise!Next]_(Promise!avars)
  <2>1. CASE Next
    BY <2>1, StepPromise
  <2>2. CASE UNCHANGED vars
    <3>1. /\ target' = target /\ tmp' = tmp /\ old' = old /\ disk' = disk
          /\ pc' = pc /\ call' = call
      BY <2>2, Zenon DEF vars, fs
    <3>2. Found' = Found /\ Running' = Running
      BY <3>1 DEF Found, Running, Surviving, View
    <3> QED BY <3>2, Unmoved
  <2> QED BY <2>1, <2>2
<1> QED
  BY <1>1, <1>2, AlwaysIInv, PTL DEF Spec, AtomicReplace, Promise!ASpec
=============================================================================
