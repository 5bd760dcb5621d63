----------------------------- MODULE AtomicDir -----------------------------
(***************************************************************************)
(* artmind/atomic_dir.py: replacing a folder by building the new one in a  *)
(* sibling and swapping it in with two renames, and finishing or           *)
(* discarding, at the start of the next write, a swap that was cut short.  *)
(*                                                                         *)
(* A folder maps names to inodes, because the carry-over hard-links the    *)
(* files it keeps: the old folder and the one being built share inodes.    *)
(* Between calls ingest.py keeps an extraction's chunk cache in the folder *)
(* and writes those files in place, without an fsync.                      *)
(* Nested names, symbolic links, permissions and what git checks out are   *)
(* left out.                                                               *)
(***************************************************************************)
EXTENDS FiniteSets

CONSTANTS
  Names, Values, NoFile, Absent, NoCall,   \* as in AtomicFolder
  Inodes,      \* inodes of the file system
  NoInode,     \* a name with no file
  Torn,        \* content cut off by a crash
  HardLinks,   \* os.link works here; else _link_or_copy falls back to a copy
  PowerLoss,   \* a crash may lose what was not fsynced, not only the process
  InPlace,     \* names the extraction writes in place: the chunk cache
  Unrecovered  \* an extraction may start on a folder whose swap was cut short

ASSUME NoInodeAssumption == NoInode \notin Inodes
ASSUME TornAssumption == Torn \notin Values
ASSUME NoFileAssumption == NoFile \notin Values
ASSUME NoFileTornAssumption == NoFile # Torn
ASSUME NoCallAssumption == NoCall \notin [call : [files : [Names -> Values \cup {NoFile}],
                                                  carry : BOOLEAN],
                                          applied : BOOLEAN]
ASSUME AbsentAssumption ==
  /\ Absent \notin [Names -> Inodes \cup {NoInode}]
  /\ Absent \notin [Names -> Values \cup {NoFile, Torn}]
ASSUME FlagsAssumption == HardLinks \in BOOLEAN /\ PowerLoss \in BOOLEAN
ASSUME InPlaceAssumption == InPlace \subseteq Names /\ Unrecovered \in BOOLEAN

VARIABLES
  target, tmp, old,   \* <dir>, <dir>.artmind-tmp, <dir>.artmind-old
  disk,               \* what each inode holds
  synced,             \* inodes whose content has been fsynced
  pc,                 \* where write_dir_atomic is
  call,               \* its arguments
  todo,               \* names still to link, or to write
  opened              \* the name open for writing, if any

fs == <<target, tmp, old, disk, synced>>
vars == <<fs, pc, call, todo, opened>>

Folders == [Names -> Inodes \cup {NoInode}]
Empty == [n \in Names |-> NoInode]
Calls == [files : [Names -> Values \cup {NoFile}], carry : BOOLEAN]

Linked(dir) == IF dir = Absent THEN {} ELSE {dir[n] : n \in Names} \ {NoInode}
Free == Inodes \ (Linked(target) \cup Linked(tmp) \cup Linked(old))
Present(dir) == {n \in Names : dir[n] # NoInode}
Written == {n \in Names : call.files[n] # NoFile}

(* What a reader of the folder sees.                                       *)
View(dir) == [n \in Names |-> IF dir[n] = NoInode THEN NoFile ELSE disk[dir[n]]]

(* path.unlink(missing_ok=True) on a file of the folder being built.       *)
StillLinked(dir, n) == dir   \* seeded fault: the file is opened, not unlinked first
Unlinked(dir, n) == [dir EXCEPT ![n] = NoInode]

(* open(path, "wb") truncates the inode the name has, else makes one.      *)
Opened(dir, n) == IF dir[n] = NoInode THEN Free ELSE {dir[n]}

TypeOK ==
  /\ target \in Folders \cup {Absent}
  /\ tmp \in Folders \cup {Absent}
  /\ old \in Folders \cup {Absent}
  /\ disk \in [Inodes -> Values \cup {Torn}]
  /\ synced \subseteq Inodes
  /\ pc \in {"idle", "recover", "rmtmp", "rmold", "build", "copy", "write",
             "fill", "abort", "swap", "install", "clean", "edit"}
  /\ call \in Calls
  /\ todo \subseteq Names
  /\ opened \subseteq Names

Init ==
  /\ target = Absent /\ tmp = Absent /\ old = Absent
  /\ disk = [i \in Inodes |-> Torn]
  /\ synced = {}
  /\ pc = "idle"
  /\ call = [files |-> [n \in Names |-> NoFile], carry |-> TRUE]
  /\ todo = {}
  /\ opened = {}

Goto(from, to) == pc = from /\ pc' = to

(***************************************************************************)
(* Between calls, the extraction: it makes the folder, and writes the file *)
(* of a chunk by truncating it and filling it.  (An exception in between   *)
(* leaves what a crash there leaves.)                                      *)
(***************************************************************************)
MakeFolder ==
  /\ pc = "idle" /\ target = Absent
  /\ Unrecovered \/ old = Absent
  /\ target' = Empty
  /\ UNCHANGED <<tmp, old, disk, synced, pc, call, todo, opened>>

EditFile(n) ==
  /\ Goto("idle", "edit") /\ target # Absent
  /\ \E i \in Opened(target, n) :
       /\ target' = [target EXCEPT ![n] = i]
       /\ disk' = [disk EXCEPT ![i] = Torn]
       /\ synced' = synced \ {i}
  /\ opened' = {n}
  /\ UNCHANGED <<tmp, old, call, todo>>

EditDone(n) ==
  /\ Goto("edit", "idle") /\ n \in opened
  /\ \E v \in Values : disk' = [disk EXCEPT ![target[n]] = v]
  /\ opened' = {}
  /\ UNCHANGED <<target, tmp, old, synced, call, todo>>

Write ==
  /\ Goto("idle", "recover")
  /\ call' \in Calls
  /\ todo' = {}
  /\ UNCHANGED <<fs, opened>>

(***************************************************************************)
(* recover(target): promote what an interrupted swap left, then discard    *)
(* the siblings.  rmtree takes a folder apart one entry at a time.         *)
(***************************************************************************)
DiscardBoth ==   \* seeded fault: the interrupted swap is only cleaned up
  /\ Goto("recover", "rmtmp")
  /\ UNCHANGED <<fs, call, todo, opened>>

Promote ==
  /\ Goto("recover", "rmtmp")
  /\ IF old # Absent /\ target = Absent
     THEN IF tmp # Absent
          THEN target' = tmp /\ tmp' = Absent /\ UNCHANGED old
          ELSE target' = old /\ old' = Absent /\ UNCHANGED tmp
     ELSE UNCHANGED <<target, tmp, old>>
  /\ UNCHANGED <<disk, synced, call, todo, opened>>

RemoveEntry(dir, dir2) ==   \* one os.unlink or the final os.rmdir of a rmtree
  IF Present(dir) = {}
  THEN dir2 = Absent
  ELSE \E n \in Present(dir) : dir2 = Unlinked(dir, n)

RemoveTmp(at, next) ==
  /\ pc = at
  /\ IF tmp = Absent
     THEN pc' = next /\ UNCHANGED tmp
     ELSE RemoveEntry(tmp, tmp') /\ UNCHANGED pc
  /\ UNCHANGED <<target, old, disk, synced, call, todo, opened>>

RemoveOld(at, next) ==
  /\ pc = at
  /\ IF old = Absent
     THEN pc' = next /\ UNCHANGED old
     ELSE RemoveEntry(old, old') /\ UNCHANGED pc
  /\ UNCHANGED <<target, tmp, disk, synced, call, todo, opened>>

(* A name outside the folder raises before anything is built.              *)
Reject == Goto("build", "idle") /\ UNCHANGED <<fs, call, todo, opened>>

Build ==
  /\ pc = "build"
  /\ tmp' = Empty
  /\ IF call.carry /\ target # Absent
     THEN pc' = "copy" /\ todo' = Present(target)
     ELSE pc' = "write" /\ todo' = Written
  /\ UNCHANGED <<target, old, disk, synced, call, opened>>

(* shutil.copytree with _link_or_copy: a hard link, or where links are     *)
(* refused a copy, which nothing fsyncs.                                   *)
CarryOver(n) ==
  /\ pc = "copy" /\ n \in todo
  /\ IF HardLinks
     THEN tmp' = [tmp EXCEPT ![n] = target[n]] /\ UNCHANGED <<disk, synced>>
     ELSE \E i \in Free :
            /\ tmp' = [tmp EXCEPT ![n] = i]
            /\ disk' = [disk EXCEPT ![i] = disk[target[n]]]
            /\ synced' = synced \ {i}
  /\ todo' = todo \ {n}
  /\ UNCHANGED <<target, old, pc, call, opened>>

CarriedOver ==
  /\ Goto("copy", "write") /\ todo = {}
  /\ todo' = Written
  /\ UNCHANGED <<fs, call, opened>>

(* One of the call's files: unlink the carried-over link, create the file, *)
(* then write and fsync it.  From the open to the fsync it is torn.        *)
OpenFile(n) ==
  /\ Goto("write", "fill") /\ n \in todo
  /\ \E i \in Opened(Unlinked(tmp, n), n) :
       /\ tmp' = [tmp EXCEPT ![n] = i]
       /\ disk' = [disk EXCEPT ![i] = Torn]
       /\ synced' = synced \ {i}
  /\ opened' = {n}
  /\ UNCHANGED <<target, old, call, todo>>

Unsynced(n) == synced   \* seeded fault: no os.fsync after the write
Synced(n) == synced \cup {tmp[n]}

FillFile(n) ==
  /\ Goto("fill", "write") /\ n \in opened
  /\ disk' = [disk EXCEPT ![tmp[n]] = call.files[n]]
  /\ synced' = Synced(n)
  /\ todo' = todo \ {n}
  /\ opened' = {}
  /\ UNCHANGED <<target, tmp, old, call>>

Built ==
  /\ Goto("write", "swap") /\ todo = {}
  /\ UNCHANGED <<fs, call, todo, opened>>

(* Anything raised while building: the half-built sibling is removed.      *)
Fail ==
  /\ pc \in {"copy", "write", "fill"} /\ pc' = "abort"
  /\ opened' = {}
  /\ UNCHANGED <<fs, call, todo>>

(***************************************************************************)
(* The two renames and the cleanup.                                        *)
(***************************************************************************)
MoveAside ==
  /\ Goto("swap", "install")
  /\ IF target # Absent
     THEN old' = target /\ target' = Absent
     ELSE UNCHANGED <<target, old>>
  /\ UNCHANGED <<tmp, disk, synced, call, todo, opened>>

Install ==
  /\ Goto("install", "clean")
  /\ target' = tmp /\ tmp' = Absent
  /\ UNCHANGED <<old, disk, synced, call, todo, opened>>

(* The process dies at any point; the next write starts from what is on    *)
(* disk.  A power loss also tears every inode that was never fsynced.      *)
Crash ==
  /\ pc' = "idle"
  /\ IF PowerLoss
     THEN disk' = [i \in Inodes |-> IF i \in synced THEN disk[i] ELSE Torn]
     ELSE UNCHANGED disk
  /\ opened' = {}
  /\ UNCHANGED <<target, tmp, old, synced, call, todo>>

Recover == Promote \/ RemoveTmp("rmtmp", "rmold") \/ RemoveOld("rmold", "build")
Next ==
  \/ MakeFolder
  \/ \E n \in InPlace : EditFile(n) \/ EditDone(n)
  \/ Write
  \/ Recover
  \/ Reject
  \/ Build
  \/ \E n \in Names : CarryOver(n) \/ OpenFile(n) \/ FillFile(n)
  \/ CarriedOver
  \/ Built
  \/ Fail
  \/ RemoveTmp("abort", "idle")
  \/ MoveAside
  \/ Install
  \/ RemoveOld("clean", "idle")
  \/ Crash

Spec == Init /\ [][Next]_vars

-----------------------------------------------------------------------------
(* The folder a caller finds once recover() has run.                       *)
Surviving ==
  IF target # Absent THEN target
  ELSE IF old = Absent THEN Absent
  ELSE IF tmp # Absent THEN tmp ELSE old

(* The promise of AtomicFolder, kept: the swap takes effect with the first *)
(* rename of a folder that existed, with the second of one that did not.   *)
Promise == INSTANCE AtomicFolder WITH
  content <- IF Surviving = Absent THEN Absent ELSE View(Surviving),
  running <- IF pc \in {"idle", "edit"} THEN NoCall
             ELSE [call |-> call,
                   applied |-> \/ pc = "clean"
                               \/ pc = "install" /\ old # Absent]

(* atomic_dir.py:1-16.  write_dir_atomic implements the atomic folder:     *)
(* whatever crash or failure interrupts it, at whatever step, the folder   *)
(* found after recovery is the one before the call or the one it asked     *)
(* for.  Not so when Unrecovered: see OldBesideTargetIsSpent.              *)
AtomicReplace == Promise!ASpec

(* atomic_dir.py:73-74, "the write never reaches the old folder's inode":  *)
(* a file of the folder in place never changes while a new one is built,   *)
(* though the two share the inodes of every file carried over.  (A chunk's *)
(* file changes by the extraction's own writes, and a loss of power can    *)
(* tear it.)                                                               *)
ReaderNeverDisturbed ==
  [][target # Absent /\ target' = target =>
       \A n \in Names : \/ View(target)'[n] = View(target)[n]
                        \/ n \in InPlace /\ (pc \in {"idle", "edit"} \/ View(target)'[n] = Torn)]_vars

(* atomic_dir.py:99-102.  Every file staged through write_dir_atomic is on *)
(* disk to its last byte in the folder recovery leaves, at every moment:   *)
(* a loss of power cannot take it.                                         *)
StagedIsSynced ==
  /\ old # Absent /\ target = Absent => tmp # Absent
  /\ Surviving # Absent =>
       \A n \in Names \ InPlace : Surviving[n] # NoInode => Surviving[n] \in synced

(* atomic_dir.py:39-41 says of the whole folder that "`.artmind-tmp` is    *)
(* only renamed after it is complete and fsynced, so it is promoted".      *)
(* False of the files carried over that were written in place.             *)
PromotedIsSynced ==
  old # Absent /\ target = Absent => tmp # Absent /\ Linked(tmp) \subseteq synced

(* atomic_dir.py:41, "a `.artmind-old` beside `target` is a crash before   *)
(* cleanup": what recover() discards then is not the only copy.  False     *)
(* when the extraction makes the missing folder before anything recovers   *)
(* it: the empty folder then passes for the new one.                       *)
OldBesideTargetIsSpent == old # Absent /\ target # Absent => tmp = Absent

-----------------------------------------------------------------------------
(***************************************************************************)
(* The inductive invariant behind both.                                    *)
(***************************************************************************)
Building == {"copy", "write", "fill", "swap"}

(* Inode i survives any crash: it is on disk, or the disk is not at risk.  *)
Durable(i) == disk[i] # Torn /\ (PowerLoss => i \in synced)
Whole(dir) == \A n \in Names \ InPlace : dir[n] # NoInode => Durable(dir[n])

(* No two names of a folder share an inode.                                *)
Apart(dir) ==
  \A m, n \in Names : m # n /\ dir[m] # NoInode => dir[m] # dir[n]

(* Name n of the folder being built stands for the same file in target.    *)
Carried(n) ==
  IF call.carry /\ target # Absent
  THEN /\ tmp[n] = NoInode <=> target[n] = NoInode
       /\ tmp[n] # NoInode => /\ n \notin InPlace => Durable(tmp[n])
                              /\ disk[tmp[n]] = disk[target[n]]
  ELSE tmp[n] = NoInode

(* Which of the three siblings exist at each point of the code.            *)
Siblings ==
  /\ old # Absent /\ target = Absent =>
       /\ pc \in {"idle", "recover", "install"}
       /\ tmp # Absent /\ Whole(tmp) /\ Apart(tmp)
  /\ pc = "rmold" => tmp = Absent
  /\ pc = "build" => tmp = Absent /\ old = Absent
  /\ pc \in Building \cup {"install"} => tmp # Absent /\ Apart(tmp)
  /\ pc \in Building \cup {"abort"} => old = Absent
  /\ pc = "copy" => target # Absent /\ call.carry
  /\ pc = "install" => target = Absent
  /\ pc = "clean" => target # Absent /\ tmp = Absent
  /\ pc = "edit" => target # Absent

(* How far the folder being built has got.                                 *)
Progress ==
  /\ pc = "copy" =>
       \A n \in Names :
         /\ IF n \in todo THEN tmp[n] = NoInode /\ target[n] # NoInode ELSE Carried(n)
         /\ HardLinks => tmp[n] \in {NoInode, target[n]}
  /\ pc \in {"write", "fill", "swap"} =>
       /\ todo \subseteq Written
       /\ \A n \in Names :
            /\ n \in Written \ todo => /\ tmp[n] # NoInode
                                       /\ Durable(tmp[n])
                                       /\ disk[tmp[n]] = call.files[n]
            /\ n \notin Written => Carried(n)
            /\ n \in todo \ opened => Carried(n)
  /\ pc = "swap" => todo = {}
  /\ pc = "install" /\ old = Absent =>
       /\ Whole(tmp)
       /\ \A n \in Names : IF n \in Written
                           THEN tmp[n] # NoInode /\ disk[tmp[n]] = call.files[n]
                           ELSE tmp[n] = NoInode

(* The file open for writing, if any, is nobody else's.                    *)
Opening ==
  /\ pc = "fill" => \E n \in todo : opened = {n}
  /\ pc = "edit" => \E n \in InPlace : opened = {n} /\ target[n] # NoInode
  /\ pc \notin {"fill", "edit"} => opened = {}
  /\ \A n \in opened : pc = "fill" => /\ tmp[n] # NoInode
                                      /\ tmp[n] \notin Linked(target)

IInv ==
  /\ TypeOK
  /\ target # Absent => Whole(target) /\ Apart(target)
  /\ Siblings
  /\ Progress
  /\ Opening
=============================================================================
