---------------------------- MODULE AtomicFolder ----------------------------
(***************************************************************************)
(* What artmind/atomic_dir.py promises its callers about one folder (a     *)
(* staging folder, a saved view): write_dir_atomic replaces the folder's   *)
(* content in one indivisible step, at some moment between the call and    *)
(* its return; a call that raises has replaced nothing; a process that     *)
(* dies leaves the old content or the new, never a mixture and never       *)
(* neither.  Between calls an extraction keeps its chunk cache in the same *)
(* folder and writes those files in place: they alone may be torn.         *)
(***************************************************************************)
CONSTANTS
  Names,     \* names of the files a folder may hold
  Values,    \* file contents
  NoFile,    \* "the folder has no file of this name"
  Absent,    \* the folder does not exist
  NoCall,    \* no call is running
  InPlace,   \* names written in place, between calls
  Torn       \* content cut off by a death or a loss of power

(* A call names the files it writes (NoFile: not one of the call's files)  *)
(* and whether every other file is carried over.                           *)
Calls == [files : [Names -> Values \cup {NoFile}], carry : BOOLEAN]

VARIABLES
  content,   \* what a caller that looks now would find, once recovered
  running    \* the call in progress and whether it has taken effect

avars == <<content, running>>

Init == content = Absent /\ running = NoCall

(* The folder a call is to leave behind, given the one it found.           *)
Replaced(c, found) ==
  [n \in Names |-> IF c.files[n] # NoFile THEN c.files[n]
                   ELSE IF c.carry /\ found # Absent THEN found[n]
                   ELSE NoFile]

Begin ==
  /\ running = NoCall
  /\ \E c \in Calls : running' = [call |-> c, applied |-> FALSE]
  /\ UNCHANGED content

Apply ==
  /\ running # NoCall
  /\ ~running.applied
  /\ content' = Replaced(running.call, content)
  /\ running' = [call |-> running.call, applied |-> TRUE]

Return ==
  /\ running # NoCall
  /\ running.applied
  /\ running' = NoCall
  /\ UNCHANGED content

Raise ==
  /\ running # NoCall
  /\ ~running.applied
  /\ running' = NoCall
  /\ UNCHANGED content

(* What a loss of power may leave of a folder.                             *)
MayTear(found) ==
  IF found = Absent THEN {Absent}
  ELSE {[n \in Names |-> IF n \in lost /\ found[n] # NoFile THEN Torn ELSE found[n]] :
          lost \in SUBSET InPlace}

Die ==
  /\ content' \in MayTear(content)
  /\ running' = NoCall

Make ==
  /\ running = NoCall
  /\ content = Absent
  /\ content' = [n \in Names |-> NoFile]
  /\ UNCHANGED running

Edit(n) ==
  /\ running = NoCall
  /\ content # Absent
  /\ \E v \in Values \cup {Torn} : content' = [content EXCEPT ![n] = v]
  /\ UNCHANGED running

Next ==
  \/ Begin \/ Apply \/ Return \/ Raise \/ Die
  \/ Make
  \/ \E n \in InPlace : Edit(n)

ASpec == Init /\ [][Next]_avars
=============================================================================
