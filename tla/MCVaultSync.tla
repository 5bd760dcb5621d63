---------------------------- MODULE MCVaultSync ----------------------------
EXTENDS VaultSync, TLC

CONSTANTS a, b, one, other, note, oldName, newName, alice, bob

Alone == (a :> one)
Shared == (a :> one) @@ (b :> one)
Apart == (a :> one) @@ (b :> other)

(* The two names of one note, in a domain each: a --domain run sees one.   *)
Renames == (oldName :> note) @@ (newName :> note)
WholeVault == {Folders}
ByDomain == {Folders, {newName}}

(* Version 2 of the note renames the entity that version 1 speaks of.      *)
Versions == note :> <<{alice}, {bob}>>
=============================================================================
