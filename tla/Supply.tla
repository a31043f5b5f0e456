------------------------------- MODULE Supply -------------------------------
(***************************************************************************)
(* What bitblocker promises of the blocklist file it serves, without       *)
(* downloads, validators, temporary files or a directory to write back:    *)
(* there is one file on disk, it is always a whole one, it is replaced in  *)
(* one step, and only what is on disk is served.  While a refresh has been *)
(* told that its month's file is missing, and only then, an older file may *)
(* take the place of a newer one.                                          *)
(***************************************************************************)
CONSTANTS
    Files,     \* the files DB-IP may publish
    Good,      \* those a trie can be built from
    Before,    \* the pairs <<f, g>> of them with f older than g
    NoFile

VARIABLES
    stored,    \* the file on disk
    kept,      \* what a power loss would leave of it
    served,    \* the file the active blocklist was built from
    missed     \* the refresh under way has met with a missing file

vars == <<stored, kept, served, missed>>

Init == stored = NoFile /\ kept = NoFile /\ served = NoFile /\ missed = FALSE

Replaces(f, g) == <<f, g>> \in Before => missed

Miss == missed' = TRUE /\ UNCHANGED <<stored, kept, served>>

GiveUp == missed' = FALSE /\ UNCHANGED <<stored, kept, served>>

Store == /\ stored' \in Files
         /\ UNCHANGED <<kept, served, missed>>
         /\ Replaces(stored', stored) /\ Replaces(stored', served)

Serve == /\ stored \in Good /\ Replaces(stored, served)
         /\ served' = stored
         /\ missed' = FALSE
         /\ UNCHANGED <<stored, kept>>

(* Only a start that serves nothing yet gives up the file it finds. *)
Discard == /\ served = NoFile
           /\ stored' = NoFile
           /\ UNCHANGED <<kept, served, missed>>

Persist == kept' = stored /\ UNCHANGED <<stored, served, missed>>

Crash == served' = NoFile /\ missed' = FALSE /\ UNCHANGED <<stored, kept>>

PowerLoss == served' = NoFile /\ missed' = FALSE /\ stored' = kept /\ UNCHANGED kept

Next == Miss \/ GiveUp \/ Store \/ Serve \/ Discard \/ Persist \/ Crash \/ PowerLoss

Spec == Init /\ [][Next]_vars
============================================================================
