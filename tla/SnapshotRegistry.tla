--------------------------- MODULE SnapshotRegistry ---------------------------
(***************************************************************************)
(* What the registry is: a map from paths to files in which an edit works  *)
(* on a snapshot of the file and puts the result back later, whatever has  *)
(* happened to the path since.  Still, nothing enters it but a text from   *)
(* the disk at version 0, the next version of the file it replaces, or one *)
(* edit of a file that was in the registry at that very path.  Tracking    *)
(* and reloading give a file any text, for what is on the disk is not the  *)
(* registry's to say.                                                      *)
(***************************************************************************)
EXTENDS CstFile

CONSTANTS
    Untracked,   \* files[p] when p is not in the registry
    Tracked,     \* the paths tracked at first
    NoPath       \* the path of a draft that there is not

VARIABLES
    files,    \* the registry: a File, or Untracked, for each path
    drafts    \* the edit each request has computed and not yet stored

NoDraft == [path |-> NoPath, file |-> Untracked]

RegistryInit ==
    files = [p \in Paths |->
               IF p \in Tracked THEN Parse({Original}) ELSE Untracked]

SnapshotInit ==
    /\ RegistryInit
    /\ drafts = [r \in Requests |-> NoDraft]

Put(p, file) == files' = [files EXCEPT ![p] = file]

Track(p) == \E text \in Text : Put(p, Parse(text))

Untrack(p) == Put(p, Untracked)

Reload(p) ==
    /\ files[p] # Untracked
    /\ \E text \in Text : Put(p, NextVersion(files[p], text))

Compute(r, p) ==
    /\ drafts[r] = NoDraft
    /\ files[p] # Untracked
    /\ \E edited \in Edits(files[p], r) :
          drafts' = [drafts EXCEPT ![r] = [path |-> p, file |-> edited]]
    /\ UNCHANGED files

Commit(r) ==
    /\ drafts[r] # NoDraft
    /\ Put(drafts[r].path, drafts[r].file)
    /\ drafts' = [drafts EXCEPT ![r] = NoDraft]

SnapshotNext ==
    \E p \in Paths :
        \/ (Track(p) \/ Untrack(p) \/ Reload(p)) /\ UNCHANGED drafts
        \/ \E r \in Requests : Compute(r, p) \/ Commit(r)

SnapshotSpec == SnapshotInit /\ [][SnapshotNext]_<<files, drafts>>
===============================================================================
