------------------------------ MODULE CstClient ------------------------------
(***************************************************************************)
(* The server and what its client goes by: the versions it was answered,   *)
(* which it passes back as expected_version.  load_file, get_node, the     *)
(* skeletons, the children and the queries answer with the version of the  *)
(* file they read, an edit with the version it makes (src/tools.rs); the   *)
(* version means nothing but a text the client has reason to believe in.   *)
(***************************************************************************)
EXTENDS CstServer

VARIABLE seen   \* the <<path, file>> pairs the client was answered and keeps

clientVars == <<serverVars, seen>>

ClientInit ==
    /\ Init
    /\ seen = {}

ClientRead(r, p) ==
    /\ Read(r, p)
    /\ At(r, "ok")'
    /\ seen' = seen \cup {<<p, files[p]>>}

ClientEdit(r) ==
    /\ EditCommit(r)
    /\ seen' = seen \cup {<<task[r].path, task[r].file>>}

\* Tracking a file starts a new count, and what was known of it is void.
ClientTrack(r) ==
    /\ TrackStore(r)
    /\ seen' = {s \in seen : s[1] # task[r].path}

ClientNext ==
    \/ \E r \in Requests :
          /\ (\E p \in Paths : ClientRead(r, p)) \/ ClientEdit(r) \/ ClientTrack(r)
          /\ detached' = Detached
    \/ /\ Next
       /\ \A r \in Requests : ~At(r, "track_store") \/ UNCHANGED task[r]
       /\ UNCHANGED seen

ClientSpec == ClientInit /\ [][ClientNext]_clientVars

-----------------------------------------------------------------------------
(* Properties *)

\* With the client waiting for each answer, a version it was given is enough
\* to know the text by, until it tracks the file again: while the registry has
\* the file at that version, its text is the one that was read or made then,
\* whatever reloads came since and whatever they were overwritten by.
GivenVersionsNameTexts ==
    \A s \in seen :
        LET file == files[s[1]] IN
        file # Untracked /\ file.version = s[2].version => file.text = s[2].text
==============================================================================
