------------------------------ MODULE CstServer ------------------------------
(***************************************************************************)
(* The MCP server (src/tools.rs): the tool calls that change the registry, *)
(* the disk or the watches, running beside the filesystem watcher.         *)
(*                                                                         *)
(* rmcp runs every call as a task of its own on tokio's threads, so calls  *)
(* interleave with each other, with the watcher task and with outside      *)
(* processes wherever they do not hold the registry's lock.  A handler is  *)
(* one action for each critical section, system call or watcher call, in   *)
(* the order of the code.  A request is the call of one tool, made at most *)
(* once; what its parameters can be is chosen when it starts.  The tools   *)
(* that only read one file are one action; module ServerLocks takes the    *)
(* lock and the query of all files apart.                                  *)
(***************************************************************************)
EXTENDS FileWatcher

CONSTANTS
    Tools,             \* the tools the client calls
    Denied,            \* the <<action, path>> pairs the access rules deny
    ExpectedVersions,  \* what the client passes for expected_version
    Pipeline,          \* the most calls the client has in flight
    IOFails            \* may reading, writing or removing a file that is there fail

ASSUME ServerAssumption ==
    /\ Tools \subseteq {"track", "untrack", "edit", "create", "delete_file", "save",
                        "read"}
    /\ ExpectedVersions \subseteq Nat \cup {NoVersion}
    /\ IOFails \in BOOLEAN

VARIABLES
    task,      \* the task serving each request
    detached   \* history: the files a call made differ from their disk copy

serverVars == <<watcherVars, task, detached>>

Steps ==
    {"track_store", "track_watch", "untrack_unwatch", "edit_commit",
     "save_truncate", "save_fill", "create_truncate", "create_fill",
     "create_read", "delete_untrack", "delete_unwatch", "delete_remove"}

Responses == {"ok", "error", "conflict"}

\* A task: the next step, or the response; its path; the file it has computed
\* or copied and not yet stored or written; the expected_version of an edit.
Task == [step : Steps \cup Responses \cup {"new"},
         path : Paths \cup {NoPath},
         file : {Untracked} \cup File,
         expected : ExpectedVersions \cup {NoVersion}]

NoTask(step) ==
    [step |-> step, path |-> NoPath, file |-> Untracked, expected |-> NoVersion]

InFlight == {r \in Requests : task[r].step \in Steps}

TypeOK ==
    /\ WatcherTypeOK
    /\ task \in [Requests -> Task]
    /\ detached \subseteq Paths

Init ==
    /\ WatcherInit
    /\ task = [r \in Requests |-> NoTask("new")]
    /\ detached = {}

-----------------------------------------------------------------------------
(* The parts of a handler. *)

\* Every tool checks its action on its path before it does anything else.
Called(r, tool, p) ==
    /\ tool \in Tools
    /\ task[r].step = "new"
    /\ Cardinality(InFlight) < Pipeline
    /\ <<tool, p>> \notin Denied

Await(r, step, p, file, expected) ==
    task' = [task EXCEPT ![r] =
               [step |-> step, path |-> p, file |-> file, expected |-> expected]]

At(r, step) == task[r].step = step

Goto(r, step) == task' = [task EXCEPT ![r].step = step]

Answer(r, response) == task' = [task EXCEPT ![r] = NoTask(response)]

Store(p, file) == files' = [files EXCEPT ![p] = file]

DiskUnchanged == UNCHANGED <<disk, handle, channel, external>>

Denial(r, tool, p) ==
    /\ tool \in Tools
    /\ task[r].step = "new"
    /\ Cardinality(InFlight) < Pipeline
    /\ <<tool, p>> \in Denied
    /\ Answer(r, "error")
    /\ UNCHANGED watcherVars

\* A system call of r that fails, changing nothing.
Failed(r, response) ==
    /\ IOFails
    /\ handle' = [handle EXCEPT ![r] = NoPath]
    /\ Answer(r, response)
    /\ UNCHANGED <<files, disk, watched, channel, external>>

-----------------------------------------------------------------------------
(* track_file, untrack_file *)

ReadAndParse(r, p) ==
    /\ disk[p] # Absent
    /\ Await(r, "track_store", p, Parse(disk[p]), NoVersion)
    /\ channel' = Opened(channel, p)
    /\ UNCHANGED <<files, disk, handle, watched, external>>

\* The file is not there, or it cannot be opened, or it is opened and is no UTF-8.
ReadFails(r, p, response) ==
    /\ Answer(r, response)
    /\ \/ /\ disk[p] = Absent \/ IOFails
          /\ UNCHANGED channel
       \/ /\ disk[p] # Absent /\ IOFails
          /\ channel' = Opened(channel, p)
    /\ UNCHANGED <<files, disk, handle, watched, external>>

TrackRead(r, p) ==
    /\ Called(r, "track", p)
    /\ ReadAndParse(r, p) \/ ReadFails(r, p, "error")

TrackStore(r) ==
    /\ At(r, "track_store")
    /\ Store(task[r].path, task[r].file)
    /\ Goto(r, "track_watch")
    /\ DiskUnchanged
    /\ UNCHANGED watched

\* Mutant of TrackWatch: a watch that is refused is tried again.
TrackWatchRetry(r) ==
    /\ At(r, "track_watch")
    /\ Watch(task[r].path)
    /\ IF task[r].path \in watched' THEN Answer(r, "ok") ELSE UNCHANGED task
    /\ DiskUnchanged
    /\ UNCHANGED files

\* Mutant of TrackWatch: a watch that is refused is answered in its own way.
TrackWatchWarning(r) ==
    /\ At(r, "track_watch")
    /\ Watch(task[r].path)
    /\ Answer(r, IF task[r].path \in watched' THEN "ok" ELSE "warning")
    /\ DiskUnchanged
    /\ UNCHANGED files

\* A watch that is refused is logged; the answer is "ok" all the same.
TrackWatch(r) ==
    /\ At(r, "track_watch")
    /\ Watch(task[r].path)
    /\ Answer(r, "ok")
    /\ DiskUnchanged
    /\ UNCHANGED files

\* Mutant of UntrackRemove: the watch is left behind.
UntrackOnly(r, p) ==
    /\ Called(r, "untrack", p)
    /\ Store(p, Untracked)
    /\ Answer(r, IF files[p] = Untracked THEN "error" ELSE "ok")
    /\ DiskUnchanged
    /\ UNCHANGED watched

UntrackRemove(r, p) ==
    /\ Called(r, "untrack", p)
    /\ Store(p, Untracked)
    /\ IF files[p] = Untracked
       THEN Answer(r, "error")
       ELSE Await(r, "untrack_unwatch", p, Untracked, NoVersion)
    /\ DiskUnchanged
    /\ UNCHANGED watched

UntrackUnwatch(r) ==
    /\ At(r, "untrack_unwatch")
    /\ Unwatch(task[r].path)
    /\ Answer(r, "ok")
    /\ DiskUnchanged
    /\ UNCHANGED files

-----------------------------------------------------------------------------
(* edit_node, insert_before, insert_after, insert_into, delete_node *)

\* Under the read lock.  A node id of another version of the tree may denote
\* nothing, which is an error, or any node of this one.
EditCompute(r, p, expected) ==
    /\ Called(r, "edit", p)
    /\ \/ /\ files[p] = Untracked
          /\ Answer(r, "error")
       \/ /\ files[p] # Untracked
          /\ ~CheckVersion(files[p], expected)
          /\ Answer(r, "conflict")
       \/ /\ files[p] # Untracked
          /\ CheckVersion(files[p], expected)
          /\ \/ Answer(r, "error")
             \/ /\ p \notin PlainFiles
                /\ \E draft \in Edits(files[p], r) :
                      Await(r, "edit_commit", p, draft, expected)
    /\ UNCHANGED watcherVars

\* Under the write lock, some time later.
EditCommit(r) ==
    /\ At(r, "edit_commit")
    /\ Store(task[r].path, task[r].file)
    /\ Answer(r, "ok")
    /\ DiskUnchanged
    /\ UNCHANGED watched

-----------------------------------------------------------------------------
(* save_file *)

\* Under the read lock, which is dropped before the file is written.
SaveSnapshot(r, p) ==
    /\ Called(r, "save", p)
    /\ IF files[p] = Untracked
       THEN Answer(r, "error")
       ELSE Await(r, "save_truncate", p, files[p], NoVersion)
    /\ UNCHANGED watcherVars

SaveTruncate(r) ==
    /\ At(r, "save_truncate")
    /\ \/ /\ Truncate(r, task[r].path)
          /\ Goto(r, "save_fill")
          /\ UNCHANGED <<files, watched, external>>
       \/ Failed(r, "error")

\* Mutant of SaveFill: the text is taken from the registry when it is written.
SaveLateFill(r) ==
    /\ At(r, "save_fill")
    /\ Fill(r, files[task[r].path].text)
    /\ Answer(r, "ok")
    /\ UNCHANGED <<files, watched, external>>

SaveFill(r) ==
    /\ At(r, "save_fill")
    /\ \/ /\ Fill(r, task[r].file.text)
          /\ Answer(r, "ok")
          /\ UNCHANGED <<files, watched, external>>
       \/ Failed(r, "error")

-----------------------------------------------------------------------------
(* load_file, get_node, get_tree_skeleton, get_children, query_file *)

\* Under the read lock, from lookup to answer.  A stale node id, a file without
\* grammar or a wrong query is an error.
Read(r, p) ==
    /\ Called(r, "read", p)
    /\ \/ Answer(r, "error")
       \/ /\ files[p] # Untracked
          /\ Answer(r, "ok")
    /\ UNCHANGED watcherVars

-----------------------------------------------------------------------------
(* create_file, delete_file *)

CreateCheck(r, p, content) ==
    /\ Called(r, "create", p)
    /\ IF disk[p] # Absent
       THEN Answer(r, "error")
       ELSE Await(r, "create_truncate", p, Parse(content), NoVersion)
    /\ UNCHANGED watcherVars

CreateTruncate(r) ==
    /\ At(r, "create_truncate")
    /\ \/ /\ Truncate(r, task[r].path)
          /\ Goto(r, "create_fill")
          /\ UNCHANGED <<files, watched, external>>
       \/ Failed(r, "error")

\* With track=true the handler goes on as track_file does.
CreateFill(r) ==
    /\ At(r, "create_fill")
    /\ \/ /\ Fill(r, task[r].file.text)
          /\ Answer(r, "ok") \/ Goto(r, "create_read")
          /\ UNCHANGED <<files, watched, external>>
       \/ Failed(r, "error")

\* The file is created, so failing to track it is only a warning.
CreateRead(r) ==
    /\ At(r, "create_read")
    /\ ReadAndParse(r, task[r].path) \/ ReadFails(r, task[r].path, "ok")

DeleteCheck(r, p) ==
    /\ Called(r, "delete_file", p)
    /\ IF disk[p] = Absent
       THEN Answer(r, "error")
       ELSE Await(r, "delete_untrack", p, Untracked, NoVersion)
    /\ UNCHANGED watcherVars

DeleteUntrack(r) ==
    /\ At(r, "delete_untrack")
    /\ Store(task[r].path, Untracked)
    /\ Goto(r, IF files[task[r].path] = Untracked
               THEN "delete_remove" ELSE "delete_unwatch")
    /\ DiskUnchanged
    /\ UNCHANGED watched

DeleteUnwatch(r) ==
    /\ At(r, "delete_unwatch")
    /\ Unwatch(task[r].path)
    /\ Goto(r, "delete_remove")
    /\ DiskUnchanged
    /\ UNCHANGED files

DeleteRemove(r) ==
    /\ At(r, "delete_remove")
    /\ \/ /\ disk[task[r].path] # Absent
          /\ Unlink(task[r].path, Absent)
          /\ Answer(r, "ok")
          /\ UNCHANGED <<files, external>>
       \/ /\ disk[task[r].path] = Absent
          /\ Answer(r, "error")
          /\ UNCHANGED watcherVars
       \/ Failed(r, "error")

-----------------------------------------------------------------------------
\* The client makes call r.
Call(r) ==
    \E p \in Paths :
        \/ \E tool \in Tools : Denial(r, tool, p)
        \/ TrackRead(r, p)
        \/ UntrackRemove(r, p)
        \/ \E expected \in ExpectedVersions : EditCompute(r, p, expected)
        \/ SaveSnapshot(r, p)
        \/ Read(r, p)
        \/ \E content \in {{}, {r}} : CreateCheck(r, p, content)
        \/ DeleteCheck(r, p)

\* The task of r makes its next step.
Proceed(r) ==
    \/ TrackStore(r) \/ TrackWatch(r) \/ UntrackUnwatch(r) \/ EditCommit(r)
    \/ SaveTruncate(r) \/ SaveFill(r)
    \/ CreateTruncate(r) \/ CreateFill(r) \/ CreateRead(r)
    \/ DeleteUntrack(r) \/ DeleteUnwatch(r) \/ DeleteRemove(r)

\* A file is detached when a call gives it a text that is not the one on the
\* disk, as an edit does, or when the disk changes while it is not watched, or
\* when the event of a change is spent on a reload that fails; it is no longer
\* detached once a call or a reload gives it the disk's text.
Detached ==
    {p \in Paths :
        IF files'[p] # files[p]
        THEN files'[p] # Untracked /\ files'[p].text # disk'[p]
        ELSE p \in detached \/ (disk'[p] # disk[p] /\ p \notin watched)}

\* A reload fails: its file is left as it was.
ReloadMissed ==
    /\ IOFails
    /\ ReloadFails
    /\ detached' = detached \cup {Head(channel).path}
    /\ UNCHANGED task

Idle ==
    /\ InFlight = {}
    /\ WatcherIdle
    /\ UNCHANGED task

Next ==
    \/ /\ \/ \E r \in Requests : Call(r) \/ Proceed(r)
          \/ (HandleEvent \/ ExternalStep) /\ UNCHANGED task
          \/ Idle
       /\ detached' = Detached
    \/ ReloadMissed

Spec == Init /\ [][Next]_serverVars

\* tokio runs every task that is ready: the watcher's and those of the calls.
Fairness ==
    /\ WF_serverVars(\/ HandleEvent /\ UNCHANGED task /\ detached' = Detached
                     \/ ReloadMissed)
    /\ \A r \in Requests : WF_serverVars(Proceed(r) /\ detached' = Detached)

FairSpec == Spec /\ Fairness

-----------------------------------------------------------------------------
(* The registry the server implements. *)

Drafts ==
    [r \in Requests |->
       IF At(r, "edit_commit")
       THEN [path |-> task[r].path, file |-> task[r].file]
       ELSE [path |-> NoPath, file |-> Untracked]]

Snapshots == INSTANCE SnapshotRegistry WITH drafts <- Drafts

ImplementsSnapshots == Snapshots!SnapshotSpec

-----------------------------------------------------------------------------
(* Properties *)

\* A tracked and watched file holds the disk's text, or a reload is on its
\* way, unless a call made it differ: no write of anyone is lost on the way
\* to the registry.
DetachedOrInSync ==
    \A p \in watched \ detached : InSync(p)

\* Only track_file and create_file put a path into the registry.
OnlyTrackingTracks ==
    [][\A p \in Paths :
          files[p] = Untracked /\ files'[p] # Untracked =>
              \E r \in Requests : At(r, "track_store") /\ task[r].path = p]_serverVars

\* With the client waiting for each answer, what is tracked is watched and
\* nothing else is, once a call has been answered.
WatchedIffTracked ==
    InFlight = {} => watched = {p \in Paths : files[p] # Untracked}

\* The watcher never drops or adds a file, and never lowers a version.
ReloadOnlyAdvances ==
    [][UNCHANGED task =>
         \A p \in Paths :
             /\ files[p] = Untracked <=> files'[p] = Untracked
             /\ files[p] # Untracked => files'[p].version >= files[p].version]_serverVars

\* A save that answers "ok" leaves the file's text on the disk, as it was in
\* the registry when the save began; at most text that an outside process
\* writes at the same moment is mixed with it.
SaveIsLossless ==
    [][\A r \in Requests :
          At(r, "save_fill") /\ task'[r].step = "ok" =>
              LET text == task[r].file.text
                  saved == disk'[task[r].path]
              IN text \subseteq saved /\ saved \ text \subseteq ExternalWrites]_serverVars

\* With the client waiting for each answer, an edit is stored over the file it
\* is an edit of, or over a reload of it, whose text the disk has, or will have
\* given the registry by a later reload: none of the client's own edits is ever
\* overwritten, and of the others' writes none that is not on the disk.
OnlyReloadsAreOverwritten ==
    [][\A r \in Requests :
          At(r, "edit_commit") /\ ~At(r, "edit_commit")' =>
              LET p == task[r].path IN
              /\ files[p] # Untracked
              /\ task[r].file \in Edits(files[p], r) \/ InSync(p)]_serverVars

\* The version counter of a tracked file only rises.
VersionsOnlyRise ==
    [][\A p \in Paths :
          files[p] # Untracked /\ files'[p] # Untracked =>
              files'[p].version >= files[p].version]_serverVars

\* An edit that names a version is only applied to that version.
GuardedEditsDetectConflicts ==
    [][\A r \in Requests :
          /\ At(r, "edit_commit") /\ ~At(r, "edit_commit")'
          /\ task[r].expected # NoVersion
          => LET p == task[r].path IN
             files[p] # Untracked /\ files[p].version = task[r].expected]_serverVars

\* The registry's text changes by calls only, when no other process writes.
OnlyCallsChangeTexts ==
    [][UNCHANGED task =>
         \A p \in Paths :
             files[p] # Untracked => files'[p].text = files[p].text]_serverVars

\* Every call is answered.
Answered == \A r \in Requests : r \in InFlight ~> task[r].step \in Responses

\* Once calls and outside processes stop, a tracked and watched file holds
\* the disk's text unless a call made it differ.
Settles ==
    \A p \in Paths :
        <>[](p \in watched \ detached /\ files[p] # Untracked =>
                files[p].text = disk[p])
=============================================================================
