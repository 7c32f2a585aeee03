----------------------------- MODULE FileWatcher -----------------------------
(***************************************************************************)
(* The filesystem watcher (src/watcher.rs) between the disk and the        *)
(* registry of tracked files (src/state.rs).                               *)
(*                                                                         *)
(* The operating system and the notify crate are modelled from how the     *)
(* server uses them, on Linux: a write is two system calls, the file being *)
(* empty in between; a watch belongs to the inode, so it dies when the     *)
(* file is removed or replaced; events are delivered in order through the  *)
(* unbounded channel.  The watcher task takes an event and, holding the    *)
(* registry's write lock, re-reads the file as it is on disk by then.      *)
(*                                                                         *)
(* Specification WatcherSpec is the watcher with outside processes only,   *)
(* while every reload can read its file; module WatcherFaults adds the     *)
(* reloads that fail and the events that are lost, module CstServer the    *)
(* tool calls and the reloads that fail.                                   *)
(***************************************************************************)
EXTENDS CstFile, Sequences, FiniteSets

CONSTANTS
    Untracked,       \* files[p] when p is not in the registry
    Absent,          \* disk[p] when there is no file at p
    NoPath,          \* handle[w] when w has no file open
    Existing,        \* the paths that exist at first
    Tracked,         \* the paths already tracked and watched at first
    ExternalOps,     \* what outside processes do: "write", "remove", "replace"
    ReportsOpens,    \* does the backend report a file being opened (inotify)
    WatchLimit,      \* the most watches the system grants
    MaxVersion       \* bound: a reload needs a version below it

Writers == Requests \cup ExternalWrites

EventKind == {"modify", "create", "access", "remove"}

Event == [path : Paths, kind : EventKind]

ASSUME ConstantsAssumption ==
    /\ Untracked \notin File
    /\ \A text \in Text : text # Absent
    /\ NoPath \notin Paths
    /\ Tracked \subseteq Existing
    /\ Existing \subseteq Paths
    /\ ExternalOps \subseteq {"write", "remove", "replace"}
    /\ ReportsOpens \in BOOLEAN

VARIABLES
    files,     \* the registry: a File, or Untracked, for each path
    disk,      \* the content of each path, or Absent
    handle,    \* the path each writer has open between truncating and writing
    watched,   \* the paths with a live watch
    channel,   \* the events sent and not yet handled, oldest first
    external   \* how far each outside operation is: "new", "open" or "done"

watcherVars == <<files, disk, handle, watched, channel, external>>

WatcherTypeOK ==
    /\ files \in [Paths -> File \cup {Untracked}]
    /\ disk \in [Paths -> {Absent} \cup Text]
    /\ handle \in [Writers -> Paths \cup {NoPath}]
    /\ watched \subseteq Paths
    /\ channel \in Seq(Event)
    /\ external \in [ExternalWrites -> {"new", "open", "done"}]

WatcherInit ==
    /\ files = [p \in Paths |->
                  IF p \in Tracked THEN Parse({Original}) ELSE Untracked]
    /\ disk = [p \in Paths |-> IF p \in Existing THEN {Original} ELSE Absent]
    /\ handle = [w \in Writers |-> NoPath]
    /\ watched = Tracked
    /\ channel = <<>>
    /\ external = [x \in ExternalWrites |-> "new"]

-----------------------------------------------------------------------------
(* The disk and the notify backend. *)

\* The queue after an event about p, which is sent only if p is watched.
Sent(queue, p, kind) ==
    IF p \in watched THEN Append(queue, [path |-> p, kind |-> kind]) ELSE queue

Modified(p) == channel' = Sent(channel, p, "modify")

Opened(queue, p) == IF ReportsOpens THEN Sent(queue, p, "access") ELSE queue

\* Writer w opens p for std::fs::write: it is created, or emptied.
Truncate(w, p) ==
    /\ disk' = [disk EXCEPT ![p] = {}]
    /\ handle' = [handle EXCEPT ![w] = p]
    /\ Modified(p)

\* Writer w writes its text and closes.  What another writer put there since
\* the truncation stays visible beyond the end of this text.  The text of a
\* file removed meanwhile is lost, and an empty text changes nothing.
Fill(w, text) ==
    /\ handle' = [handle EXCEPT ![w] = NoPath]
    /\ \/ /\ handle[w] = NoPath \/ text = {}
          /\ UNCHANGED <<disk, channel>>
       \/ /\ handle[w] # NoPath /\ text # {}
          /\ \E tail \in SUBSET disk[handle[w]] :
                disk' = [disk EXCEPT ![handle[w]] = text \cup tail]
          /\ Modified(handle[w])

\* The inode at p goes: its watch and the handles on it go with it.
Unlink(p, content) ==
    /\ disk' = [disk EXCEPT ![p] = content]
    /\ handle' = [w \in Writers |-> IF handle[w] = p THEN NoPath ELSE handle[w]]
    /\ watched' = watched \ {p}
    /\ channel' = Sent(Sent(channel, p, "modify"), p, "remove")

\* watch_path: refused when there is no file, or no watch left.
Watch(p) ==
    watched' = IF /\ disk[p] # Absent
                  /\ p \in watched \/ Cardinality(watched) < WatchLimit
                 THEN watched \cup {p}
                 ELSE watched

\* unwatch_path: an error, and no effect, when p is not watched.
Unwatch(p) == watched' = watched \ {p}

-----------------------------------------------------------------------------
(* The watcher task. *)

\* Mutants of ReloadKinds: in-place writes are filtered out; opens are not.
CreateOnly == {"create"}
AccessToo == {"modify", "create", "access"}

\* The event kinds handle_event lets through.
ReloadKinds == {"modify", "create"}

\* Mutant of ReloadFile: a file that has been changed since is kept.
ReloadUnedited(p) ==
    /\ channel' = Tail(channel)
    /\ files' = IF files[p] # Untracked /\ disk[p] # Absent /\ files[p].version = 0
                THEN [files EXCEPT ![p] = NextVersion(@, disk[p])]
                ELSE files

\* Mutant of ReloadFile: the version set by parsing is not corrected.
ReloadReset(p) ==
    /\ channel' = Tail(channel)
    /\ files' = IF files[p] # Untracked /\ disk[p] # Absent
                THEN [files EXCEPT ![p] = Parse(disk[p])]
                ELSE files

\* Mutant of ReloadFile: the version of the old file is carried over as it is.
ReloadSameVersion(p) ==
    /\ channel' = Tail(channel)
    /\ files' = IF files[p] # Untracked /\ disk[p] # Absent
                THEN [files EXCEPT ![p].text = disk[p]]
                ELSE files

\* Mutant of ReloadFile: whether the file is tracked is not looked up.
ReloadUnchecked(p) ==
    /\ channel' = Tail(channel)
    /\ files' = IF disk[p] # Absent
                THEN [files EXCEPT ![p] = IF @ = Untracked THEN Parse(disk[p])
                                          ELSE NextVersion(@, disk[p])]
                ELSE files

\* reload_file, under the registry's write lock.
ReloadFile(p) ==
    \/ /\ files[p] = Untracked \/ disk[p] = Absent
       /\ UNCHANGED files
       /\ channel' = Tail(channel)
    \/ /\ files[p] # Untracked
       /\ disk[p] # Absent
       /\ files[p].version < MaxVersion
       /\ files' = [files EXCEPT ![p] = NextVersion(@, disk[p])]
       /\ channel' = Opened(Tail(channel), p)

\* reload_file when read_to_string fails on a file that is there, before or after
\* it has opened it (no permission, or a text that is not UTF-8): the error is
\* logged, the old file is kept, and the event is spent.
ReloadFails ==
    /\ channel # <<>>
    /\ LET p == Head(channel).path IN
       /\ Head(channel).kind \in ReloadKinds
       /\ files[p] # Untracked
       /\ disk[p] # Absent
       /\ channel' \in {Tail(channel), Opened(Tail(channel), p)}
    /\ UNCHANGED <<files, disk, handle, watched, external>>

HandleEvent ==
    /\ channel # <<>>
    /\ \/ /\ Head(channel).kind \in ReloadKinds
          /\ ReloadFile(Head(channel).path)
       \/ /\ Head(channel).kind \notin ReloadKinds
          /\ channel' = Tail(channel)
          /\ UNCHANGED files
    /\ UNCHANGED <<disk, handle, watched, external>>

-----------------------------------------------------------------------------
(* Outside processes: an in-place write, a removal, a replacement by rename. *)

Outside(x, op, next) ==
    /\ op \in ExternalOps
    /\ external[x] = "new"
    /\ external' = [external EXCEPT ![x] = next]
    /\ UNCHANGED files

ExternalTruncate(x, p) ==
    /\ Outside(x, "write", "open")
    /\ Truncate(x, p)
    /\ UNCHANGED watched

ExternalFill(x) ==
    /\ external[x] = "open"
    /\ external' = [external EXCEPT ![x] = "done"]
    /\ Fill(x, {x})
    /\ UNCHANGED <<files, watched>>

ExternalRemove(x, p) ==
    /\ disk[p] # Absent
    /\ Outside(x, "remove", "done")
    /\ Unlink(p, Absent)

ExternalReplace(x, p) ==
    /\ disk[p] # Absent
    /\ Outside(x, "replace", "done")
    /\ Unlink(p, {x})

ExternalStep ==
    \E x \in ExternalWrites :
        \/ \E p \in Paths : \/ ExternalTruncate(x, p)
                            \/ ExternalRemove(x, p)
                            \/ ExternalReplace(x, p)
        \/ ExternalFill(x)

\* Nothing to do, or a file at the bound: stutter, so that any other state
\* without a successor is a deadlock.
AtBound == \E p \in Paths : files[p] # Untracked /\ files[p].version >= MaxVersion

WatcherIdle ==
    /\ \/ AtBound
       \/ /\ channel = <<>>
          /\ \A x \in ExternalWrites : external[x] # "open"
    /\ UNCHANGED watcherVars

WatcherNext == HandleEvent \/ ExternalStep \/ WatcherIdle

WatcherSpec == WatcherInit /\ [][WatcherNext]_watcherVars

-----------------------------------------------------------------------------
(* Properties *)

Announces(queue, p) ==
    \E i \in 1..Len(queue) : queue[i].path = p /\ queue[i].kind \in ReloadKinds

\* A reload of p is still to come.
Pending(p) == Announces(channel, p)

\* The registry holds p as it is on the disk, half-written or not, or a reload
\* that will read it is on its way.
InSync(p) == files[p] # Untracked => (files[p].text = disk[p] \/ Pending(p))

\* No change of a watched file is ever missed, whatever order the writes, the
\* removals and the handling of their events come in (reload_file reads the
\* disk when it handles an event, not when the event was sent).
WatchedInSync == \A p \in watched : InSync(p)

\* Only an existing file is watched or open, so a write that creates a file
\* cannot be seen by the watcher.
WatchOnExisting ==
    /\ \A p \in watched : disk[p] # Absent
    /\ \A w \in Writers : handle[w] # NoPath => disk[handle[w]] # Absent

\* The reads of the watcher itself do not keep it busy: opening a file is an
\* event too on Linux, and it must not lead to the next reload.
ChannelDrains == <>[](channel = <<>>)
=============================================================================
