--------------------------- MODULE CstServer_proofs ---------------------------
(***************************************************************************)
(* Proofs about CstServer: its type correctness, and that a tracked file   *)
(* differs from the disk only where a call made it differ, for any paths,  *)
(* any number of calls in flight and any outside processes.                *)
(*                                                                         *)
(* DetachedOrInSync speaks of watched files only, and a file may come to   *)
(* be watched long after it was stored; Followed, which is inductive with  *)
(* the types, speaks of every path that exists.                            *)
(***************************************************************************)
EXTENDS CstServer, FileWatcher_proofs

\* The steps of a handler that holds a file to store or to write.
FileSteps ==
    {"track_store", "edit_commit", "save_truncate", "save_fill",
     "create_truncate", "create_fill"}

TaskShape ==
    \A r \in Requests :
        /\ task[r].step \in Steps => task[r].path \in Paths
        /\ task[r].step \in FileSteps => task[r].file \in File
        /\ At(r, "track_store") => task[r].file.version = 0

Followed == \A p \in Paths \ detached : disk[p] # Absent => InSync(p)

ServerInv ==
    /\ TypeOK
    /\ TaskShape
    /\ WatchOnExisting
    /\ Followed

-----------------------------------------------------------------------------
(* Files. *)

\* Parsing a text gives a file.
LEMMA ParseType == ASSUME NEW text \in Text PROVE Parse(text) \in File
BY DEF Parse, ParseWithVersion, File

\* Every edit of a file is a file.
LEMMA EditsType ==
    ASSUME NEW f \in File, NEW r \in Requests, NEW draft \in Edits(f, r)
    PROVE  draft \in File
<1>1. f.text \in Text /\ f.version + 1 \in Nat
  BY DEF File
<1>2. r \in Marks
  BY DEF Marks
<1>3. \A text \in Text : NextVersion(f, text) \in File
  BY <1>1 DEF NextVersion, ParseWithVersion, File
<1>4. \A span : Splice(f.text, span, {r}) \in Text /\ Splice(f.text, span, {}) \in Text
  BY <1>1, <1>2 DEF Splice, Text
<1> QED
  BY <1>3, <1>4 DEF Edits, ReplaceNode, InsertText, DeleteNode

-----------------------------------------------------------------------------
(* Tasks. *)

TasksOK == task \in [Requests -> Task] /\ TaskShape

\* A task that goes on with a path, and a file where its next step needs one.
LEMMA AwaitLemma ==
    ASSUME TasksOK, NEW r \in Requests, NEW step \in Steps, NEW p \in Paths,
           NEW file \in {Untracked} \cup File,
           NEW expected \in ExpectedVersions \cup {NoVersion},
           step \in FileSteps => file \in File,
           step = "track_store" => file.version = 0,
           Await(r, step, p, file, expected)
    PROVE  TasksOK'
<1>1. [step |-> step, path |-> p, file |-> file, expected |-> expected] \in Task
  BY DEF Task
<1> QED
  BY <1>1 DEF TasksOK, TaskShape, Await, At

\* A task that goes on with what it has.
LEMMA GotoLemma ==
    ASSUME TasksOK, NEW r \in Requests, NEW step \in Steps,
           task[r].step \in Steps,
           step \in FileSteps => task[r].step \in FileSteps,
           step # "track_store",
           Goto(r, step)
    PROVE  TasksOK'
<1>1. [task[r] EXCEPT !.step = step] \in Task
  BY DEF TasksOK, Task
<1>2. task' = [task EXCEPT ![r] = [task[r] EXCEPT !.step = step]]
  BY DEF Goto
<1>3. TaskShape'
  <2> SUFFICES ASSUME NEW q \in Requests
               PROVE  /\ task'[q].step \in Steps => task'[q].path \in Paths
                      /\ task'[q].step \in FileSteps => task'[q].file \in File
                      /\ task'[q].step = "track_store" => task'[q].file.version = 0
    BY DEF TaskShape, At
  <2>1. CASE q = r
    <3>1. /\ task'[q].step = step
          /\ task'[q].path = task[r].path
          /\ task'[q].file = task[r].file
      BY <1>2, <2>1 DEF TasksOK, Task
    <3> QED
      BY <3>1 DEF TasksOK, TaskShape
  <2>2. CASE q # r
    BY <1>2, <2>2 DEF TasksOK, TaskShape, At
  <2> QED
    BY <2>1, <2>2
<1> QED
  BY <1>1, <1>2, <1>3 DEF TasksOK

\* A task that answers.
LEMMA AnswerLemma ==
    ASSUME TasksOK, NEW r \in Requests, NEW response \in Responses,
           Answer(r, response)
    PROVE  TasksOK'
<1>1. NoTask(response) \in Task
  BY DEF NoTask, Task
<1>2. /\ NoTask(response).step \notin Steps
      /\ FileSteps \subseteq Steps /\ "track_store" \in Steps
  BY DEF NoTask, Responses, Steps, FileSteps
<1> QED
  BY <1>1, <1>2 DEF TasksOK, TaskShape, Answer, At

-----------------------------------------------------------------------------
(* Steps of the server. *)

\* Whatever is stored is recorded as detached unless it is the disk's text, so
\* only the files a step leaves alone need an argument.
LEMMA FollowedStep ==
    ASSUME Followed, WatchOnExisting, detached' = Detached,
           \A q \in Paths :
               /\ files'[q] = files[q]
               /\ InSync(q)
               /\ disk[q] # Absent
               /\ q \in watched \/ disk'[q] = disk[q]
               => InSync(q)'
    PROVE  Followed'
<1> SUFFICES ASSUME NEW q \in Paths \ detached', disk'[q] # Absent
             PROVE  InSync(q)'
  BY DEF Followed
<1>1. CASE files'[q] # files[q]
  <2>1. ~(files'[q] # Untracked /\ files'[q].text # disk'[q])
    BY <1>1 DEF Detached
  <2> QED
    BY <2>1 DEF InSync
<1>2. CASE files'[q] = files[q]
  <2>1. q \notin detached /\ (disk'[q] = disk[q] \/ q \in watched)
    BY <1>2 DEF Detached
  <2>2. disk[q] # Absent
    BY <2>1 DEF WatchOnExisting
  <2>3. InSync(q)
    BY <2>1, <2>2 DEF Followed
  <2> QED
    BY <1>2, <2>1, <2>2, <2>3
<1> QED
  BY <1>1, <1>2

\* A step that leaves the disk alone: it may store a file, change the watches
\* of existing files, and have an event sent.
LEMMA QuietStep ==
    ASSUME ServerInv, TasksOK', detached' = Detached,
           UNCHANGED <<disk, handle, external>>,
           files' \in [Paths -> File \cup {Untracked}],
           channel' \in Seq(Event),
           \A q \in Paths : Pending(q) => Pending(q)',
           watched' \subseteq Paths,
           \A q \in watched' : disk[q] # Absent
    PROVE  ServerInv'
<1> USE DEF ServerInv, TypeOK
<1>1. WatcherTypeOK'
  BY DEF WatcherTypeOK
<1>2. WatchOnExisting'
  BY DEF WatchOnExisting
<1>3. \A q \in Paths : files'[q] = files[q] /\ InSync(q) => InSync(q)'
  BY DEF InSync
<1>4. Followed'
  BY <1>3, FollowedStep
<1>5. detached' \subseteq Paths
  BY DEF Detached
<1> QED
  BY <1>1, <1>2, <1>4, <1>5 DEF TasksOK

\* A step of the disk, by anyone.
LEMMA DiskStep ==
    ASSUME ServerInv, TasksOK', detached' = Detached,
           UNCHANGED files,
           watched' \subseteq watched,
           disk' \in [Paths -> {Absent} \cup Text],
           handle' \in [Writers -> Paths \cup {NoPath}],
           channel' \in Seq(Event),
           external' \in [ExternalWrites -> {"new", "open", "done"}],
           WatchOnExisting', Kept
    PROVE  ServerInv'
<1> USE DEF ServerInv, TypeOK
<1>1. WatcherTypeOK'
  BY DEF WatcherTypeOK
<1>2. Followed'
  BY FollowedStep DEF Kept
<1>3. detached' \subseteq Paths
  BY DEF Detached
<1> QED
  BY <1>1, <1>2, <1>3 DEF TasksOK

\* A step that touches nothing but its task.
LEMMA IdleStep ==
    ASSUME ServerInv, TasksOK', detached' = Detached, UNCHANGED watcherVars
    PROVE  ServerInv'
<1>1. \A q \in Paths : Pending(q) => Pending(q)'
  BY DEF watcherVars, Pending
<1>2. \A q \in watched : disk[q] # Absent
  BY DEF ServerInv, WatchOnExisting
<1> QED
  BY <1>1, <1>2, QuietStep
     DEF watcherVars, ServerInv, TypeOK, WatcherTypeOK

\* A step that stores a file, or removes one, in the registry.
LEMMA StoreStep ==
    ASSUME ServerInv, TasksOK', detached' = Detached,
           NEW p \in Paths, NEW file \in {Untracked} \cup File,
           Store(p, file), DiskUnchanged, UNCHANGED watched
    PROVE  ServerInv'
<1>1. files' \in [Paths -> File \cup {Untracked}]
  BY DEF Store, ServerInv, TypeOK, WatcherTypeOK
<1>2. \A q \in Paths : Pending(q) => Pending(q)'
  BY DEF DiskUnchanged, Pending
<1>3. \A q \in watched : disk[q] # Absent
  BY DEF ServerInv, WatchOnExisting
<1> QED
  BY <1>1, <1>2, <1>3, QuietStep
     DEF DiskUnchanged, ServerInv, TypeOK, WatcherTypeOK

\* A step that adds or removes a watch.
LEMMA WatchStep ==
    ASSUME ServerInv, TasksOK', detached' = Detached,
           NEW p \in Paths, Watch(p) \/ Unwatch(p),
           DiskUnchanged, UNCHANGED files
    PROVE  ServerInv'
<1>1. watched' \subseteq Paths /\ \A q \in watched' : disk[q] # Absent
  BY DEF Watch, Unwatch, ServerInv, TypeOK, WatcherTypeOK, WatchOnExisting
<1>2. \A q \in Paths : Pending(q) => Pending(q)'
  BY DEF DiskUnchanged, Pending
<1> QED
  BY <1>1, <1>2, QuietStep
     DEF DiskUnchanged, ServerInv, TypeOK, WatcherTypeOK

\* Reading a file to track it.
LEMMA ReadStep ==
    ASSUME ServerInv, detached' = Detached,
           NEW r \in Requests, NEW p \in Paths, ReadAndParse(r, p)
    PROVE  ServerInv'
<1> USE DEF ServerInv, TypeOK, WatcherTypeOK
<1>1. Parse(disk[p]) \in File /\ Parse(disk[p]).version = 0
  BY ParseType DEF ReadAndParse, Parse, ParseWithVersion
<1>2. "track_store" \in Steps
  BY DEF Steps
<1>3. TasksOK'
  BY <1>1, <1>2, AwaitLemma DEF ReadAndParse, TasksOK
<1>4. "access" \in EventKind
  BY DEF EventKind
<1>5. channel' \in Seq(Event)
  BY <1>4, SentType DEF ReadAndParse, Opened
<1>6. \A q \in Paths : Pending(q) => Pending(q)'
  BY <1>4, SentKeeps DEF ReadAndParse, Opened, Pending
<1>7. \A q \in watched : disk[q] # Absent
  BY DEF WatchOnExisting
<1>8. UNCHANGED <<files, disk, handle, watched, external>>
  BY DEF ReadAndParse
<1> QED
  BY <1>3, <1>5, <1>6, <1>7, <1>8, QuietStep

\* Reading a file to track it, in vain.
LEMMA ReadFailsStep ==
    ASSUME ServerInv, TasksOK', detached' = Detached,
           NEW r \in Requests, NEW p \in Paths, NEW response,
           ReadFails(r, p, response)
    PROVE  ServerInv'
<1> USE DEF ServerInv, TypeOK, WatcherTypeOK
<1>1. "access" \in EventKind
  BY DEF EventKind
<1>2. channel' \in Seq(Event)
  BY <1>1, SentType DEF ReadFails, Opened
<1>3. \A q \in Paths : Pending(q) => Pending(q)'
  BY <1>1, SentKeeps DEF ReadFails, Opened, Pending
<1>4. \A q \in watched : disk[q] # Absent
  BY DEF WatchOnExisting
<1>5. UNCHANGED <<files, disk, handle, watched, external>>
  BY DEF ReadFails
<1> QED
  BY <1>2, <1>3, <1>4, <1>5, QuietStep

\* A system call that fails.
LEMMA FailedStep ==
    ASSUME ServerInv, detached' = Detached,
           NEW r \in Requests, Failed(r, "error")
    PROVE  ServerInv'
<1> USE DEF ServerInv, TypeOK, WatcherTypeOK
<1>1. "error" \in Responses
  BY DEF Responses
<1>2. TasksOK'
  BY <1>1, AnswerLemma DEF Failed, TasksOK
<1>3. handle' \in [Writers -> Paths \cup {NoPath}]
  BY DEF Failed
<1>4. WatchOnExisting'
  <2>1. \A w \in Writers : handle'[w] # NoPath => handle'[w] = handle[w]
    BY DEF Failed
  <2> QED
    BY <2>1 DEF Failed, WatchOnExisting
<1>5. Kept
  BY DEF Failed, Kept, InSync, Pending
<1> QED
  BY <1>2, <1>3, <1>4, <1>5, DiskStep DEF Failed

-----------------------------------------------------------------------------
(* Calls and handlers. *)

\* The first step of a handler.
LEMMA CallInv ==
    ASSUME ServerInv, detached' = Detached, NEW r \in Requests, Call(r)
    PROVE  ServerInv'
<1> USE DEF ServerInv, TypeOK
<1>1. TasksOK
  BY DEF TasksOK
<1>2. "error" \in Responses /\ "conflict" \in Responses
  BY DEF Responses
<1>3. ASSUME NEW response \in Responses, Answer(r, response),
             UNCHANGED watcherVars
      PROVE  ServerInv'
  BY <1>1, <1>3, AnswerLemma, IdleStep
<1>4. ASSUME NEW step \in Steps, NEW p \in Paths,
             NEW file \in {Untracked} \cup File,
             NEW expected \in ExpectedVersions \cup {NoVersion},
             step \in FileSteps => file \in File,
             step # "track_store",
             Await(r, step, p, file, expected)
      PROVE  TasksOK'
  BY <1>1, <1>4, AwaitLemma
<1>5. ASSUME NEW p \in Paths, NEW tool \in Tools, Denial(r, tool, p)
      PROVE  ServerInv'
  BY <1>2, <1>3, <1>5 DEF Denial
<1>6. ASSUME NEW p \in Paths, TrackRead(r, p)
      PROVE  ServerInv'
  <2>1. CASE ReadFails(r, p, "error")
    <3>1. TasksOK'
      BY <1>1, <1>2, <2>1, AnswerLemma DEF ReadFails
    <3> QED
      BY <2>1, <3>1, ReadFailsStep
  <2> QED
    BY <1>6, <2>1, ReadStep DEF TrackRead
<1>7. ASSUME NEW p \in Paths, UntrackRemove(r, p)
      PROVE  ServerInv'
  <2>1. CASE Answer(r, "error")
    BY <1>1, <1>2, <1>7, <2>1, AnswerLemma, StoreStep DEF UntrackRemove
  <2>2. CASE Await(r, "untrack_unwatch", p, Untracked, NoVersion)
    <3>1. "untrack_unwatch" \in Steps \ FileSteps
      BY DEF Steps, FileSteps
    <3>2. TasksOK'
      BY <1>4, <2>2, <3>1
    <3> QED
      BY <1>7, <3>2, StoreStep DEF UntrackRemove
  <2> QED
    BY <1>7, <2>1, <2>2 DEF UntrackRemove
<1>8. ASSUME NEW p \in Paths, NEW expected \in ExpectedVersions,
             EditCompute(r, p, expected)
      PROVE  ServerInv'
  <2>1. UNCHANGED watcherVars
    BY <1>8 DEF EditCompute
  <2>2. ASSUME NEW draft \in Edits(files[p], r), files[p] # Untracked,
               Await(r, "edit_commit", p, draft, expected)
        PROVE  ServerInv'
    <3>1. draft \in File
      BY <2>2, EditsType DEF WatcherTypeOK
    <3>2. "edit_commit" \in Steps
      BY DEF Steps
    <3>3. TasksOK'
      BY <1>4, <2>2, <3>1, <3>2
    <3> QED
      BY <2>1, <3>3, IdleStep
  <2> QED
    BY <1>2, <1>3, <1>8, <2>1, <2>2 DEF EditCompute
<1>9. ASSUME NEW p \in Paths, SaveSnapshot(r, p)
      PROVE  ServerInv'
  <2>1. CASE files[p] # Untracked
    <3>1. files[p] \in File /\ "save_truncate" \in Steps
      BY <2>1 DEF WatcherTypeOK, Steps
    <3>2. Await(r, "save_truncate", p, files[p], NoVersion)
      BY <1>9, <2>1 DEF SaveSnapshot
    <3>3. TasksOK'
      BY <1>4, <3>1, <3>2
    <3> QED
      BY <1>9, <3>3, IdleStep DEF SaveSnapshot
  <2> QED
    BY <1>2, <1>3, <1>9, <2>1 DEF SaveSnapshot
<1>10. ASSUME NEW p \in Paths, NEW content \in {{}, {r}},
              CreateCheck(r, p, content)
       PROVE  ServerInv'
  <2>1. content \in Text
    BY DEF Text, Marks
  <2>2. Parse(content) \in File /\ "create_truncate" \in Steps
    BY <2>1, ParseType DEF Steps
  <2>3. CASE Await(r, "create_truncate", p, Parse(content), NoVersion)
    <3>1. TasksOK'
      BY <1>4, <2>2, <2>3
    <3> QED
      BY <1>10, <3>1, IdleStep DEF CreateCheck
  <2> QED
    BY <1>2, <1>3, <1>10, <2>3 DEF CreateCheck
<1>11. ASSUME NEW p \in Paths, DeleteCheck(r, p)
       PROVE  ServerInv'
  <2>1. "delete_untrack" \in Steps \ FileSteps
    BY DEF Steps, FileSteps
  <2>2. CASE Await(r, "delete_untrack", p, Untracked, NoVersion)
    <3>1. TasksOK'
      BY <1>4, <2>1, <2>2
    <3> QED
      BY <1>11, <3>1, IdleStep DEF DeleteCheck
  <2> QED
    BY <1>2, <1>3, <1>11, <2>2 DEF DeleteCheck
<1>12. ASSUME NEW p \in Paths, Read(r, p)
       PROVE  ServerInv'
  <2>1. "ok" \in Responses
    BY DEF Responses
  <2> QED
    BY <1>2, <1>3, <1>12, <2>1 DEF Read
<1> QED
  BY <1>5, <1>6, <1>7, <1>8, <1>9, <1>10, <1>11, <1>12 DEF Call

\* The later steps of a handler.
LEMMA ProceedInv ==
    ASSUME ServerInv, detached' = Detached, NEW r \in Requests, Proceed(r)
    PROVE  ServerInv'
<1> USE DEF ServerInv, TypeOK
<1> DEFINE p == task[r].path
<1>1. TasksOK
  BY DEF TasksOK
<1>2. "ok" \in Responses /\ "error" \in Responses
  BY DEF Responses
<1>3. task[r].step \in Steps
  BY DEF Proceed, TrackStore, TrackWatch, UntrackUnwatch, EditCommit,
         SaveTruncate, SaveFill, CreateTruncate, CreateFill, CreateRead,
         DeleteUntrack, DeleteUnwatch, DeleteRemove, At, Steps
<1>4. p \in Paths /\ r \in Writers
  BY <1>3 DEF TaskShape, Writers
<1>5. task[r].step \in FileSteps => task[r].file \in File
  BY DEF TaskShape
<1>6. Answer(r, "ok") \/ Answer(r, "error") => TasksOK'
  BY <1>1, <1>2, AnswerLemma
<1>7. ASSUME NEW step \in Steps, Goto(r, step), step # "track_store",
             step \in FileSteps => task[r].step \in FileSteps
      PROVE  TasksOK'
  BY <1>1, <1>3, <1>7, GotoLemma
<1>8. ASSUME NEW w \in Writers, Truncate(w, p), TasksOK',
             UNCHANGED <<files, watched, external>>
      PROVE  ServerInv'
  BY <1>4, <1>8, TruncateLemma, DiskStep DEF WatcherTypeOK
<1>9. ASSUME task[r].file \in File, Fill(r, task[r].file.text), TasksOK',
             UNCHANGED <<files, watched, external>>
      PROVE  ServerInv'
  <2>1. task[r].file.text \in Text
    BY <1>9 DEF File
  <2> QED
    BY <1>4, <1>9, <2>1, FillLemma, DiskStep DEF WatcherTypeOK
<1>10. CASE TrackStore(r) \/ EditCommit(r)
  <2>1. task[r].file \in File
    BY <1>5, <1>10 DEF TrackStore, EditCommit, At, FileSteps
  <2>2. "track_watch" \in Steps \ FileSteps
    BY DEF Steps, FileSteps
  <2>3. TasksOK'
    BY <1>6, <1>7, <1>10, <2>2 DEF TrackStore, EditCommit
  <2> QED
    BY <1>4, <1>10, <2>1, <2>3, StoreStep DEF TrackStore, EditCommit
<1>11. CASE TrackWatch(r) \/ UntrackUnwatch(r)
  BY <1>4, <1>6, <1>11, WatchStep DEF TrackWatch, UntrackUnwatch
<1>12. CASE SaveTruncate(r) \/ CreateTruncate(r)
  <2>1. /\ task[r].step \in FileSteps
        /\ "save_fill" \in Steps /\ "create_fill" \in Steps
    BY <1>12 DEF SaveTruncate, CreateTruncate, At, FileSteps, Steps
  <2>2. CASE Failed(r, "error")
    BY <2>2, FailedStep
  <2>3. CASE /\ Truncate(r, p)
             /\ Goto(r, "save_fill") \/ Goto(r, "create_fill")
             /\ UNCHANGED <<files, watched, external>>
    <3>1. TasksOK'
      BY <1>7, <2>1, <2>3
    <3> QED
      BY <1>4, <1>8, <2>3, <3>1
  <2> QED
    BY <1>12, <2>2, <2>3 DEF SaveTruncate, CreateTruncate
<1>13. CASE SaveFill(r) \/ CreateFill(r)
  <2>1. task[r].file \in File
    BY <1>5, <1>13 DEF SaveFill, CreateFill, At, FileSteps
  <2>2. "create_read" \in Steps \ FileSteps
    BY DEF Steps, FileSteps
  <2>3. CASE Failed(r, "error")
    BY <2>3, FailedStep
  <2>4. CASE /\ Fill(r, task[r].file.text)
             /\ Answer(r, "ok") \/ Goto(r, "create_read")
             /\ UNCHANGED <<files, watched, external>>
    <3>1. TasksOK'
      BY <1>6, <1>7, <2>2, <2>4
    <3> QED
      BY <1>9, <2>1, <2>4, <3>1
  <2> QED
    BY <1>13, <2>3, <2>4 DEF SaveFill, CreateFill
<1>14. CASE CreateRead(r)
  <2>1. CASE ReadFails(r, p, "ok")
    <3>1. TasksOK'
      BY <1>6, <2>1 DEF ReadFails
    <3> QED
      BY <1>4, <2>1, <3>1, ReadFailsStep
  <2> QED
    BY <1>4, <1>14, <2>1, ReadStep DEF CreateRead
<1>15. CASE DeleteUntrack(r)
  <2>1. /\ "delete_remove" \in Steps \ FileSteps
        /\ "delete_unwatch" \in Steps \ FileSteps
    BY DEF Steps, FileSteps
  <2>2. Goto(r, "delete_remove") \/ Goto(r, "delete_unwatch")
    BY <1>15 DEF DeleteUntrack
  <2>3. TasksOK'
    BY <1>7, <2>1, <2>2
  <2> QED
    BY <1>4, <1>15, <2>3, StoreStep DEF DeleteUntrack
<1>16. CASE DeleteUnwatch(r)
  <2>1. "delete_remove" \in Steps \ FileSteps
    BY DEF Steps, FileSteps
  <2>2. TasksOK'
    BY <1>7, <1>16, <2>1 DEF DeleteUnwatch
  <2> QED
    BY <1>4, <1>16, <2>2, WatchStep DEF DeleteUnwatch
<1>17. CASE DeleteRemove(r)
  <2>1. CASE Failed(r, "error")
    BY <2>1, FailedStep
  <2>2. CASE Answer(r, "error") /\ UNCHANGED watcherVars
    BY <1>6, <2>2, IdleStep
  <2>3. CASE /\ Unlink(p, Absent)
             /\ Answer(r, "ok")
             /\ UNCHANGED <<files, external>>
    BY <1>4, <1>6, <2>3, UnlinkLemma, DiskStep DEF WatcherTypeOK
  <2> QED
    BY <1>17, <2>1, <2>2, <2>3 DEF DeleteRemove
<1> QED
  BY <1>10, <1>11, <1>12, <1>13, <1>14, <1>15, <1>16, <1>17 DEF Proceed

-----------------------------------------------------------------------------
(* The specification. *)

\* The initial state.
LEMMA ServerInitInv == Init => ServerInv
<1> SUFFICES ASSUME Init
             PROVE  ServerInv
  OBVIOUS
<1> USE DEF Init
<1>1. WatcherInv
  BY WatcherInitInv
<1>2. NoTask("new") \in Task /\ "new" \notin Steps /\ FileSteps \subseteq Steps
  BY DEF NoTask, Task, Steps, FileSteps
<1>3. task \in [Requests -> Task] /\ TaskShape
  BY <1>2 DEF TaskShape, NoTask, At, Steps
<1>4. Followed
  BY ConstantsAssumption
     DEF WatcherInit, Followed, InSync, Parse, ParseWithVersion
<1> QED
  BY <1>1, <1>3, <1>4 DEF ServerInv, TypeOK, WatcherInv

\* Every step keeps the invariant.
LEMMA ServerNextInv == ServerInv /\ [Next]_serverVars => ServerInv'
<1> SUFFICES ASSUME ServerInv, [Next]_serverVars
             PROVE  ServerInv'
  OBVIOUS
<1> USE DEF ServerInv, TypeOK
<1>1. TasksOK
  BY DEF TasksOK
<1>2. ASSUME UNCHANGED task
      PROVE  TasksOK'
  BY <1>1, <1>2 DEF TasksOK, TaskShape, At
<1>3. CASE HandleEvent /\ UNCHANGED task /\ detached' = Detached
  <2>1. /\ WatchOnExisting' /\ Kept
        /\ UNCHANGED <<disk, handle, watched, external>>
        /\ files' \in [Paths -> File \cup {Untracked}]
        /\ channel' \in Seq(Event)
    BY <1>3, HandleEventLemma
  <2>2. Followed'
    BY <1>3, <2>1, FollowedStep DEF Kept
  <2>3. WatcherTypeOK' /\ detached' \subseteq Paths
    BY <1>3, <2>1 DEF WatcherTypeOK, Detached
  <2> QED
    BY <1>2, <1>3, <2>1, <2>2, <2>3 DEF TasksOK
<1>4. CASE ExternalStep /\ UNCHANGED task /\ detached' = Detached
  <2> USE DEF WatcherTypeOK
  <2>1. ASSUME NEW x \in ExternalWrites, NEW p \in Paths, ExternalTruncate(x, p)
        PROVE  ServerInv'
    <3>1. UNCHANGED <<files, watched>> /\ Truncate(x, p) /\ x \in Writers
      BY <2>1 DEF ExternalTruncate, Outside, Writers
    <3>2. external' \in [ExternalWrites -> {"new", "open", "done"}]
      BY <2>1 DEF ExternalTruncate, Outside
    <3> QED
      BY <1>2, <1>4, <3>1, <3>2, TruncateLemma, DiskStep
  <2>2. ASSUME NEW x \in ExternalWrites, ExternalFill(x)
        PROVE  ServerInv'
    <3>1. UNCHANGED <<files, watched>> /\ Fill(x, {x})
      BY <2>2 DEF ExternalFill
    <3>2. x \in Writers /\ {x} \in Text
      BY DEF Writers, Text, Marks
    <3>3. external' \in [ExternalWrites -> {"new", "open", "done"}]
      BY <2>2 DEF ExternalFill
    <3> QED
      BY <1>2, <1>4, <3>1, <3>2, <3>3, FillLemma, DiskStep
  <2>3. ASSUME NEW x \in ExternalWrites, NEW p \in Paths,
               ExternalRemove(x, p) \/ ExternalReplace(x, p)
        PROVE  ServerInv'
    <3>1. external' \in [ExternalWrites -> {"new", "open", "done"}]
      BY <2>3 DEF ExternalRemove, ExternalReplace, Outside
    <3>2. {x} \in Text
      BY DEF Text, Marks
    <3>3. PICK content \in {Absent} \cup Text : Unlink(p, content)
      BY <2>3, <3>2 DEF ExternalRemove, ExternalReplace
    <3>4. UNCHANGED files
      BY <2>3 DEF ExternalRemove, ExternalReplace, Outside
    <3> QED
      BY <1>2, <1>4, <3>1, <3>3, <3>4, UnlinkLemma, DiskStep
  <2> QED
    BY <1>4, <2>1, <2>2, <2>3 DEF ExternalStep
<1>5. CASE Idle /\ detached' = Detached
  BY <1>2, <1>5, IdleStep DEF Idle, WatcherIdle
<1>6. CASE UNCHANGED serverVars
  BY <1>6 DEF serverVars, watcherVars, WatcherTypeOK, TaskShape, At,
              WatchOnExisting, Followed, InSync, Pending
<1>7. CASE ReloadMissed
  <2>1. /\ UNCHANGED <<files, disk, handle, watched, external, task>>
        /\ detached' = detached \cup {Head(channel).path}
    BY <1>7 DEF ReloadMissed, ReloadFails
  <2>2. /\ Head(channel).path \in Paths /\ channel' \in Seq(Event)
        /\ \A p \in Paths : Pending(p) /\ Head(channel).path # p => Pending(p)'
    BY <1>7, ReloadFailsLemma DEF ReloadMissed, Pending
  <2>3. Followed'
    BY <2>1, <2>2 DEF Followed, InSync
  <2>4. WatcherTypeOK' /\ WatchOnExisting' /\ detached' \subseteq Paths
    BY <2>1, <2>2 DEF WatcherTypeOK, WatchOnExisting
  <2> QED
    BY <1>2, <2>1, <2>3, <2>4 DEF TasksOK
<1> QED
  BY <1>3, <1>4, <1>5, <1>6, <1>7, CallInv, ProceedInv DEF Next

\* The invariant of the server.
THEOREM ServerInvariant == Spec => []ServerInv
<1>1. Init => ServerInv
  BY ServerInitInv
<1>2. ServerInv /\ [Next]_serverVars => ServerInv'
  BY ServerNextInv
<1> QED
  BY <1>1, <1>2, PTL DEF Spec

\* Type correctness of the registry, the disk, the channel and the tasks.
THEOREM ServerTypeCorrect == Spec => []TypeOK
<1>1. ServerInv => TypeOK
  BY DEF ServerInv
<1> QED
  BY <1>1, ServerInvariant, PTL

\* With any calls in flight, a tracked and watched file that no call made
\* differ from the disk is as it is on the disk, or about to be reloaded.
THEOREM ServerFollowsDisk == Spec => []DetachedOrInSync
<1>1. ServerInv => DetachedOrInSync
  BY DEF ServerInv, TypeOK, WatcherTypeOK, WatchOnExisting, Followed,
         DetachedOrInSync
<1> QED
  BY <1>1, ServerInvariant, PTL

-----------------------------------------------------------------------------
(***************************************************************************)
(* The server implements SnapshotRegistry, and the watcher only ever moves *)
(* the registry forward.                                                   *)
(*                                                                         *)
(* A handler's draft is the abstract one from EditCompute to EditCommit.   *)
(* TrackStore is the abstract Track, whose file is the parse of some text: *)
(* that is what ServerInv knows of the file a task waits to store.         *)
(***************************************************************************)

Abstract == <<files, Drafts>>

NoDraft == [path |-> NoPath, file |-> Untracked]

\* A step of one task changes no draft but its own.
LEMMA DraftsMove ==
    ASSUME NEW r \in Requests, \A q \in Requests \ {r} : task'[q] = task[q]
    PROVE  Drafts' = [Drafts EXCEPT ![r] =
                        IF task'[r].step = "edit_commit"
                        THEN [path |-> task'[r].path, file |-> task'[r].file]
                        ELSE NoDraft]
<1> DEFINE Draft(q) == IF task'[q].step = "edit_commit"
                       THEN [path |-> task'[q].path, file |-> task'[q].file]
                       ELSE NoDraft
<1>1. Drafts' = [q \in Requests |-> Draft(q)]
  BY DEF Drafts, At, NoDraft
<1>2. \A q \in Requests \ {r} : Draft(q) = Drafts[q]
  BY DEF Drafts, At, NoDraft
<1>3. Drafts = [q \in Requests |-> Drafts[q]]
  BY DEF Drafts
<1> HIDE DEF Draft
<1>4. Drafts' = [Drafts EXCEPT ![r] = Draft(r)]
  BY <1>1, <1>2, <1>3
<1> QED
  BY <1>4 DEF Draft

\* A step of a task that neither has nor gets a draft leaves the drafts alone.
LEMMA DraftsKept ==
    ASSUME NEW r \in Requests, \A q \in Requests \ {r} : task'[q] = task[q],
           ~At(r, "edit_commit"), ~At(r, "edit_commit")'
    PROVE  UNCHANGED Drafts
<1>1. \A q \in Requests \ {r} : At(q, "edit_commit")' <=> At(q, "edit_commit")
  BY DEF At
<1>2. Drafts' = [q \in Requests |-> Drafts[q]]
  BY <1>1 DEF Drafts
<1> QED
  BY <1>2 DEF Drafts

\* The abstract edits are those of CstFile.
LEMMA SameEdits == \A f, r : Snapshots!Edits(f, r) = Edits(f, r)
BY DEF Snapshots!Edits, Edits, Snapshots!ReplaceNode, ReplaceNode,
       Snapshots!DeleteNode, DeleteNode, Snapshots!InsertText, InsertText,
       Snapshots!NextVersion, NextVersion, Snapshots!Splice, Splice,
       Snapshots!Nodes, Nodes,
       Snapshots!ParseWithVersion, ParseWithVersion

\* So are the texts, and the files made of them.
LEMMA SameFiles ==
    /\ Snapshots!Text = Text
    /\ \A text : Snapshots!Parse(text) = Parse(text)
    /\ \A f, text : Snapshots!NextVersion(f, text) = NextVersion(f, text)
BY DEF Snapshots!Text, Text, Snapshots!Marks, Marks, Snapshots!Parse, Parse,
       Snapshots!NextVersion, NextVersion,
       Snapshots!ParseWithVersion, ParseWithVersion

\* A file at version 0 is the parse of its text.
LEMMA FreshFile ==
    ASSUME NEW file \in File, file.version = 0
    PROVE  \E text \in Text : file = Parse(text)
<1>1. file.text \in Text
  BY DEF File
<1>2. file = [text |-> file.text, version |-> file.version]
  BY DEF File
<1> QED
  BY <1>1, <1>2 DEF Parse, ParseWithVersion

\* What the helpers do to the tasks.
LEMMA AwaitMoves ==
    ASSUME TasksOK, NEW r \in Requests, NEW step, NEW p, NEW file, NEW expected,
           Await(r, step, p, file, expected)
    PROVE  /\ \A q \in Requests \ {r} : task'[q] = task[q]
           /\ task'[r].step = step /\ task'[r].path = p /\ task'[r].file = file
BY DEF TasksOK, Await

LEMMA GotoMoves ==
    ASSUME TasksOK, NEW r \in Requests, NEW step, Goto(r, step)
    PROVE  /\ \A q \in Requests \ {r} : task'[q] = task[q]
           /\ task'[r].step = step
BY DEF TasksOK, Task, Goto

LEMMA AnswerMoves ==
    ASSUME TasksOK, NEW r \in Requests, NEW response, Answer(r, response)
    PROVE  /\ \A q \in Requests \ {r} : task'[q] = task[q]
           /\ task'[r].step = response
BY DEF TasksOK, Answer, NoTask

\* The first step of a handler is a step of the registry, or none.
LEMMA CallRefines ==
    ASSUME ServerInv, NEW r \in Requests, Call(r)
    PROVE  [Snapshots!SnapshotNext]_Abstract
<1> USE DEF ServerInv, TypeOK
<1>1. TasksOK
  BY DEF TasksOK
<1>2. At(r, "new")
  BY DEF Call, Denial, TrackRead, UntrackRemove, EditCompute, SaveSnapshot, Read,
         CreateCheck, DeleteCheck, Called, At
<1>3. CASE \E p \in Paths, expected \in ExpectedVersions :
              EditCompute(r, p, expected) /\ At(r, "edit_commit")'
  <2>1. PICK p \in Paths, expected \in ExpectedVersions :
           EditCompute(r, p, expected) /\ At(r, "edit_commit")'
    BY <1>3
  <2>2. files[p] # Untracked /\ UNCHANGED files
    BY <1>1, <2>1, AnswerMoves DEF EditCompute, watcherVars, At
  <2>3. PICK draft \in Edits(files[p], r) :
           Await(r, "edit_commit", p, draft, expected)
    BY <1>1, <2>1, AnswerMoves DEF EditCompute, At
  <2>4. Drafts[r] = [path |-> NoPath, file |-> Untracked]
    BY <1>2 DEF Drafts, At
  <2>5. Drafts' = [Drafts EXCEPT ![r] = [path |-> p, file |-> draft]]
    <3>1. /\ \A q \in Requests \ {r} : task'[q] = task[q]
          /\ task'[r].step = "edit_commit"
          /\ task'[r].path = p /\ task'[r].file = draft
      BY <1>1, <2>3, AwaitMoves
    <3> QED
      BY <3>1, DraftsMove
  <2>6. Snapshots!Compute(r, p)
    BY <2>2, <2>4, <2>5, SameEdits DEF Snapshots!Compute, Snapshots!NoDraft
  <2> QED
    BY <2>6 DEF Snapshots!SnapshotNext
<1>4. CASE /\ ~At(r, "edit_commit")'
           /\ \A q \in Requests \ {r} : task'[q] = task[q]
           /\ UNCHANGED files \/ \E p \in Paths : Store(p, Untracked)
  <2>1. UNCHANGED Drafts
    BY <1>2, <1>4, DraftsKept DEF At
  <2>2. ASSUME NEW p \in Paths, Store(p, Untracked)
        PROVE  Snapshots!SnapshotNext
    BY <2>1, <2>2
       DEF Snapshots!SnapshotNext, Snapshots!Untrack, Snapshots!Put, Store
  <2> QED
    BY <1>4, <2>1, <2>2 DEF Abstract
<1>5. \A q \in Requests \ {r} : task'[q] = task[q]
  BY <1>1, AwaitMoves, AnswerMoves
     DEF Call, Denial, TrackRead, ReadAndParse, ReadFails, UntrackRemove, EditCompute,
         SaveSnapshot, Read, CreateCheck, DeleteCheck
<1>6. UNCHANGED files \/ \E p \in Paths : Store(p, Untracked)
  BY DEF Call, Denial, TrackRead, ReadAndParse, ReadFails, UntrackRemove, EditCompute,
         SaveSnapshot, Read, CreateCheck, DeleteCheck, watcherVars
<1>7. ASSUME At(r, "edit_commit")'
      PROVE  \E p \in Paths, expected \in ExpectedVersions :
                EditCompute(r, p, expected) /\ At(r, "edit_commit")'
  <2>1. ASSUME NEW step, step # "edit_commit"
        PROVE  /\ \A p, file, expected : ~Await(r, step, p, file, expected)
               /\ ~Answer(r, step)
    BY <1>1, <1>7, <2>1, AwaitMoves, AnswerMoves DEF At
  <2> QED
    BY <1>7, <2>1
       DEF Call, Denial, TrackRead, ReadAndParse, ReadFails, UntrackRemove, SaveSnapshot, Read,
           CreateCheck, DeleteCheck
<1> QED
  BY <1>3, <1>4, <1>5, <1>6, <1>7

\* So are its later steps.
LEMMA ProceedRefines ==
    ASSUME ServerInv, NEW r \in Requests, Proceed(r)
    PROVE  [Snapshots!SnapshotNext]_Abstract
<1> USE DEF ServerInv, TypeOK
<1> DEFINE p == task[r].path
<1>1. TasksOK
  BY DEF TasksOK
<1>2. CASE TrackStore(r)
  <2>1. At(r, "track_store") /\ p \in Paths
    BY <1>2 DEF TrackStore, At, TaskShape, Steps
  <2>2. task[r].file \in File /\ task[r].file.version = 0
    BY <2>1 DEF At, TaskShape, FileSteps
  <2>3. PICK text \in Text : task[r].file = Parse(text)
    BY <2>2, FreshFile
  <2>4. Snapshots!Track(p)
    BY <1>2, <2>3, SameFiles
       DEF TrackStore, Store, Snapshots!Track, Snapshots!Put
  <2>5. UNCHANGED Drafts
    BY <1>1, <1>2, GotoMoves, DraftsKept DEF TrackStore, At
  <2> QED
    BY <2>1, <2>4, <2>5 DEF Snapshots!SnapshotNext
<1>3. CASE EditCommit(r)
  <2>1. At(r, "edit_commit") /\ p \in Paths
    BY <1>3 DEF EditCommit, At, TaskShape, Steps
  <2>2. Drafts[r] = [path |-> p, file |-> task[r].file]
    BY <2>1 DEF Drafts
  <2>3. Drafts[r] # NoDraft
    BY <2>1, <2>2, ConstantsAssumption DEF NoDraft
  <2>4. Drafts' = [Drafts EXCEPT ![r] = NoDraft]
    <3>1. /\ \A q \in Requests \ {r} : task'[q] = task[q]
          /\ task'[r].step = "ok"
      BY <1>1, <1>3, AnswerMoves DEF EditCommit
    <3> QED
      BY <3>1, DraftsMove
  <2>5. Snapshots!Commit(r)
    BY <1>3, <2>2, <2>3, <2>4
       DEF EditCommit, Store, Snapshots!Commit, Snapshots!Put,
           Snapshots!NoDraft, NoDraft
  <2> QED
    BY <2>1, <2>5 DEF Snapshots!SnapshotNext
<1>4. CASE DeleteUntrack(r)
  <2>1. At(r, "delete_untrack") /\ p \in Paths
    BY <1>4 DEF DeleteUntrack, At, TaskShape, Steps
  <2>2. Snapshots!Untrack(p)
    BY <1>4 DEF DeleteUntrack, Store, Snapshots!Untrack, Snapshots!Put
  <2>3. UNCHANGED Drafts
    <3>1. /\ \A q \in Requests \ {r} : task'[q] = task[q]
          /\ task'[r].step # "edit_commit"
      BY <1>1, <1>4, GotoMoves DEF DeleteUntrack
    <3> QED
      BY <2>1, <3>1, DraftsKept DEF At
  <2> QED
    BY <2>1, <2>2, <2>3 DEF Snapshots!SnapshotNext
<1>5. CASE \/ TrackWatch(r) \/ UntrackUnwatch(r) \/ SaveTruncate(r)
           \/ SaveFill(r) \/ CreateTruncate(r) \/ CreateFill(r)
           \/ CreateRead(r) \/ DeleteUnwatch(r) \/ DeleteRemove(r)
  <2>1. UNCHANGED files /\ ~At(r, "edit_commit")
    BY <1>5 DEF TrackWatch, UntrackUnwatch, SaveTruncate, SaveFill,
                CreateTruncate, CreateFill, CreateRead, DeleteUnwatch,
                DeleteRemove, Failed, ReadAndParse, ReadFails, watcherVars, At
  <2>2. /\ \A q \in Requests \ {r} : task'[q] = task[q]
        /\ task'[r].step # "edit_commit"
    BY <1>1, <1>5, AwaitMoves, GotoMoves, AnswerMoves
       DEF TrackWatch, UntrackUnwatch, SaveTruncate, SaveFill,
           CreateTruncate, CreateFill, CreateRead, DeleteUnwatch,
           DeleteRemove, Failed, ReadAndParse, ReadFails
  <2>3. UNCHANGED Drafts
    BY <2>1, <2>2, DraftsKept DEF At
  <2> QED
    BY <2>1, <2>3 DEF Abstract
<1> QED
  BY <1>2, <1>3, <1>4, <1>5 DEF Proceed

\* A step of the watcher is a reload, or none; other processes do not touch
\* the registry.
LEMMA OtherRefines ==
    ASSUME ServerInv, UNCHANGED task,
           HandleEvent \/ ReloadFails \/ ExternalStep \/ WatcherIdle
    PROVE  [Snapshots!SnapshotNext]_Abstract
<1> USE DEF ServerInv, TypeOK
<1>1. UNCHANGED Drafts
  BY DEF Drafts, At
<1>2. ASSUME UNCHANGED files
      PROVE  [Snapshots!SnapshotNext]_Abstract
  BY <1>1, <1>2 DEF Abstract
<1>3. CASE HandleEvent
  <2> DEFINE p == Head(channel).path
  <2>1. CASE UNCHANGED files
    BY <1>2, <2>1
  <2>2. CASE /\ files[p] # Untracked /\ disk[p] # Absent
             /\ files' = [files EXCEPT ![p] = NextVersion(@, disk[p])]
    <3>1. p \in Paths
      <4>1. channel \in Seq(Event) /\ channel # <<>>
        BY <1>3 DEF HandleEvent, WatcherTypeOK
      <4>2. Head(channel) \in Event
        BY <4>1
      <4> QED
        BY <4>2 DEF Event
    <3>2. disk[p] \in Text
      BY <2>2, <3>1 DEF WatcherTypeOK
    <3>3. Snapshots!Reload(p)
      BY <2>2, <3>2, SameFiles DEF Snapshots!Reload, Snapshots!Put
    <3> QED
      BY <1>1, <3>1, <3>3 DEF Snapshots!SnapshotNext
  <2> QED
    BY <1>3, <2>1, <2>2 DEF HandleEvent, ReloadFile
<1>4. CASE ReloadFails \/ ExternalStep \/ WatcherIdle
  BY <1>2, <1>4
     DEF ReloadFails, ExternalStep, ExternalTruncate, ExternalFill, ExternalRemove,
         ExternalReplace, Outside, WatcherIdle, watcherVars
<1> QED
  BY <1>3, <1>4

\* Nothing enters the registry but a parse of some text at version 0, the
\* next version of the file it replaces, or one edit of a file that was in the
\* registry at that path when the edit was computed.
THEOREM ServerImplementsSnapshots == Spec => ImplementsSnapshots
<1>1. Init => Snapshots!SnapshotInit
  <2> SUFFICES ASSUME Init
               PROVE  Snapshots!SnapshotInit
    OBVIOUS
  <2>1. Snapshots!RegistryInit
    BY SameFiles DEF Init, WatcherInit, Snapshots!RegistryInit
  <2>2. Drafts = [r \in Requests |-> Snapshots!NoDraft]
    BY DEF Init, Drafts, At, NoTask, Snapshots!NoDraft
  <2> QED
    BY <2>1, <2>2 DEF Snapshots!SnapshotInit
<1>2. ServerInv /\ [Next]_serverVars => [Snapshots!SnapshotNext]_<<files, Drafts>>
  <2> SUFFICES ASSUME ServerInv, [Next]_serverVars
               PROVE  [Snapshots!SnapshotNext]_Abstract
    BY DEF Abstract
  <2>1. CASE UNCHANGED serverVars
    BY <2>1 DEF serverVars, watcherVars, Abstract, Drafts, At
  <2> QED
    BY <2>1, CallRefines, ProceedRefines, OtherRefines DEF Next, Idle, ReloadMissed
<1> QED
  BY <1>1, <1>2, ServerInvariant, PTL
     DEF Spec, ImplementsSnapshots, Snapshots!SnapshotSpec

-----------------------------------------------------------------------------
(* The watcher's steps are the ones that move no task. *)

\* A handler's step moves its task.
LEMMA HandlersMove ==
    ASSUME TasksOK, NEW r \in Requests, Call(r) \/ Proceed(r)
    PROVE  task' # task
<1>1. CASE Call(r)
  <2>1. task[r].step = "new"
    BY <1>1 DEF Call, Denial, TrackRead, UntrackRemove, EditCompute,
                SaveSnapshot, Read, CreateCheck, DeleteCheck, Called
  <2>2. ASSUME NEW step, step # "new", Answer(r, step)
        PROVE  task' # task
    BY <2>1, <2>2, AnswerMoves
  <2>3. ASSUME NEW step, step # "new", NEW p, NEW file, NEW expected,
               Await(r, step, p, file, expected)
        PROVE  task' # task
    BY <2>1, <2>3, AwaitMoves
  <2>4. ASSUME NEW p \in Paths, NEW expected \in ExpectedVersions,
               EditCompute(r, p, expected)
        PROVE  task' # task
    BY <2>2, <2>3, <2>4 DEF EditCompute
  <2> QED
    BY <1>1, <2>2, <2>3, <2>4
       DEF Call, Denial, TrackRead, ReadAndParse, ReadFails, UntrackRemove,
           SaveSnapshot, Read, CreateCheck, DeleteCheck
<1>2. CASE Proceed(r)
  <2>1. task'[r].step # task[r].step
    BY <1>2, AwaitMoves, GotoMoves, AnswerMoves
       DEF Proceed, TrackStore, TrackWatch, UntrackUnwatch, EditCommit,
           SaveTruncate, SaveFill, CreateTruncate, CreateFill, CreateRead,
           DeleteUntrack, DeleteUnwatch, DeleteRemove, Failed, ReadAndParse, ReadFails, At
  <2> QED
    BY <2>1
<1> QED
  BY <1>1, <1>2

\* reload_file looks the path up under the write lock, so a reload that races
\* an untrack never brings the file back, and versions never go down.
THEOREM WatcherOnlyAdvances == Spec => ReloadOnlyAdvances
<1>1. ServerInv /\ [Next]_serverVars =>
        [UNCHANGED task =>
           \A p \in Paths :
             /\ files[p] = Untracked <=> files'[p] = Untracked
             /\ files[p] # Untracked => files'[p].version >= files[p].version]_serverVars
  <2> SUFFICES ASSUME ServerInv, Next, UNCHANGED task, NEW p \in Paths
               PROVE  /\ files[p] = Untracked <=> files'[p] = Untracked
                      /\ files[p] # Untracked =>
                           files'[p].version >= files[p].version
    OBVIOUS
  <2>1. files[p] # Untracked => files[p].version \in Nat
    BY DEF ServerInv, TypeOK, WatcherTypeOK, File
  <2>2. CASE UNCHANGED files
    BY <2>1, <2>2
  <2>3. CASE HandleEvent
    <3> DEFINE q == Head(channel).path
    <3>1. CASE /\ files[q] # Untracked /\ disk[q] # Absent
               /\ files' = [files EXCEPT ![q] = NextVersion(@, disk[q])]
      <4>1. CASE p = q
        <5>1. files'[p] = NextVersion(files[p], disk[p])
          BY <3>1, <4>1 DEF ServerInv, TypeOK, WatcherTypeOK
        <5>2. NextVersion(files[p], disk[p]).version = files[p].version + 1
          BY DEF NextVersion, ParseWithVersion
        <5>3. files'[p] # Untracked
          <6>1. files' \in [Paths -> File \cup {Untracked}]
            BY <2>3, HandleEventLemma DEF ServerInv, TypeOK
          <6>2. NextVersion(files[p], disk[p]) \in File
            <7>1. disk[p] \in Text
              BY <3>1, <4>1 DEF ServerInv, TypeOK, WatcherTypeOK
            <7> QED
              BY <2>1, <3>1, <4>1, <7>1 DEF NextVersion, ParseWithVersion, File
          <6> QED
            BY <5>1, <6>2, ConstantsAssumption
        <5> QED
          BY <2>1, <3>1, <4>1, <5>1, <5>2, <5>3
      <4>2. CASE p # q
        BY <2>1, <3>1, <4>2 DEF ServerInv, TypeOK, WatcherTypeOK
      <4> QED
        BY <4>1, <4>2
    <3> QED
      BY <2>2, <2>3, <3>1 DEF HandleEvent, ReloadFile
  <2>4. CASE ReloadMissed \/ ExternalStep \/ Idle
    BY <2>2, <2>4
       DEF ReloadMissed, ReloadFails, ExternalStep, ExternalTruncate, ExternalFill, ExternalRemove,
           ExternalReplace, Outside, Idle, WatcherIdle, watcherVars
  <2> QED
    BY <2>3, <2>4, HandlersMove DEF Next, ServerInv, TypeOK, TasksOK
<1> QED
  BY <1>1, ServerInvariant, PTL DEF Spec, ReloadOnlyAdvances
===============================================================================
