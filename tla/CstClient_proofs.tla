--------------------------- MODULE CstClient_proofs ---------------------------
(***************************************************************************)
(* Proofs of what a client that waits for each answer, as most do, can go  *)
(* by.                                                                     *)
(*                                                                         *)
(* First of the server alone: a file enters the registry only by being     *)
(* tracked; what is tracked is what is watched, provided that there are    *)
(* watches enough and that other processes remove nothing; an edit is      *)
(* stored over nothing but what the disk has, if all files can be read as  *)
(* well; and a save writes what the registry held.  None of these holds    *)
(* with calls in flight together.                                          *)
(*                                                                         *)
(* Then of the versions the client was given.                              *)
(***************************************************************************)
EXTENDS CstClient, CstServer_proofs, FiniteSetTheorems

\* One call is in flight at a time.
Waiting == Pipeline = 1 /\ IsFiniteSet(Requests)

\* Every watch that is asked for, on a file that exists, is granted, and files
\* that exist go by calls only.
Granting ==
    /\ IsFiniteSet(Paths) /\ WatchLimit \in Nat /\ Cardinality(Paths) <= WatchLimit
    /\ ExternalOps \subseteq {"write"}

Alone == \A r, s \in InFlight : r = s

DraftsTracked ==
    \A r \in Requests : At(r, "edit_commit") => files[task[r].path] # Untracked

SerialInv == ServerInv /\ Alone /\ DraftsTracked

\* A call starts when none is in flight.
LEMMA CallIsAlone ==
    ASSUME Waiting, ServerInv, NEW r \in Requests, Call(r)
    PROVE  /\ \A s \in Requests : task[s].step \notin Steps
           /\ \A s \in Requests \ {r} : task'[s] = task[s]
<1>1. Cardinality(InFlight) < Pipeline
  BY DEF Call, Denial, TrackRead, UntrackRemove, EditCompute, SaveSnapshot, Read,
         CreateCheck, DeleteCheck, Called
<1>2. InFlight \subseteq Requests /\ IsFiniteSet(InFlight)
  BY FS_Subset DEF Waiting, InFlight
<1>3. Cardinality(InFlight) \in Nat /\ (Cardinality(InFlight) = 0 <=> InFlight = {})
  BY <1>2, FS_CardinalityType, FS_EmptySet
<1>4. InFlight = {}
  BY <1>1, <1>3 DEF Waiting
<1>5. \A s \in Requests \ {r} : task'[s] = task[s]
  BY DEF Call, Denial, TrackRead, ReadAndParse, ReadFails, UntrackRemove, EditCompute,
         SaveSnapshot, Read, CreateCheck, DeleteCheck, Await, Answer,
         ServerInv, TypeOK
<1> QED
  BY <1>4, <1>5 DEF InFlight

\* A call that goes on is the one in flight.
LEMMA ProceedIsAlone ==
    ASSUME SerialInv, NEW r \in Requests, Proceed(r)
    PROVE  /\ task[r].step \in Steps /\ task[r].path \in Paths
           /\ \A s \in Requests \ {r} : task'[s] = task[s] /\ task[s].step \notin Steps
<1>1. task[r].step \in Steps
  BY DEF Proceed, TrackStore, TrackWatch, UntrackUnwatch, EditCommit,
         SaveTruncate, SaveFill, CreateTruncate, CreateFill, CreateRead,
         DeleteUntrack, DeleteUnwatch, DeleteRemove, At, Steps
<1>2. \A s \in Requests \ {r} : task[s].step \notin Steps
  BY <1>1 DEF SerialInv, Alone, InFlight
<1>3. \A s \in Requests \ {r} : task'[s] = task[s]
  BY DEF Proceed, TrackStore, TrackWatch, UntrackUnwatch, EditCommit,
         SaveTruncate, SaveFill, CreateTruncate, CreateFill, CreateRead, ReadAndParse, ReadFails,
         DeleteUntrack, DeleteUnwatch, DeleteRemove, Failed, Await, Answer, Goto,
         SerialInv, ServerInv, TypeOK
<1> QED
  BY <1>1, <1>2, <1>3 DEF SerialInv, ServerInv, TaskShape

\* Who has nothing in flight does not reach edit_commit but by EditCompute.
LEMMA DraftsFromCompute ==
    ASSUME ServerInv, NEW r \in Requests, Call(r), At(r, "edit_commit")'
    PROVE  files[task'[r].path] # Untracked /\ UNCHANGED files
<1>1. task \in [Requests -> Task] /\ task'[r].step = "edit_commit"
  BY DEF ServerInv, TypeOK, At
<1>2. ~Answer(r, "error") /\ ~Answer(r, "ok") /\ ~Answer(r, "conflict")
  BY <1>1 DEF Answer, NoTask
<1>3. \A step, p, file, expected :
         Await(r, step, p, file, expected) => step = "edit_commit" /\ task'[r].path = p
  BY <1>1 DEF Await
<1>4. PICK p \in Paths, expected \in ExpectedVersions : EditCompute(r, p, expected)
  <2>1. ASSUME NEW p \in Paths
        PROVE  /\ \A tool \in Tools : ~Denial(r, tool, p)
               /\ ~TrackRead(r, p) /\ ~UntrackRemove(r, p) /\ ~SaveSnapshot(r, p)
               /\ ~Read(r, p) /\ \A content : ~CreateCheck(r, p, content)
               /\ ~DeleteCheck(r, p)
    BY <1>2, <1>3 DEF Denial, TrackRead, ReadAndParse, ReadFails, UntrackRemove, SaveSnapshot,
                      Read, CreateCheck, DeleteCheck
  <2> QED
    BY <2>1 DEF Call
<1> QED
  BY <1>2, <1>3, <1>4 DEF EditCompute, watcherVars

\* The watcher and other processes neither track nor untrack.
LEMMA OthersKeepTracked ==
    ASSUME ServerInv, HandleEvent \/ ExternalStep, NEW p \in Paths
    PROVE  files[p] = Untracked <=> files'[p] = Untracked
<1>1. CASE ExternalStep
  <2>1. UNCHANGED files
    BY <1>1 DEF ExternalStep, ExternalTruncate, ExternalFill, ExternalRemove,
               ExternalReplace, Outside
  <2> QED
    BY <2>1
<1>2. CASE HandleEvent
  <2> DEFINE q == Head(channel).path
  <2>1. \/ UNCHANGED files
        \/ /\ files[q] # Untracked /\ disk[q] # Absent
           /\ files' = [files EXCEPT ![q] = NextVersion(files[q], disk[q])]
    BY <1>2 DEF HandleEvent, ReloadFile
  <2>2. q \in Paths
    <3>1. Head(channel) \in Event
      BY <1>2 DEF HandleEvent, ServerInv, TypeOK, WatcherTypeOK
    <3> QED
      BY <3>1 DEF Event
  <2>3. ASSUME files[q] # Untracked, disk[q] # Absent
        PROVE  NextVersion(files[q], disk[q]) # Untracked
    <3>1. files[q] \in File /\ disk[q] \in Text
      BY <2>2, <2>3 DEF ServerInv, TypeOK, WatcherTypeOK
    <3>2. NextVersion(files[q], disk[q]) \in File
      BY <3>1 DEF File, NextVersion, ParseWithVersion
    <3> QED
      BY <3>2, ConstantsAssumption
  <2> QED
    BY <2>1, <2>2, <2>3 DEF ServerInv, TypeOK, WatcherTypeOK
<1> QED
  BY <1>1, <1>2

\* Every step keeps one call in flight, and what it drafts tracked.
LEMMA SerialNextInv == Waiting /\ SerialInv /\ [Next]_serverVars => SerialInv'
<1> SUFFICES ASSUME Waiting, SerialInv, [Next]_serverVars
             PROVE  SerialInv'
  OBVIOUS
<1>1. ServerInv /\ ServerInv'
  BY ServerNextInv DEF SerialInv
<1>2. ASSUME NEW r \in Requests, Call(r)
      PROVE  Alone' /\ DraftsTracked'
  <2>1. \A s \in Requests \ {r} : task'[s].step \notin Steps
    BY <1>1, <1>2, CallIsAlone
  <2>2. Alone'
    BY <2>1 DEF Alone, InFlight
  <2>3. At(r, "edit_commit")' => files'[task'[r].path] # Untracked
    BY <1>1, <1>2, DraftsFromCompute
  <2> QED
    BY <2>1, <2>2, <2>3 DEF DraftsTracked, At, Steps
<1>3. ASSUME NEW r \in Requests, Proceed(r)
      PROVE  Alone' /\ DraftsTracked'
  <2>1. \A s \in Requests \ {r} : task'[s].step \notin Steps
    BY <1>3, ProceedIsAlone
  <2>2. Alone'
    BY <2>1 DEF Alone, InFlight
  <2>3. ~At(r, "edit_commit")'
    BY <1>1, <1>3
    DEF Proceed, TrackStore, TrackWatch, UntrackUnwatch, EditCommit, SaveTruncate,
        SaveFill, CreateTruncate, CreateFill, CreateRead, ReadAndParse, ReadFails, DeleteUntrack,
        DeleteUnwatch, DeleteRemove, Failed, Await, Answer, Goto, NoTask, At,
        ServerInv, TypeOK, Task
  <2> QED
    BY <2>1, <2>2, <2>3 DEF DraftsTracked, At, Steps
<1>4. ASSUME UNCHANGED task,
             \A p \in Paths : files[p] = Untracked <=> files'[p] = Untracked
      PROVE  Alone' /\ DraftsTracked'
  BY <1>1, <1>4
  DEF SerialInv, Alone, DraftsTracked, InFlight, At, Steps, ServerInv, TaskShape
<1>5. ASSUME HandleEvent \/ ExternalStep, UNCHANGED task
      PROVE  Alone' /\ DraftsTracked'
  BY <1>1, <1>4, <1>5, OthersKeepTracked
<1>6. ASSUME Idle \/ ReloadMissed \/ UNCHANGED serverVars
      PROVE  Alone' /\ DraftsTracked'
  <2>1. UNCHANGED <<files, task>>
    BY <1>6 DEF Idle, WatcherIdle, ReloadMissed, ReloadFails, watcherVars, serverVars
  <2> QED
    BY <1>4, <2>1
<1>7. Next \/ UNCHANGED serverVars
  OBVIOUS
<1> QED
  BY <1>1, <1>2, <1>3, <1>5, <1>6, <1>7 DEF SerialInv, Next

\* The invariant of a server whose client waits.
THEOREM SerialInvariant == ASSUME Waiting PROVE Spec => []SerialInv
<1>1. Init => SerialInv
  <2>1. Init => ServerInv
    BY ServerInitInv
  <2>2. Init => Alone /\ DraftsTracked
    BY DEF Init, Alone, DraftsTracked, InFlight, At, NoTask, Steps
  <2> QED
    BY <2>1, <2>2 DEF SerialInv
<1>2. SerialInv /\ [Next]_serverVars => SerialInv'
  BY SerialNextInv
<1> QED
  BY <1>1, <1>2, PTL DEF Spec

\* With the client waiting, only track_file and create_file put a file into the
\* registry: an edit is stored where the file it was made of still is.
THEOREM SerialTracking == ASSUME Waiting PROVE Spec => OnlyTrackingTracks
<1> DEFINE Tracks ==
             \A p \in Paths :
                files[p] = Untracked /\ files'[p] # Untracked =>
                   \E r \in Requests : At(r, "track_store") /\ task[r].path = p
<1>1. SerialInv /\ [Next]_serverVars => [Tracks]_serverVars
  <2> SUFFICES ASSUME SerialInv, Next, NEW p \in Paths,
                      files[p] = Untracked, files'[p] # Untracked
               PROVE  \E r \in Requests : At(r, "track_store") /\ task[r].path = p
    OBVIOUS
  <2>1. files \in [Paths -> File \cup {Untracked}]
    BY DEF SerialInv, ServerInv, TypeOK, WatcherTypeOK
  <2>2. ~(HandleEvent \/ ExternalStep) /\ ~Idle /\ ~ReloadMissed
    BY OthersKeepTracked
    DEF SerialInv, Idle, WatcherIdle, ReloadMissed, ReloadFails, watcherVars
  <2>3. ASSUME NEW r \in Requests, Call(r)
        PROVE  FALSE
    BY <2>1, <2>3
    DEF Call, Denial, TrackRead, ReadAndParse, ReadFails, UntrackRemove, EditCompute, SaveSnapshot,
        Read, CreateCheck, DeleteCheck, Store, watcherVars
  <2>4. PICK r \in Requests : Proceed(r)
    BY <2>2, <2>3 DEF Next
  <2>5. TrackStore(r) \/ EditCommit(r)
    BY <2>1, <2>4
    DEF Proceed, TrackWatch, UntrackUnwatch, SaveTruncate, SaveFill, CreateTruncate,
        CreateFill, CreateRead, ReadAndParse, ReadFails, DeleteUntrack, DeleteUnwatch, DeleteRemove,
        Failed, Store, watcherVars
  <2>6. task[r].path = p
    BY <2>1, <2>5 DEF TrackStore, EditCommit, Store
  <2> QED
    BY <2>5, <2>6 DEF TrackStore, EditCommit, SerialInv, DraftsTracked
<1> QED
  BY <1>1, SerialInvariant, PTL DEF Spec, OnlyTrackingTracks

-----------------------------------------------------------------------------
(* What is tracked is what is watched. *)

\* The steps before which the registry and the watches differ.
HalfWay == {"track_watch", "untrack_unwatch", "delete_unwatch"}

Between(p) == \E r \in Requests : task[r].step \in HalfWay /\ task[r].path = p

InPair(p) == p \in watched <=> files[p] # Untracked

\* What the handler of r has made sure of and relies on.
Relied(r) ==
    LET p == task[r].path IN
    /\ task[r].step \in {"track_store", "track_watch"} => disk[p] # Absent
    /\ task[r].step = "track_watch" => files[p] # Untracked
    /\ task[r].step \in {"untrack_unwatch", "delete_unwatch", "delete_remove"} =>
          files[p] = Untracked

PairedInv ==
    /\ \A p \in Paths : Between(p) \/ InPair(p)
    /\ \A r \in Requests : Relied(r)

\* A watch on an existing file is granted.
LEMMA WatchGranted ==
    ASSUME Granting, watched \subseteq Paths, NEW p \in Paths, disk[p] # Absent, Watch(p)
    PROVE  watched' = watched \cup {p}
<1>1. CASE p \in watched
  BY <1>1 DEF Watch
<1>2. CASE p \notin watched
  <2>1. watched # Paths
    BY <1>2
  <2>2. /\ Cardinality(watched) \in Nat /\ Cardinality(Paths) \in Nat
        /\ Cardinality(watched) <= Cardinality(Paths)
        /\ Cardinality(watched) # Cardinality(Paths)
    BY <2>1, FS_Subset, FS_CardinalityType DEF Granting
  <2>3. Cardinality(watched) < WatchLimit
    BY <2>2 DEF Granting
  <2> QED
    BY <2>3 DEF Watch
<1> QED
  BY <1>1, <1>2

\* A step of the only call in flight.
LEMMA OneMoves ==
    ASSUME NEW r \in Requests,
           \A s \in Requests \ {r} : task'[s].step \notin Steps,
           Relied(r)',
           \A p \in Paths :
              (task'[r].step \in HalfWay /\ task'[r].path = p) \/ InPair(p)'
    PROVE  PairedInv'
<1>1. \A s \in Requests \ {r} : Relied(s)'
  BY DEF Relied, Steps
<1> QED
  BY <1>1 DEF PairedInv, Between

\* Starting a call.
LEMMA CallPaired ==
    ASSUME Waiting, ServerInv, PairedInv, NEW r \in Requests, Call(r)
    PROVE  PairedInv'
<1>1. \A s \in Requests \ {r} : task'[s].step \notin Steps
  BY CallIsAlone
<1>2. \A p \in Paths : InPair(p)
  BY CallIsAlone DEF PairedInv, Between, HalfWay, Steps
<1>3. task \in [Requests -> Task] /\ files \in [Paths -> File \cup {Untracked}]
  BY DEF ServerInv, TypeOK, WatcherTypeOK
<1>4. ASSUME UNCHANGED <<files, watched>>, Relied(r)'
      PROVE  PairedInv'
  BY <1>1, <1>2, <1>4, OneMoves DEF InPair
<1>5. ASSUME NEW response, Answer(r, response), response \notin Steps
      PROVE  Relied(r)'
  BY <1>3, <1>5 DEF Answer, NoTask, Relied, Steps
<1>6. ASSUME NEW step, NEW p, NEW file, NEW expected, Await(r, step, p, file, expected)
      PROVE  task'[r].step = step /\ task'[r].path = p
  BY <1>3, <1>6 DEF Await
<1>7. {"ok", "error", "conflict"} \cap Steps = {}
  BY DEF Steps
<1>8. ASSUME NEW p \in Paths,
             \/ \E tool \in Tools : Denial(r, tool, p)
             \/ \E expected \in ExpectedVersions : EditCompute(r, p, expected)
             \/ SaveSnapshot(r, p) \/ Read(r, p) \/ DeleteCheck(r, p)
             \/ \E content \in {{}, {r}} : CreateCheck(r, p, content)
      PROVE  PairedInv'
  <2>1. /\ UNCHANGED watcherVars
        /\ \/ Answer(r, "ok") \/ Answer(r, "error") \/ Answer(r, "conflict")
           \/ \E file, expected :
                 \E step \in {"edit_commit", "save_truncate", "create_truncate",
                              "delete_untrack"} : Await(r, step, p, file, expected)
    BY <1>8 DEF Denial, EditCompute, SaveSnapshot, Read, DeleteCheck, CreateCheck
  <2>2. Relied(r)'
    <3>1. CASE Answer(r, "ok") \/ Answer(r, "error") \/ Answer(r, "conflict")
      BY <1>5, <1>7, <3>1
    <3>2. CASE \E file, expected :
                  \E step \in {"edit_commit", "save_truncate", "create_truncate",
                               "delete_untrack"} : Await(r, step, p, file, expected)
      BY <1>6, <3>2 DEF Relied
    <3> QED
      BY <2>1, <3>1, <3>2
  <2> QED
    BY <1>4, <2>1, <2>2 DEF watcherVars
<1>9. ASSUME NEW p \in Paths, TrackRead(r, p)
      PROVE  PairedInv'
  <2>1. CASE ReadFails(r, p, "error")
    BY <1>4, <1>5, <1>7, <2>1 DEF ReadFails
  <2>2. CASE ReadAndParse(r, p)
    <3>1. /\ disk[p] # Absent /\ UNCHANGED <<files, watched, disk>>
          /\ task'[r].step = "track_store" /\ task'[r].path = p
      BY <1>6, <2>2 DEF ReadAndParse
    <3> QED
      BY <1>4, <3>1 DEF Relied
  <2> QED
    BY <1>9, <2>1, <2>2 DEF TrackRead
<1>10. ASSUME NEW p \in Paths, UntrackRemove(r, p)
       PROVE  PairedInv'
  <2>1. files' = [files EXCEPT ![p] = Untracked] /\ UNCHANGED watched
    BY <1>10 DEF UntrackRemove, Store
  <2>2. CASE files[p] = Untracked /\ Answer(r, "error")
    <3>1. files' = files
      BY <1>3, <2>1, <2>2
    <3> QED
      BY <1>4, <1>5, <1>7, <2>1, <2>2, <3>1
  <2>3. CASE Await(r, "untrack_unwatch", p, Untracked, NoVersion)
    <3>1. task'[r].step = "untrack_unwatch" /\ task'[r].path = p
      BY <1>6, <2>3
    <3>2. Relied(r)'
      BY <1>3, <2>1, <3>1 DEF Relied
    <3>3. \A q \in Paths \ {p} : InPair(q)'
      BY <1>2, <1>3, <2>1 DEF InPair
    <3> QED
      BY <1>1, <3>1, <3>2, <3>3, OneMoves DEF HalfWay
  <2> QED
    BY <1>10, <2>2, <2>3 DEF UntrackRemove
<1> QED
  BY <1>8, <1>9, <1>10 DEF Call

\* Going on with a call.
LEMMA ProceedPaired ==
    ASSUME Granting, SerialInv, PairedInv, NEW r \in Requests, Proceed(r)
    PROVE  PairedInv'
<1> DEFINE p == task[r].path
           step == task[r].step
<1>1. /\ step \in Steps /\ p \in Paths
      /\ \A s \in Requests \ {r} : task[s].step \notin Steps
      /\ \A s \in Requests \ {r} : task'[s].step \notin Steps
  BY ProceedIsAlone
<1>2. /\ task \in [Requests -> Task] /\ files \in [Paths -> File \cup {Untracked}]
      /\ watched \subseteq Paths
      /\ step \in FileSteps => task[r].file \in File
  BY DEF SerialInv, ServerInv, TypeOK, WatcherTypeOK, TaskShape
<1>3. \A q \in Paths : InPair(q) \/ (step \in HalfWay /\ q = p)
  BY <1>1 DEF PairedInv, Between, HalfWay, Steps
<1>4. Relied(r)
  BY DEF PairedInv
<1>5. Answer(r, "ok") \/ Answer(r, "error") => task'[r].step \in {"ok", "error"}
  BY <1>2 DEF Answer, NoTask
<1>6. ASSUME NEW new, Goto(r, new)
      PROVE  task'[r].step = new /\ task'[r].path = p
  BY <1>2, <1>6 DEF Goto, Task
<1>7. {"ok", "error"} \cap (Steps \cup HalfWay) = {}
  BY DEF Steps, HalfWay
<1>8. ASSUME task'[r].step \in {"ok", "error"}
      PROVE  Relied(r)'
  BY <1>8 DEF Relied
<1>9. ASSUME step \notin HalfWay, UNCHANGED <<files, watched>>, Relied(r)'
      PROVE  PairedInv'
  BY <1>1, <1>3, <1>9, OneMoves DEF InPair
<1>10. CASE TrackStore(r)
  <2>1. /\ step = "track_store" /\ files' = [files EXCEPT ![p] = task[r].file]
        /\ UNCHANGED <<watched, disk>> /\ Goto(r, "track_watch")
    BY <1>10 DEF TrackStore, At, Store, DiskUnchanged
  <2>2. /\ task[r].file # Untracked /\ disk[p] # Absent
        /\ task'[r].step = "track_watch" /\ task'[r].path = p
    BY <1>2, <1>4, <1>6, <2>1, ConstantsAssumption DEF FileSteps, Relied
  <2>3. Relied(r)'
    BY <1>1, <1>2, <2>1, <2>2 DEF Relied
  <2>4. \A q \in Paths \ {p} : InPair(q)'
    BY <1>2, <1>3, <2>1 DEF InPair
  <2> QED
    BY <1>1, <2>2, <2>3, <2>4, OneMoves DEF HalfWay
<1>11. CASE TrackWatch(r)
  <2>1. step = "track_watch" /\ Watch(p) /\ UNCHANGED <<files, disk>> /\ Answer(r, "ok")
    BY <1>11 DEF TrackWatch, At, DiskUnchanged
  <2>2. files[p] # Untracked /\ watched' = watched \cup {p}
    BY <1>1, <1>2, <1>4, <2>1, WatchGranted DEF Relied
  <2>3. \A q \in Paths : InPair(q)'
    BY <1>3, <2>1, <2>2 DEF InPair
  <2> QED
    BY <1>1, <1>5, <1>8, <2>1, <2>3, OneMoves
<1>12. CASE UntrackUnwatch(r)
  <2>1. step = "untrack_unwatch" /\ watched' = watched \ {p} /\ UNCHANGED files /\ Answer(r, "ok")
    BY <1>12 DEF UntrackUnwatch, Unwatch, At
  <2>2. files[p] = Untracked
    BY <1>4, <2>1 DEF Relied
  <2>3. \A q \in Paths : InPair(q)'
    BY <1>3, <2>1, <2>2 DEF InPair
  <2> QED
    BY <1>1, <1>5, <1>8, <2>1, <2>3, OneMoves
<1>13. CASE EditCommit(r)
  <2>1. /\ step = "edit_commit" /\ files' = [files EXCEPT ![p] = task[r].file]
        /\ UNCHANGED watched /\ Answer(r, "ok")
    BY <1>13 DEF EditCommit, At, Store
  <2>2. files[p] # Untracked /\ task[r].file # Untracked
    BY <1>2, <2>1, ConstantsAssumption DEF FileSteps, SerialInv, DraftsTracked, At
  <2>3. \A q \in Paths : InPair(q)'
    BY <1>1, <1>2, <1>3, <2>1, <2>2 DEF InPair, HalfWay
  <2> QED
    BY <1>1, <1>5, <1>8, <2>1, <2>3, OneMoves
<1>14. CASE SaveTruncate(r) \/ SaveFill(r) \/ CreateTruncate(r) \/ CreateFill(r)
  <2>1. /\ step \notin HalfWay /\ UNCHANGED <<files, watched>>
        /\ \/ Answer(r, "ok") \/ Answer(r, "error")
           \/ Goto(r, "save_fill") \/ Goto(r, "create_fill") \/ Goto(r, "create_read")
    BY <1>14 DEF SaveTruncate, SaveFill, CreateTruncate, CreateFill, Failed, At, HalfWay
  <2>2. task'[r].step \in {"ok", "error", "save_fill", "create_fill", "create_read"}
    BY <1>5, <1>6, <2>1
  <2>3. Relied(r)'
    BY <2>2 DEF Relied
  <2> QED
    BY <1>9, <2>1, <2>3
<1>15. CASE CreateRead(r)
  <2>1. step \notin HalfWay /\ (ReadAndParse(r, p) \/ ReadFails(r, p, "ok"))
    BY <1>15 DEF CreateRead, At, HalfWay
  <2>2. CASE ReadFails(r, p, "ok")
    BY <1>5, <1>8, <1>9, <2>1, <2>2 DEF ReadFails
  <2>3. CASE ReadAndParse(r, p)
    <3>1. /\ disk[p] # Absent /\ UNCHANGED <<files, watched, disk>>
          /\ task'[r].step = "track_store" /\ task'[r].path = p
      BY <1>2, <2>3 DEF ReadAndParse, Await
    <3> QED
      BY <1>9, <2>1, <3>1 DEF Relied
  <2> QED
    BY <2>1, <2>2, <2>3
<1>16. CASE DeleteUntrack(r)
  <2>1. /\ step = "delete_untrack" /\ files' = [files EXCEPT ![p] = Untracked]
        /\ UNCHANGED watched
        /\ Goto(r, IF files[p] = Untracked THEN "delete_remove" ELSE "delete_unwatch")
    BY <1>16 DEF DeleteUntrack, At, Store
  <2>2. task'[r].step \in {"delete_remove", "delete_unwatch"} /\ task'[r].path = p
    BY <1>6, <2>1
  <2>3. Relied(r)'
    BY <1>1, <1>2, <2>1, <2>2 DEF Relied
  <2>4. CASE files[p] = Untracked
    <3>1. files' = files
      BY <1>2, <2>1, <2>4
    <3> QED
      BY <1>9, <2>1, <2>3, <3>1 DEF HalfWay
  <2>5. CASE files[p] # Untracked
    <3>1. task'[r].step = "delete_unwatch"
      BY <1>6, <2>1, <2>5
    <3>2. \A q \in Paths \ {p} : InPair(q)'
      BY <1>2, <1>3, <2>1 DEF InPair
    <3> QED
      BY <1>1, <2>2, <2>3, <3>1, <3>2, OneMoves DEF HalfWay
  <2> QED
    BY <2>4, <2>5
<1>17. CASE DeleteUnwatch(r)
  <2>1. /\ step = "delete_unwatch" /\ watched' = watched \ {p} /\ UNCHANGED files
        /\ Goto(r, "delete_remove")
    BY <1>17 DEF DeleteUnwatch, Unwatch, At
  <2>2. /\ files[p] = Untracked
        /\ task'[r].step = "delete_remove" /\ task'[r].path = p
    BY <1>4, <1>6, <2>1 DEF Relied
  <2>3. Relied(r)'
    BY <2>1, <2>2 DEF Relied
  <2>4. \A q \in Paths : InPair(q)'
    BY <1>3, <2>1, <2>2 DEF InPair
  <2> QED
    BY <1>1, <2>3, <2>4, OneMoves
<1>18. CASE DeleteRemove(r)
  <2>1. /\ step = "delete_remove" /\ UNCHANGED files
        /\ watched' = watched \/ watched' = watched \ {p}
        /\ Answer(r, "ok") \/ Answer(r, "error")
    BY <1>18 DEF DeleteRemove, Unlink, Failed, At, watcherVars
  <2>2. files[p] = Untracked
    BY <1>4, <2>1 DEF Relied
  <2>3. \A q \in Paths : InPair(q)'
    BY <1>3, <2>1, <2>2 DEF InPair, HalfWay
  <2> QED
    BY <1>1, <1>5, <1>8, <2>1, <2>3, OneMoves DEF HalfWay
<1> QED
  BY <1>10, <1>11, <1>12, <1>13, <1>14, <1>15, <1>16, <1>17, <1>18 DEF Proceed

\* Steps of the watcher, of processes that only write, and of nobody.
LEMMA OthersPaired ==
    ASSUME Granting, ServerInv, PairedInv, UNCHANGED task,
           HandleEvent \/ ReloadFails \/ ExternalStep \/ UNCHANGED watcherVars
    PROVE  PairedInv'
<1>1. \A p \in Paths : files[p] = Untracked <=> files'[p] = Untracked
  BY OthersKeepTracked DEF ReloadFails, watcherVars
<1>2. UNCHANGED watched /\ \A p \in Paths : disk[p] # Absent => disk'[p] # Absent
  <2>1. CASE ExternalStep
    <3>1. \/ \E x \in ExternalWrites, p \in Paths : ExternalTruncate(x, p)
          \/ \E x \in ExternalWrites : ExternalFill(x)
      BY <2>1 DEF ExternalStep, ExternalRemove, ExternalReplace, Outside, Granting
    <3>2. disk \in [Paths -> {Absent} \cup Text]
      BY DEF ServerInv, TypeOK, WatcherTypeOK
    <3>3. ASSUME NEW x \in ExternalWrites, NEW p \in Paths, ExternalTruncate(x, p)
          PROVE  UNCHANGED watched /\ \A q \in Paths : disk[q] # Absent => disk'[q] # Absent
      BY <3>2, <3>3, ConstantsAssumption DEF ExternalTruncate, Truncate, Text
    <3>4. ASSUME NEW x \in ExternalWrites, ExternalFill(x)
          PROVE  UNCHANGED watched /\ \A q \in Paths : disk[q] # Absent => disk'[q] # Absent
      <4>1. UNCHANGED <<files, watched>> /\ Fill(x, {x})
        BY <3>4 DEF ExternalFill
      <4>2. x \in Writers /\ {x} \in Text
        BY DEF Writers, Text, Marks
      <4>3. CASE UNCHANGED disk
        BY <4>1, <4>3
      <4>4. CASE /\ handle[x] # NoPath
                 /\ \E tail \in SUBSET disk[handle[x]] :
                       disk' = [disk EXCEPT ![handle[x]] = {x} \cup tail]
        <5>1. handle[x] \in Paths /\ disk[handle[x]] \in Text
          BY <3>2, <4>2, <4>4 DEF ServerInv, TypeOK, WatcherTypeOK, WatchOnExisting
        <5>2. PICK tail \in SUBSET disk[handle[x]] :
                       disk' = [disk EXCEPT ![handle[x]] = {x} \cup tail]
          BY <4>4
        <5>3. {x} \cup tail \in Text
          BY <4>2, <5>1, <5>2 DEF Text
        <5> QED
          BY <3>2, <4>1, <5>1, <5>2, <5>3, ConstantsAssumption
      <4> QED
        BY <4>1, <4>3, <4>4 DEF Fill
    <3> QED
      BY <3>1, <3>3, <3>4
  <2>2. CASE HandleEvent \/ ReloadFails \/ UNCHANGED watcherVars
    BY <2>2 DEF HandleEvent, ReloadFails, watcherVars
  <2> QED
    BY <2>1, <2>2
<1>3. \A p \in Paths : InPair(p) <=> InPair(p)'
  BY <1>1, <1>2 DEF InPair
<1>4. ASSUME NEW r \in Requests
      PROVE  Relied(r)'
  <2>1. task[r].step \in Steps => task[r].path \in Paths
    BY DEF ServerInv, TaskShape
  <2> QED
    BY <1>1, <1>2, <2>1 DEF PairedInv, Relied, Steps
<1> QED
  BY <1>3, <1>4 DEF PairedInv, Between

\* The registry and the watches agree but in the middle of a call.
THEOREM PairedInvariant == ASSUME Waiting, Granting PROVE Spec => []PairedInv
<1>1. Init => PairedInv
  <2> SUFFICES ASSUME Init
               PROVE  PairedInv
    OBVIOUS
  <2>1. Parse({Original}) # Untracked
    <3>1. {Original} \in Text
      BY DEF Text, Marks
    <3> QED
      BY <3>1, ParseType, ConstantsAssumption
  <2>2. \A p \in Paths : InPair(p)
    BY <2>1 DEF Init, WatcherInit, InPair
  <2> QED
    BY <2>2 DEF PairedInv, Relied, Init, NoTask
<1>2. SerialInv /\ PairedInv /\ [Next]_serverVars => PairedInv'
  <2> SUFFICES ASSUME SerialInv, PairedInv, Next \/ UNCHANGED serverVars
               PROVE  PairedInv'
    OBVIOUS
  <2>1. ServerInv
    BY DEF SerialInv
  <2>2. ASSUME NEW r \in Requests, Call(r) \/ Proceed(r)
        PROVE  PairedInv'
    BY <2>1, <2>2, CallPaired, ProceedPaired
  <2>3. CASE (HandleEvent \/ ExternalStep) /\ UNCHANGED task
    BY <2>1, <2>3, OthersPaired
  <2>4. CASE Idle \/ ReloadMissed \/ UNCHANGED serverVars
    BY <2>1, <2>4, OthersPaired DEF Idle, WatcherIdle, ReloadMissed, serverVars
  <2> QED
    BY <2>2, <2>3, <2>4 DEF Next
<1> QED
  BY <1>1, <1>2, SerialInvariant, PTL DEF Spec

\* With the client waiting, with watches enough, and with other processes that
\* remove nothing, exactly the tracked files are watched whenever no call is in
\* flight: every handler ends with what it began in the registry.
THEOREM SerialWatching == ASSUME Waiting, Granting PROVE Spec => []WatchedIffTracked
<1>1. SerialInv /\ PairedInv => WatchedIffTracked
  BY DEF SerialInv, ServerInv, TypeOK, WatcherTypeOK, PairedInv, Between, InPair,
         HalfWay, Steps, InFlight, WatchedIffTracked
<1> QED
  BY <1>1, SerialInvariant, PairedInvariant, PTL

\* The versions of the files in the registry, and of an edit, are numbers.
LEMMA VersionsAreNat ==
    ASSUME SerialInv
    PROVE  /\ files \in [Paths -> File \cup {Untracked}]
           /\ TasksOK
           /\ \A f \in File : f.version \in Nat
BY DEF SerialInv, ServerInv, TypeOK, WatcherTypeOK, TasksOK, File

-----------------------------------------------------------------------------
(* What an edit is stored over. *)

\* A file that is there can be read, so no reload that is due fails.
Readable == ~IOFails

\* An edit in flight is one of the file in the registry, or that file was reloaded
\* under it and has followed the disk since.
OverwritingInv ==
    \A r \in Requests :
        At(r, "edit_commit") =>
            LET p == task[r].path IN
            task[r].file \in Edits(files[p], r) \/ p \notin detached

\* A file that is being edited is tracked and watched.
LEMMA EditedIsWatched ==
    ASSUME SerialInv, PairedInv, NEW r \in Requests, At(r, "edit_commit")
    PROVE  /\ task[r].path \in Paths
           /\ files[task[r].path] # Untracked
           /\ task[r].path \in watched
<1>1. task[r].path \in Paths /\ files[task[r].path] # Untracked
  BY DEF SerialInv, DraftsTracked, ServerInv, TaskShape, At, Steps
<1>2. ~Between(task[r].path)
  BY DEF Between, HalfWay, Steps, SerialInv, Alone, InFlight, At
<1> QED
  BY <1>1, <1>2 DEF PairedInv, InPair

\* Starting an edit drafts the next version of the file as it is.
LEMMA DraftsAreEdits ==
    ASSUME SerialInv, NEW r \in Requests, Call(r), At(r, "edit_commit")'
    PROVE  task'[r].file \in Edits(files'[task'[r].path], r)
<1>1. TasksOK
  BY VersionsAreNat
<1>2. ~Answer(r, "error") /\ ~Answer(r, "ok") /\ ~Answer(r, "conflict")
  BY <1>1, AnswerMoves DEF At
<1>3. \A step, p, file, expected :
         Await(r, step, p, file, expected) =>
            /\ step = "edit_commit"
            /\ task'[r].path = p /\ task'[r].file = file
  BY <1>1, AwaitMoves DEF At
<1>4. PICK p \in Paths, expected \in ExpectedVersions : EditCompute(r, p, expected)
  BY <1>2, <1>3
  DEF Call, Denial, TrackRead, ReadAndParse, ReadFails, UntrackRemove, SaveSnapshot, Read,
      CreateCheck, DeleteCheck
<1>5. PICK draft \in Edits(files[p], r) : Await(r, "edit_commit", p, draft, expected)
  BY <1>2, <1>4 DEF EditCompute
<1>6. UNCHANGED files
  BY <1>4 DEF EditCompute, watcherVars
<1> QED
  BY <1>3, <1>5, <1>6

\* Steps of the watcher, of processes that only write, and of nobody.
LEMMA OthersOverwriting ==
    ASSUME SerialInv, PairedInv, OverwritingInv, UNCHANGED task,
           HandleEvent \/ ExternalStep \/ UNCHANGED watcherVars, detached' = Detached
    PROVE  OverwritingInv'
<1> SUFFICES ASSUME NEW r \in Requests, At(r, "edit_commit"),
                    task[r].file \notin Edits(files'[task[r].path], r)
             PROVE  task[r].path \notin detached'
  BY DEF OverwritingInv, At
<1> DEFINE p == task[r].path
<1>1. p \in Paths /\ p \in watched
  BY EditedIsWatched
<1>2. CASE files'[p] = files[p]
  <2>1. p \notin detached
    BY <1>2 DEF OverwritingInv
  <2> QED
    BY <1>1, <1>2, <2>1 DEF Detached
<1>3. CASE files'[p] # files[p]
  <2>1. HandleEvent
    BY <1>3 DEF ExternalStep, ExternalTruncate, ExternalFill, ExternalRemove,
                ExternalReplace, Outside, watcherVars
  <2>2. /\ files' = [files EXCEPT ![Head(channel).path] =
                       NextVersion(files[Head(channel).path], disk[Head(channel).path])]
        /\ UNCHANGED disk
    BY <1>3, <2>1 DEF HandleEvent, ReloadFile
  <2>3. files'[p] = NextVersion(files[p], disk[p])
    BY <1>1, <1>3, <2>2 DEF SerialInv, ServerInv, TypeOK, WatcherTypeOK
  <2>4. files'[p].text = disk'[p]
    BY <2>2, <2>3 DEF NextVersion, ParseWithVersion
  <2> QED
    BY <1>3, <2>4 DEF Detached
<1> QED
  BY <1>2, <1>3

\* With the client waiting, with watches enough, files that can be read, and other
\* processes that remove nothing, the only thing an edit is ever stored over, besides
\* the file it was made of, is a reload, and then one that has the disk's text or is
\* due to get it: nothing is overwritten that is not on the disk.
THEOREM SerialOverwriting ==
    ASSUME Waiting, Granting, Readable
    PROVE  Spec => OnlyReloadsAreOverwritten
<1> DEFINE Overwrites ==
             \A r \in Requests :
                At(r, "edit_commit") /\ ~At(r, "edit_commit")' =>
                    LET p == task[r].path IN
                    /\ files[p] # Untracked
                    /\ task[r].file \in Edits(files[p], r) \/ InSync(p)
<1>1. Init => OverwritingInv
  BY DEF Init, OverwritingInv, At, NoTask
<1>2. SerialInv /\ PairedInv /\ OverwritingInv /\ [Next]_serverVars => OverwritingInv'
  <2> SUFFICES ASSUME SerialInv, PairedInv, OverwritingInv, Next \/ UNCHANGED serverVars
               PROVE  OverwritingInv'
    OBVIOUS
  <2>1. TasksOK
    BY VersionsAreNat
  <2>2. ASSUME NEW r \in Requests, Call(r)
        PROVE  OverwritingInv'
    <3>1. \A s \in Requests \ {r} : ~At(s, "edit_commit")'
      BY <2>2, CallIsAlone DEF SerialInv, At, Steps
    <3> QED
      BY <2>2, <3>1, DraftsAreEdits DEF OverwritingInv
  <2>3. ASSUME NEW r \in Requests, Proceed(r)
        PROVE  OverwritingInv'
    <3>1. \A s \in Requests \ {r} : ~At(s, "edit_commit")'
      BY <2>3, ProceedIsAlone DEF At, Steps
    <3>2. ~At(r, "edit_commit")'
      BY <2>1, <2>3, AnswerMoves, AwaitMoves, GotoMoves
      DEF Proceed, TrackStore, TrackWatch, UntrackUnwatch, EditCommit, SaveTruncate,
          SaveFill, CreateTruncate, CreateFill, CreateRead, ReadAndParse, ReadFails,
          DeleteUntrack, DeleteUnwatch, DeleteRemove, Failed, At
    <3> QED
      BY <3>1, <3>2 DEF OverwritingInv
  <2>4. CASE (HandleEvent \/ ExternalStep \/ UNCHANGED watcherVars) /\ UNCHANGED task
             /\ detached' = Detached
    BY <2>4, OthersOverwriting
  <2>5. CASE UNCHANGED serverVars
    BY <2>5 DEF OverwritingInv, At, serverVars, watcherVars
  <2>6. ~ReloadMissed
    BY DEF ReloadMissed, Readable
  <2> QED
    BY <2>2, <2>3, <2>4, <2>5, <2>6 DEF Next, Idle, WatcherIdle
<1>3. SerialInv /\ PairedInv /\ OverwritingInv => [Overwrites]_serverVars
  <2> SUFFICES ASSUME SerialInv, PairedInv, OverwritingInv,
                      NEW r \in Requests, At(r, "edit_commit")
               PROVE  LET p == task[r].path IN
                      /\ files[p] # Untracked
                      /\ task[r].file \in Edits(files[p], r) \/ InSync(p)
    OBVIOUS
  <2>1. /\ task[r].path \in Paths /\ files[task[r].path] # Untracked
        /\ task[r].path \in watched
    BY EditedIsWatched
  <2>2. disk[task[r].path] # Absent
    BY <2>1 DEF SerialInv, ServerInv, WatchOnExisting
  <2> QED
    BY <2>1, <2>2 DEF OverwritingInv, SerialInv, ServerInv, Followed
<1> QED
  BY <1>1, <1>2, <1>3, SerialInvariant, PairedInvariant, PTL
  DEF Spec, OnlyReloadsAreOverwritten

-----------------------------------------------------------------------------
(* What is saved is what the registry had. *)

\* Other processes are not calls, and only write.
WritersBeside ==
    /\ ExternalOps \subseteq {"write"}
    /\ Requests \cap ExternalWrites = {}

\* A file that is being saved holds nothing but what was written beside.
SavingInv ==
    \A r \in Requests :
        At(r, "save_fill") =>
            /\ handle[r] = task[r].path
            /\ disk[task[r].path] # Absent
            /\ disk[task[r].path] \subseteq ExternalWrites

\* Steps of the watcher, of processes that only write, and of nobody.
LEMMA OthersSaving ==
    ASSUME WritersBeside, ServerInv, SavingInv, UNCHANGED task,
           HandleEvent \/ ReloadFails \/ ExternalStep \/ UNCHANGED watcherVars
    PROVE  SavingInv'
<1> SUFFICES ASSUME NEW r \in Requests, At(r, "save_fill")
             PROVE  /\ handle'[r] = task[r].path
                    /\ disk'[task[r].path] # Absent
                    /\ disk'[task[r].path] \subseteq ExternalWrites
  BY DEF SavingInv, At
<1> DEFINE p == task[r].path
<1>1. /\ handle[r] = p /\ disk[p] # Absent /\ disk[p] \subseteq ExternalWrites
      /\ p \in Paths /\ r \notin ExternalWrites
  <2>1. p \in Paths
    BY DEF ServerInv, TaskShape, At, Steps
  <2> QED
    BY <2>1 DEF SavingInv, WritersBeside
<1>2. /\ disk \in [Paths -> {Absent} \cup Text]
      /\ handle \in [Writers -> Paths \cup {NoPath}] /\ r \in Writers
      /\ \A text \in SUBSET ExternalWrites : text \in Text /\ text # Absent
  BY ConstantsAssumption
  DEF ServerInv, TypeOK, WatcherTypeOK, Text, Marks, Writers
<1>3. ASSUME NEW x \in ExternalWrites, NEW q \in Paths, ExternalTruncate(x, q)
      PROVE  /\ handle'[r] = p /\ disk'[p] # Absent /\ disk'[p] \subseteq ExternalWrites
  BY <1>1, <1>2, <1>3 DEF ExternalTruncate, Truncate
<1>4. ASSUME NEW x \in ExternalWrites, ExternalFill(x)
      PROVE  /\ handle'[r] = p /\ disk'[p] # Absent /\ disk'[p] \subseteq ExternalWrites
  <2>1. handle'[r] = p
    BY <1>1, <1>2, <1>4 DEF ExternalFill, Fill
  <2>2. disk'[p] = disk[p] \/ \E tail \in SUBSET disk[p] : disk'[p] = {x} \cup tail
    BY <1>1, <1>2, <1>4 DEF ExternalFill, Fill
  <2> QED
    BY <1>1, <1>2, <2>1, <2>2
<1>5. CASE ExternalStep
  <2>1. \/ \E x \in ExternalWrites, q \in Paths : ExternalTruncate(x, q)
        \/ \E x \in ExternalWrites : ExternalFill(x)
    BY <1>5 DEF ExternalStep, ExternalRemove, ExternalReplace, Outside, WritersBeside
  <2> QED
    BY <1>3, <1>4, <2>1
<1>6. CASE HandleEvent \/ ReloadFails \/ UNCHANGED watcherVars
  BY <1>1, <1>6 DEF HandleEvent, ReloadFails, watcherVars
<1> QED
  BY <1>5, <1>6

\* With the client waiting, a save that is answered "ok" has written all of the
\* text that the registry had when it began, although it was written after the
\* lock was dropped, and at most a process that wrote beside it is mixed in.
THEOREM SerialSaving == ASSUME Waiting, WritersBeside PROVE Spec => SaveIsLossless
<1> DEFINE Lossless ==
             \A r \in Requests :
                At(r, "save_fill") /\ task'[r].step = "ok" =>
                   LET text == task[r].file.text
                       saved == disk'[task[r].path]
                   IN text \subseteq saved /\ saved \ text \subseteq ExternalWrites
<1>1. Init => SavingInv
  BY DEF Init, SavingInv, At, NoTask
<1>2. SerialInv /\ SavingInv /\ [Next]_serverVars => SavingInv'
  <2> SUFFICES ASSUME SerialInv, SavingInv, Next \/ UNCHANGED serverVars
               PROVE  SavingInv'
    OBVIOUS
  <2>1. ServerInv /\ task \in [Requests -> Task]
    BY DEF SerialInv, ServerInv, TypeOK
  <2>2. ASSUME NEW r \in Requests, Call(r)
        PROVE  SavingInv'
    <3>1. task'[r].step # "save_fill"
      <4> SUFFICES ASSUME task'[r].step = "save_fill"
                   PROVE  FALSE
        OBVIOUS
      <4>1. ~Answer(r, "ok") /\ ~Answer(r, "error") /\ ~Answer(r, "conflict")
        BY <2>1 DEF Answer, NoTask
      <4>2. \A step, p, file, expected :
              Await(r, step, p, file, expected) => step = "save_fill"
        BY <2>1 DEF Await
      <4> QED
        BY <2>2, <4>1, <4>2
        DEF Call, Denial, TrackRead, ReadAndParse, ReadFails, UntrackRemove, EditCompute,
            SaveSnapshot, Read, CreateCheck, DeleteCheck
    <3>2. \A s \in Requests \ {r} : task'[s].step \notin Steps
      BY <2>1, <2>2, CallIsAlone
    <3> QED
      BY <3>1, <3>2 DEF SavingInv, At, Steps
  <2>3. ASSUME NEW r \in Requests, Proceed(r)
        PROVE  SavingInv'
    <3>1. \A s \in Requests \ {r} : task'[s].step \notin Steps
      BY <2>3, ProceedIsAlone
    <3>2. task[r].path \in Paths
      BY <2>3, ProceedIsAlone
    <3>3. ASSUME task'[r].step = "save_fill"
          PROVE  /\ handle'[r] = task'[r].path
                 /\ disk'[task'[r].path] = {}
      <4>1. Truncate(r, task[r].path) /\ Goto(r, "save_fill")
        BY <2>1, <2>3, <3>3
        DEF Proceed, TrackStore, TrackWatch, UntrackUnwatch, EditCommit, SaveTruncate,
            SaveFill, CreateTruncate, CreateFill, CreateRead, ReadAndParse, ReadFails,
            DeleteUntrack, DeleteUnwatch, DeleteRemove, Failed, Await, Answer, Goto,
            NoTask, At, Task
      <4>2. /\ disk \in [Paths -> {Absent} \cup Text]
            /\ handle \in [Writers -> Paths \cup {NoPath}] /\ r \in Writers
        BY <2>1 DEF ServerInv, TypeOK, WatcherTypeOK, Writers
      <4>3. task'[r].path = task[r].path
        BY <2>1, <4>1 DEF Goto, Task
      <4> QED
        BY <3>2, <4>1, <4>2, <4>3 DEF Truncate
    <3>4. {} # Absent
      BY ConstantsAssumption DEF Text
    <3> QED
      BY <3>1, <3>3, <3>4 DEF SavingInv, At, Steps
  <2>4. CASE (HandleEvent \/ ExternalStep) /\ UNCHANGED task
    BY <2>1, <2>4, OthersSaving
  <2>5. CASE Idle \/ ReloadMissed \/ UNCHANGED serverVars
    BY <2>1, <2>5, OthersSaving DEF Idle, WatcherIdle, ReloadMissed, serverVars
  <2> QED
    BY <2>2, <2>3, <2>4, <2>5 DEF Next
<1>3. SerialInv /\ SavingInv /\ [Next]_serverVars => [Lossless]_serverVars
  <2> SUFFICES ASSUME SerialInv, SavingInv, Next,
                      NEW r \in Requests, At(r, "save_fill"), task'[r].step = "ok"
               PROVE  LET text == task[r].file.text
                          saved == disk'[task[r].path]
                      IN text \subseteq saved /\ saved \ text \subseteq ExternalWrites
    OBVIOUS
  <2> DEFINE p == task[r].path
             text == task[r].file.text
  <2>1. /\ p \in Paths /\ p # NoPath /\ handle[r] = p
        /\ disk[p] \subseteq ExternalWrites
        /\ disk \in [Paths -> {Absent} \cup Text]
    BY ConstantsAssumption
    DEF SerialInv, ServerInv, TaskShape, TypeOK, WatcherTypeOK, SavingInv, At, Steps
  <2>2. task' # task /\ ~UNCHANGED task
    BY DEF At
  <2>3. \A s \in Requests : Call(s) => s = r /\ FALSE
    <3>1. task[r].step \in Steps
      BY DEF At, Steps
    <3> QED
      BY <3>1, CallIsAlone DEF SerialInv
  <2>4. Proceed(r)
    <3>1. PICK s \in Requests : Proceed(s)
      BY <2>2, <2>3 DEF Next, Idle, ReloadMissed
    <3>2. task[r].step \in Steps
      BY DEF At, Steps
    <3> QED
      BY <3>1, <3>2, ProceedIsAlone
  <2>5. Fill(r, text)
    <3>1. SaveFill(r)
      BY <2>4 DEF Proceed, TrackStore, TrackWatch, UntrackUnwatch, EditCommit,
        SaveTruncate, CreateTruncate, CreateFill, CreateRead, DeleteUntrack,
        DeleteUnwatch, DeleteRemove, At
    <3>2. ~Answer(r, "error")
      BY DEF Answer, NoTask, SerialInv, ServerInv, TypeOK
    <3> QED
      BY <3>1, <3>2 DEF SaveFill, Failed
  <2>6. \/ text = {} /\ disk' = disk
        \/ \E tail \in SUBSET disk[p] : disk' = [disk EXCEPT ![p] = text \cup tail]
    BY <2>1, <2>5 DEF Fill
  <2> QED
    BY <2>1, <2>6
<1> QED
  BY <1>1, <1>2, <1>3, SerialInvariant, PTL DEF Spec, SaveIsLossless

-----------------------------------------------------------------------------
(* The versions the client was given. *)

\* Nothing the client was given is of a later version than the file, or than an
\* edit of it that waits to be stored.
SeenInv ==
    /\ seen \subseteq Paths \X File
    /\ \A s \in seen :
          LET file == files[s[1]] IN
          file # Untracked =>
             /\ s[2].version <= file.version
             /\ s[2].version = file.version => s[2].text = file.text
    /\ \A r \in Requests : At(r, "edit_commit") =>
          \A s \in seen : s[1] = task[r].path => s[2].version < task[r].file.version

\* A client's step is a step of the server.
LEMMA ClientStepIsServerStep == [ClientNext]_clientVars => [Next]_serverVars
BY DEF ClientNext, ClientRead, ClientEdit, ClientTrack, clientVars, Next, Call, Proceed

\* When one file goes or gets a version beyond those that were given, and no
\* edit is in flight afterwards but of that version, nothing is contradicted.
LEMMA SeenStep ==
    ASSUME SerialInv, SeenInv, UNCHANGED seen, NEW p \in Paths,
           \E file \in {Untracked} \cup File :
              /\ files' = [files EXCEPT ![p] = file]
              /\ file # Untracked =>
                   \A s \in seen : s[1] = p => s[2].version < file.version,
           \A r \in Requests : ~At(r, "edit_commit")' \/ UNCHANGED task[r]
    PROVE  SeenInv'
<1>1. PICK file \in {Untracked} \cup File :
         /\ files' = [files EXCEPT ![p] = file]
         /\ file # Untracked =>
              \A s \in seen : s[1] = p => s[2].version < file.version
  OBVIOUS
<1>2. /\ \A q \in Paths : files'[q] = IF q = p THEN file ELSE files[q]
      /\ \A f \in File : f.version \in Nat
  BY <1>1, VersionsAreNat
<1>3. ASSUME NEW s \in seen, files'[s[1]] # Untracked
      PROVE  /\ s[2].version <= files'[s[1]].version
             /\ s[2].version = files'[s[1]].version => s[2].text = files'[s[1]].text
  <2>1. s[1] \in Paths /\ s[2] \in File /\ s[2].version \in Nat
    BY <1>2 DEF SeenInv
  <2>2. CASE s[1] = p
    <3>1. files'[s[1]] = file /\ file \in File /\ s[2].version < file.version
      BY <1>1, <1>2, <1>3, <2>1, <2>2
    <3>2. file.version \in Nat
      BY <1>2, <3>1
    <3> QED
      BY <2>1, <3>1, <3>2
  <2>3. CASE s[1] # p
    BY <1>2, <1>3, <2>1, <2>3 DEF SeenInv
  <2> QED
    BY <2>2, <2>3
<1>4. \A r \in Requests : At(r, "edit_commit")' =>
         \A s \in seen : s[1] = task'[r].path => s[2].version < task'[r].file.version
  BY DEF SeenInv, At
<1> QED
  BY <1>3, <1>4 DEF SeenInv

\* A step that leaves the registry alone, and begins no edit.
LEMMA SeenKept ==
    ASSUME SeenInv, UNCHANGED <<seen, files>>,
           \A r \in Requests : ~At(r, "edit_commit")' \/ UNCHANGED task[r]
    PROVE  SeenInv'
BY DEF SeenInv, At

\* An edit is the next version.
LEMMA EditsAreNext ==
    ASSUME NEW f, NEW r, NEW draft \in Edits(f, r)
    PROVE  draft.version = f.version + 1
BY DEF Edits, ReplaceNode, DeleteNode, InsertText, NextVersion, ParseWithVersion

\* Starting a call that gives the client no version.
LEMMA CallSeen ==
    ASSUME Waiting, SerialInv, SeenInv, UNCHANGED seen, NEW r \in Requests, Call(r)
    PROVE  SeenInv'
<1>1. /\ \A s \in Requests : task[s].step \notin Steps
      /\ \A s \in Requests \ {r} : task'[s] = task[s]
  BY CallIsAlone DEF SerialInv
<1>2. TasksOK /\ files \in [Paths -> File \cup {Untracked}]
  BY VersionsAreNat
<1>3. CASE \E p \in Paths : UntrackRemove(r, p)
  <2>1. PICK p \in Paths : UntrackRemove(r, p)
    BY <1>3
  <2>2. ~At(r, "edit_commit")'
    BY <1>2, <2>1, AnswerMoves, AwaitMoves DEF UntrackRemove, At
  <2> QED
    BY <1>1, <2>1, <2>2, SeenStep DEF UntrackRemove, Store
<1>4. CASE \E p \in Paths, expected \in ExpectedVersions :
              EditCompute(r, p, expected) /\ At(r, "edit_commit")'
  <2>1. PICK p \in Paths, expected \in ExpectedVersions :
           EditCompute(r, p, expected) /\ At(r, "edit_commit")'
    BY <1>4
  <2>2. UNCHANGED files
    BY <2>1 DEF EditCompute, watcherVars
  <2>3. /\ files[p] # Untracked
        /\ \E draft \in Edits(files[p], r) : Await(r, "edit_commit", p, draft, expected)
    BY <1>2, <2>1, AnswerMoves DEF EditCompute, At
  <2>4. PICK draft \in Edits(files[p], r) : Await(r, "edit_commit", p, draft, expected)
    BY <2>3
  <2>5. /\ task'[r].path = p /\ task'[r].file.version = files[p].version + 1
        /\ files[p].version \in Nat
    BY <1>2, <2>3, <2>4, AwaitMoves, EditsAreNext, VersionsAreNat
  <2>6. ASSUME NEW s \in seen, s[1] = p
        PROVE  s[2].version < task'[r].file.version
    <3>1. s[2].version \in Nat /\ s[2].version <= files[p].version
      BY <2>3, <2>6, VersionsAreNat DEF SeenInv
    <3> QED
      BY <2>5, <3>1
  <2> QED
    BY <1>1, <2>2, <2>5, <2>6 DEF SeenInv, At, Steps
<1>5. CASE /\ ~\E p \in Paths : UntrackRemove(r, p)
           /\ ~\E p \in Paths, expected \in ExpectedVersions :
                 EditCompute(r, p, expected) /\ At(r, "edit_commit")'
  <2>1. UNCHANGED files
    BY <1>5
    DEF Call, Denial, TrackRead, ReadAndParse, ReadFails, EditCompute, SaveSnapshot, Read,
        CreateCheck, DeleteCheck, watcherVars
  <2>2. ASSUME At(r, "edit_commit")'
        PROVE  FALSE
    <3>1. ~Answer(r, "ok") /\ ~Answer(r, "error") /\ ~Answer(r, "conflict")
      BY <1>2, <2>2, AnswerMoves DEF At
    <3>2. \A step, p, file, expected :
            Await(r, step, p, file, expected) => step = "edit_commit"
      BY <1>2, <2>2, AwaitMoves DEF At
    <3> QED
      BY <1>5, <2>2, <3>1, <3>2
      DEF Call, Denial, TrackRead, ReadAndParse, ReadFails, SaveSnapshot, Read, CreateCheck,
          DeleteCheck
  <2> QED
    BY <1>1, <2>1, <2>2, SeenKept
<1> QED
  BY <1>3, <1>4, <1>5

\* Going on with a call that tracks no file.
LEMMA ProceedSeen ==
    ASSUME SerialInv, SeenInv, UNCHANGED seen, NEW r \in Requests, Proceed(r),
           ~TrackStore(r)
    PROVE  SeenInv'
<1> DEFINE p == task[r].path
<1>1. /\ p \in Paths
      /\ \A s \in Requests \ {r} : task'[s] = task[s]
  BY ProceedIsAlone
<1>2. TasksOK /\ files \in [Paths -> File \cup {Untracked}]
  BY VersionsAreNat
<1>3. \A s \in Requests : ~At(s, "edit_commit")' \/ UNCHANGED task[s]
  <2>1. ~At(r, "edit_commit")'
    BY <1>2, AnswerMoves, AwaitMoves, GotoMoves
    DEF Proceed, TrackStore, TrackWatch, UntrackUnwatch, EditCommit, SaveTruncate,
        SaveFill, CreateTruncate, CreateFill, CreateRead, ReadAndParse, ReadFails,
        DeleteUntrack, DeleteUnwatch, DeleteRemove, Failed, At
  <2> QED
    BY <1>1, <2>1
<1>4. CASE EditCommit(r)
  <2>1. /\ At(r, "edit_commit") /\ task[r].file \in File
        /\ files' = [files EXCEPT ![p] = task[r].file]
    BY <1>4 DEF EditCommit, Store, At, SerialInv, ServerInv, TaskShape, FileSteps
  <2>2. \A s \in seen : s[1] = p => s[2].version < task[r].file.version
    BY <2>1 DEF SeenInv
  <2> QED
    BY <1>1, <1>3, <2>1, <2>2, SeenStep
<1>5. CASE DeleteUntrack(r)
  BY <1>1, <1>3, <1>5, SeenStep DEF DeleteUntrack, Store
<1>6. CASE ~EditCommit(r) /\ ~DeleteUntrack(r)
  <2>1. UNCHANGED files
    BY <1>6
    DEF Proceed, TrackWatch, UntrackUnwatch, SaveTruncate, SaveFill, CreateTruncate,
        CreateFill, CreateRead, ReadAndParse, ReadFails, DeleteUnwatch, DeleteRemove, Failed,
        watcherVars
  <2> QED
    BY <1>3, <2>1, SeenKept
<1> QED
  BY <1>4, <1>5, <1>6

\* A reload is the next version of the file it replaces.
LEMMA OthersSeen ==
    ASSUME SerialInv, SeenInv, UNCHANGED <<seen, task>>,
           HandleEvent \/ ReloadFails \/ ExternalStep \/ UNCHANGED watcherVars
    PROVE  SeenInv'
<1>1. CASE UNCHANGED files
  BY <1>1, SeenKept DEF At
<1>2. CASE HandleEvent /\ files' # files
  <2> DEFINE p == Head(channel).path
  <2>1. /\ files[p] # Untracked /\ disk[p] # Absent
        /\ files' = [files EXCEPT ![p] = NextVersion(files[p], disk[p])]
    BY <1>2 DEF HandleEvent, ReloadFile
  <2>2. p \in Paths
    <3>1. channel \in Seq(Event) /\ channel # <<>>
      BY <1>2 DEF HandleEvent, SerialInv, ServerInv, TypeOK, WatcherTypeOK
    <3>2. Head(channel) \in Event
      BY <3>1
    <3> QED
      BY <3>2 DEF Event
  <2>3. files[p] \in File /\ disk[p] \in Text /\ files[p].version \in Nat
    BY <2>1, <2>2, VersionsAreNat DEF SerialInv, ServerInv, TypeOK, WatcherTypeOK
  <2>4. /\ NextVersion(files[p], disk[p]) \in File
        /\ NextVersion(files[p], disk[p]).version = files[p].version + 1
    BY <2>3 DEF NextVersion, ParseWithVersion, File
  <2>5. ASSUME NEW s \in seen, s[1] = p
        PROVE  s[2].version < files[p].version + 1
    <3>1. s[2].version \in Nat /\ s[2].version <= files[p].version
      BY <2>1, <2>5, VersionsAreNat DEF SeenInv
    <3> QED
      BY <2>3, <3>1
  <2> HIDE DEF p
  <2>6. \A r \in Requests : UNCHANGED task[r]
    OBVIOUS
  <2>7. \E file \in {Untracked} \cup File :
           /\ files' = [files EXCEPT ![p] = file]
           /\ file # Untracked =>
                \A s \in seen : s[1] = p => s[2].version < file.version
    BY <2>1, <2>4, <2>5, Zenon
  <2> QED
    BY <2>2, <2>6, <2>7, SeenStep
<1> QED
  BY <1>1, <1>2
  DEF ReloadFails, ExternalStep, ExternalTruncate, ExternalFill, ExternalRemove,
      ExternalReplace, Outside, watcherVars

\* A version that is read is the file's; one that is made is beyond all that
\* were given; tracking voids what was given.
LEMMA GivenSeen ==
    ASSUME Waiting, SerialInv, SeenInv, NEW r \in Requests,
           (\E p \in Paths : ClientRead(r, p)) \/ ClientEdit(r) \/ ClientTrack(r)
    PROVE  SeenInv'
<1>1. TasksOK /\ files \in [Paths -> File \cup {Untracked}]
  BY VersionsAreNat
<1>2. ASSUME NEW p \in Paths, ClientRead(r, p)
      PROVE  SeenInv'
  <2>1. /\ Read(r, p) /\ At(r, "ok")' /\ seen' = seen \cup {<<p, files[p]>>}
    BY <1>2 DEF ClientRead
  <2>2. /\ \A s \in Requests : task[s].step \notin Steps
        /\ \A s \in Requests \ {r} : task'[s] = task[s]
    BY <2>1, CallIsAlone DEF SerialInv, Call
  <2>3. UNCHANGED files /\ files[p] \in File
    BY <1>1, <2>1, AnswerMoves DEF Read, At, watcherVars
  <2>4. \A s \in Requests : ~At(s, "edit_commit")'
    BY <2>1, <2>2 DEF At, Steps
  <2>5. files[p].version \in Nat
    BY <2>3, VersionsAreNat
  <2> QED
    BY <2>1, <2>3, <2>4, <2>5 DEF SeenInv
<1>3. CASE ClientEdit(r)
  <2> DEFINE p == task[r].path
             file == task[r].file
  <2>1. /\ EditCommit(r) /\ seen' = seen \cup {<<p, file>>}
    BY <1>3 DEF ClientEdit
  <2>2. /\ p \in Paths
        /\ \A s \in Requests \ {r} : task'[s] = task[s] /\ task[s].step \notin Steps
    BY <2>1, ProceedIsAlone DEF Proceed
  <2>3. /\ At(r, "edit_commit") /\ file \in File /\ ~At(r, "edit_commit")'
        /\ files' = [files EXCEPT ![p] = file]
    BY <1>1, <2>1, AnswerMoves
    DEF EditCommit, Store, At, SerialInv, ServerInv, TaskShape, FileSteps
  <2>4. \A s \in Requests : ~At(s, "edit_commit")'
    BY <2>2, <2>3 DEF At, Steps
  <2>5. \A s \in seen : s[1] = p => s[2].version < file.version
    BY <2>3 DEF SeenInv
  <2>6. \A f \in File : f.version \in Nat
    BY VersionsAreNat
  <2>7. \A q \in Paths : files'[q] = IF q = p THEN file ELSE files[q]
    BY <1>1, <2>3
  <2>8. ASSUME NEW s \in seen', files'[s[1]] # Untracked
        PROVE  /\ s[2].version <= files'[s[1]].version
               /\ s[2].version = files'[s[1]].version => s[2].text = files'[s[1]].text
    <3>1. CASE s = <<p, file>>
      BY <2>2, <2>3, <2>6, <2>7, <3>1
    <3>2. CASE s \in seen /\ s[1] = p
      <4>1. s[2].version \in Nat /\ file.version \in Nat /\ files'[s[1]] = file
        BY <2>2, <2>3, <2>6, <2>7, <3>2 DEF SeenInv
      <4> QED
        BY <2>5, <3>2, <4>1
    <3>3. CASE s \in seen /\ s[1] # p
      BY <2>7, <2>8, <3>3 DEF SeenInv
    <3> QED
      BY <2>1, <3>1, <3>2, <3>3
  <2> QED
    BY <2>1, <2>2, <2>3, <2>4, <2>8 DEF SeenInv
<1>4. CASE ClientTrack(r)
  <2> DEFINE p == task[r].path
  <2>1. /\ TrackStore(r) /\ seen' = {s \in seen : s[1] # p}
    BY <1>4 DEF ClientTrack
  <2>2. \A s \in Requests \ {r} : task'[s] = task[s] /\ task[s].step \notin Steps
    BY <2>1, ProceedIsAlone DEF Proceed
  <2>3. files' = [files EXCEPT ![p] = task[r].file] /\ task'[r].step = "track_watch"
    BY <1>1, <2>1, GotoMoves DEF TrackStore, Store
  <2>4. \A s \in Requests : ~At(s, "edit_commit")'
    BY <2>2, <2>3 DEF At, Steps
  <2>5. \A s \in seen' : s \in seen /\ files'[s[1]] = files[s[1]]
    BY <1>1, <2>1, <2>3 DEF SeenInv
  <2> QED
    BY <2>1, <2>4, <2>5 DEF SeenInv
<1> QED
  BY <1>2, <1>3, <1>4

\* With the client waiting, a version it was given names one text, until it
\* tracks the file again: an expected_version it passes back either finds that
\* text in the registry or is refused, as check_version promises.
THEOREM VersionsNameTexts ==
    ASSUME Waiting
    PROVE  ClientSpec => []GivenVersionsNameTexts
<1>1. ClientInit => Init /\ SeenInv
  BY DEF ClientInit, Init, SeenInv, At, NoTask
<1>2. SerialInv /\ SeenInv /\ [ClientNext]_clientVars => SeenInv'
  <2> SUFFICES ASSUME SerialInv, SeenInv, ClientNext \/ UNCHANGED clientVars
               PROVE  SeenInv'
    OBVIOUS
  <2>1. CASE UNCHANGED clientVars
    BY <2>1, OthersSeen DEF clientVars, serverVars
  <2>2. CASE \E r \in Requests :
                (\E p \in Paths : ClientRead(r, p)) \/ ClientEdit(r) \/ ClientTrack(r)
    BY <2>2, GivenSeen
  <2>3. CASE /\ Next /\ UNCHANGED seen
             /\ \A r \in Requests : ~At(r, "track_store") \/ UNCHANGED task[r]
    <3>1. ASSUME NEW r \in Requests, TrackStore(r)
          PROVE  FALSE
      <4>1. At(r, "track_store") /\ task'[r].step = "track_watch"
        BY <3>1, VersionsAreNat, GotoMoves DEF TrackStore
      <4> QED
        BY <2>3, <4>1 DEF At
    <3>2. CASE \E r \in Requests : Call(r) \/ Proceed(r)
      BY <2>3, <3>1, <3>2, CallSeen, ProceedSeen
    <3>3. CASE (HandleEvent \/ ExternalStep) /\ UNCHANGED task
      BY <2>3, <3>3, OthersSeen
    <3>4. CASE Idle \/ ReloadMissed
      BY <2>3, <3>4, OthersSeen DEF Idle, WatcherIdle, ReloadMissed
    <3> QED
      BY <2>3, <3>2, <3>3, <3>4 DEF Next
  <2> QED
    BY <2>1, <2>2, <2>3 DEF ClientNext
<1>3. SeenInv => GivenVersionsNameTexts
  BY DEF SeenInv, GivenVersionsNameTexts
<1>4. ClientSpec => Spec
  BY <1>1, ClientStepIsServerStep, PTL DEF ClientSpec, Spec
<1> QED
  BY <1>1, <1>2, <1>3, <1>4, SerialInvariant, PTL DEF ClientSpec
===============================================================================
