-------------------------- MODULE FileWatcher_proofs --------------------------
(***************************************************************************)
(* Proofs about FileWatcher: its type correctness, and that no change of a *)
(* watched file is missed, for any paths, outside processes and writes.    *)
(*                                                                         *)
(* WatchedInSync is not inductive alone: a reload of a file that is gone   *)
(* changes nothing, so an event is consumed in vain unless only existing   *)
(* files are watched.  WatcherInv is the conjunction that is.              *)
(***************************************************************************)
EXTENDS FileWatcher, TLAPS

WatcherInv ==
    /\ WatcherTypeOK
    /\ WatchOnExisting
    /\ WatchedInSync

-----------------------------------------------------------------------------
(* The queue. *)

\* Sending an event yields a queue of events.
LEMMA SentType ==
    ASSUME NEW queue \in Seq(Event), NEW p \in Paths, NEW kind \in EventKind
    PROVE  Sent(queue, p, kind) \in Seq(Event)
<1>1. [path |-> p, kind |-> kind] \in Event
  BY DEF Event
<1> QED
  BY <1>1 DEF Sent

\* Sending an event about any path takes no announcement away.
LEMMA SentKeeps ==
    ASSUME NEW queue \in Seq(Event), NEW q \in Paths, NEW kind \in EventKind,
           NEW p, Announces(queue, p)
    PROVE  Announces(Sent(queue, q, kind), p)
<1>1. [path |-> q, kind |-> kind] \in Event
  BY DEF Event
<1>2. PICK i \in 1..Len(queue) :
           queue[i].path = p /\ queue[i].kind \in ReloadKinds
  BY DEF Announces
<1>3. CASE q \in watched
  <2> DEFINE sent == Append(queue, [path |-> q, kind |-> kind])
  <2>1. i \in 1..Len(sent) /\ sent[i] = queue[i]
    BY <1>1
  <2> QED
    BY <2>1, <1>2, <1>3 DEF Sent, Announces
<1> QED
  BY <1>3 DEF Sent

\* The event of a change of a watched path announces its reload.
LEMMA SentAnnounces ==
    ASSUME NEW queue \in Seq(Event), NEW p \in watched, p \in Paths,
           NEW kind \in ReloadKinds, kind \in EventKind
    PROVE  Announces(Sent(queue, p, kind), p)
<1> DEFINE event == [path |-> p, kind |-> kind]
           sent == Append(queue, event)
<1>1. event \in Event
  BY DEF Event
<1>2. Len(sent) \in 1..Len(sent) /\ sent[Len(sent)] = event
  BY <1>1
<1> QED
  BY <1>2 DEF Sent, Announces

\* Handling an event that is not a reload of p takes no reload of p away.
LEMMA TailKeeps ==
    ASSUME NEW queue \in Seq(Event), queue # <<>>, NEW p, Announces(queue, p),
           ~(Head(queue).path = p /\ Head(queue).kind \in ReloadKinds)
    PROVE  Announces(Tail(queue), p)
<1>1. PICK i \in 1..Len(queue) :
           queue[i].path = p /\ queue[i].kind \in ReloadKinds
  BY DEF Announces
<1>2. i # 1
  BY <1>1
<1>3. i - 1 \in 1..Len(Tail(queue)) /\ Tail(queue)[i - 1] = queue[i]
  BY <1>2
<1> QED
  BY <1>1, <1>3 DEF Announces

-----------------------------------------------------------------------------
(* The disk.  Each lemma says what one kind of step on the disk preserves; *)
(* the tool calls of CstServer are made of the same steps.                 *)

\* A path that exists stays in sync if it is watched or its content is kept.
Kept ==
    \A q \in Paths :
        /\ InSync(q)
        /\ disk[q] # Absent
        /\ q \in watched \/ disk'[q] = disk[q]
        => InSync(q)'

\* Opening a file for a write: types are kept, and what it makes differ of a
\* watched file is announced.
LEMMA TruncateLemma ==
    ASSUME WatcherTypeOK, WatchOnExisting,
           NEW w \in Writers, NEW p \in Paths, Truncate(w, p),
           UNCHANGED <<files, watched>>
    PROVE  /\ disk' \in [Paths -> {Absent} \cup Text]
           /\ handle' \in [Writers -> Paths \cup {NoPath}]
           /\ channel' \in Seq(Event)
           /\ WatchOnExisting'
           /\ Kept
<1> USE DEF WatcherTypeOK
<1>1. "modify" \in EventKind /\ "modify" \in ReloadKinds
  BY DEF EventKind, ReloadKinds
<1>2. channel' = Sent(channel, p, "modify")
  BY DEF Truncate, Modified
<1>3. /\ disk' \in [Paths -> {Absent} \cup Text]
      /\ handle' \in [Writers -> Paths \cup {NoPath}]
  BY DEF Truncate, Text
<1>4. channel' \in Seq(Event)
  BY <1>1, <1>2, SentType
<1>5. WatchOnExisting'
  <2>1. disk'[p] # Absent /\ \A q \in Paths \ {p} : disk'[q] = disk[q]
    BY ConstantsAssumption DEF Truncate, Text
  <2> QED
    BY <2>1 DEF Truncate, WatchOnExisting
<1>6. ASSUME NEW q \in Paths, InSync(q), q \in watched \/ disk'[q] = disk[q]
      PROVE  InSync(q)'
  <2>1. CASE q = p /\ q \in watched
    BY <2>1, <1>1, <1>2, SentAnnounces DEF InSync, Pending
  <2>2. CASE q # p \/ q \notin watched
    <3>1. disk'[q] = disk[q]
      BY <1>6, <2>2 DEF Truncate
    <3>2. Pending(q) => Pending(q)'
      BY <1>1, <1>2, SentKeeps DEF Pending
    <3> QED
      BY <1>6, <3>1, <3>2 DEF InSync
  <2> QED
    BY <2>1, <2>2
<1> QED
  BY <1>3, <1>4, <1>5, <1>6 DEF Kept

\* Writing the text: the same.
LEMMA FillLemma ==
    ASSUME WatcherTypeOK, WatchOnExisting,
           NEW w \in Writers, NEW text \in Text, Fill(w, text),
           UNCHANGED <<files, watched>>
    PROVE  /\ disk' \in [Paths -> {Absent} \cup Text]
           /\ handle' \in [Writers -> Paths \cup {NoPath}]
           /\ channel' \in Seq(Event)
           /\ WatchOnExisting'
           /\ Kept
<1> USE DEF WatcherTypeOK
<1>1. "modify" \in EventKind /\ "modify" \in ReloadKinds
  BY DEF EventKind, ReloadKinds
<1>2. handle' \in [Writers -> Paths \cup {NoPath}]
  BY DEF Fill
<1>3. CASE UNCHANGED <<disk, channel>>
  <2>1. WatchOnExisting'
    BY <1>3, ConstantsAssumption DEF Fill, WatchOnExisting
  <2>2. Kept
    BY <1>3 DEF Kept, InSync, Pending
  <2> QED
    BY <1>2, <1>3, <2>1, <2>2
<1>4. CASE /\ handle[w] # NoPath
           /\ \E tail \in SUBSET disk[handle[w]] :
                 disk' = [disk EXCEPT ![handle[w]] = text \cup tail]
           /\ Modified(handle[w])
  <2> DEFINE p == handle[w]
  <2>1. p \in Paths /\ disk[p] \in Text
    BY <1>4 DEF WatchOnExisting
  <2>2. PICK tail \in SUBSET disk[p] : disk' = [disk EXCEPT ![p] = text \cup tail]
    BY <1>4
  <2>3. text \cup tail \in Text
    BY <2>1, <2>2 DEF Text
  <2>4. disk' \in [Paths -> {Absent} \cup Text]
    BY <2>1, <2>2, <2>3
  <2>5. channel' = Sent(channel, p, "modify")
    BY <1>4 DEF Modified
  <2>6. channel' \in Seq(Event)
    BY <1>1, <2>1, <2>5, SentType
  <2>7. WatchOnExisting'
    <3>1. disk'[p] # Absent /\ \A q \in Paths \ {p} : disk'[q] = disk[q]
      BY <2>1, <2>2, <2>3, ConstantsAssumption
    <3> QED
      BY <3>1 DEF Fill, WatchOnExisting
  <2>8. ASSUME NEW q \in Paths, InSync(q), q \in watched \/ disk'[q] = disk[q]
        PROVE  InSync(q)'
    <3>1. CASE q = p /\ q \in watched
      BY <3>1, <1>1, <2>1, <2>5, SentAnnounces DEF InSync, Pending
    <3>2. CASE q # p \/ q \notin watched
      <4>1. disk'[q] = disk[q]
        BY <2>8, <3>2, <2>2
      <4>2. Pending(q) => Pending(q)'
        BY <1>1, <2>1, <2>5, SentKeeps DEF Pending
      <4> QED
        BY <2>8, <4>1, <4>2 DEF InSync
    <3> QED
      BY <3>1, <3>2
  <2> QED
    BY <1>2, <2>4, <2>6, <2>7, <2>8 DEF Kept
<1> QED
  BY <1>3, <1>4 DEF Fill

\* Removing or replacing a file: the same, and it is watched no longer.
LEMMA UnlinkLemma ==
    ASSUME WatcherTypeOK, WatchOnExisting,
           NEW p \in Paths, NEW content \in {Absent} \cup Text,
           Unlink(p, content), UNCHANGED files
    PROVE  /\ disk' \in [Paths -> {Absent} \cup Text]
           /\ handle' \in [Writers -> Paths \cup {NoPath}]
           /\ channel' \in Seq(Event)
           /\ watched' = watched \ {p}
           /\ WatchOnExisting'
           /\ Kept
<1> USE DEF WatcherTypeOK
<1> DEFINE first == Sent(channel, p, "modify")
<1>1. /\ "modify" \in EventKind /\ "remove" \in EventKind
      /\ "modify" \in ReloadKinds
  BY DEF EventKind, ReloadKinds
<1>2. first \in Seq(Event) /\ channel' = Sent(first, p, "remove")
  BY <1>1, SentType DEF Unlink
<1>3. channel' \in Seq(Event)
  BY <1>1, <1>2, SentType
<1>4. /\ disk' \in [Paths -> {Absent} \cup Text]
      /\ handle' \in [Writers -> Paths \cup {NoPath}]
      /\ watched' = watched \ {p}
  BY DEF Unlink
<1>5. WatchOnExisting'
  <2>1. \A q \in Paths \ {p} : disk'[q] = disk[q]
    BY DEF Unlink
  <2>2. \A w \in Writers : handle'[w] # NoPath => handle'[w] = handle[w] /\ handle[w] # p
    BY DEF Unlink
  <2> QED
    BY <1>4, <2>1, <2>2 DEF WatchOnExisting
<1>6. ASSUME NEW q \in Paths, InSync(q), q \in watched \/ disk'[q] = disk[q]
      PROVE  InSync(q)'
  <2>1. CASE q = p /\ q \in watched
    <3>1. Announces(first, q)
      BY <1>1, <2>1, SentAnnounces
    <3> QED
      BY <1>1, <1>2, <3>1, SentKeeps DEF InSync, Pending
  <2>2. CASE q # p \/ q \notin watched
    <3>1. disk'[q] = disk[q]
      BY <1>6, <2>2 DEF Unlink
    <3>2. Pending(q) => Pending(q)'
      BY <1>1, <1>2, SentKeeps DEF Pending
    <3> QED
      BY <1>6, <3>1, <3>2 DEF InSync
  <2> QED
    BY <2>1, <2>2
<1> QED
  BY <1>3, <1>4, <1>5, <1>6 DEF Kept

\* Handling an event: the registry is kept typed, and a reload consumed in
\* vain was of a file that is not tracked, or does not exist.
LEMMA HandleEventLemma ==
    ASSUME WatcherTypeOK, WatchOnExisting, HandleEvent
    PROVE  /\ files' \in [Paths -> File \cup {Untracked}]
           /\ channel' \in Seq(Event)
           /\ UNCHANGED <<disk, handle, watched, external>>
           /\ WatchOnExisting'
           /\ Kept
<1> USE DEF WatcherTypeOK
<1> DEFINE p == Head(channel).path
           kind == Head(channel).kind
<1>1. UNCHANGED <<disk, handle, watched, external>> /\ channel # <<>>
  BY DEF HandleEvent
<1>2. WatchOnExisting'
  BY <1>1 DEF WatchOnExisting
<1>3. Head(channel) \in Event /\ Tail(channel) \in Seq(Event)
  BY <1>1
<1>4. p \in Paths
  BY <1>3 DEF Event
<1>5. CASE /\ files[p] # Untracked /\ disk[p] # Absent
           /\ files' = [files EXCEPT ![p] = NextVersion(@, disk[p])]
           /\ channel' = Opened(Tail(channel), p)
  <2>1. files' \in [Paths -> File \cup {Untracked}]
    BY <1>4, <1>5 DEF NextVersion, ParseWithVersion, File
  <2>2. "access" \in EventKind
    BY DEF EventKind
  <2>3. channel' \in Seq(Event)
    BY <1>3, <1>4, <1>5, <2>2, SentType DEF Opened
  <2>4. ASSUME NEW q \in Paths, InSync(q)
        PROVE  InSync(q)'
    <3>1. CASE q = p
      <4>1. files'[p].text = disk[p]
        BY <1>4, <1>5 DEF NextVersion, ParseWithVersion
      <4> QED
        BY <1>1, <3>1, <4>1 DEF InSync
    <3>2. CASE q # p
      <4>1. files'[q] = files[q] /\ disk'[q] = disk[q]
        BY <1>1, <1>5, <3>2
      <4>2. ASSUME Pending(q)
            PROVE  Pending(q)'
        <5>1. Announces(Tail(channel), q)
          BY <1>1, <3>2, <4>2, TailKeeps DEF Pending
        <5>2. Announces(Opened(Tail(channel), p), q)
          BY <1>3, <1>4, <2>2, <5>1, SentKeeps DEF Opened
        <5> QED
          BY <1>5, <5>2 DEF Pending
      <4> QED
        BY <2>4, <4>1, <4>2 DEF InSync
    <3> QED
      BY <3>1, <3>2
  <2> QED
    BY <1>1, <1>2, <2>1, <2>3, <2>4 DEF Kept
<1>6. CASE /\ kind \in ReloadKinds => files[p] = Untracked \/ disk[p] = Absent
           /\ UNCHANGED files
           /\ channel' = Tail(channel)
  <2>1. ASSUME NEW q \in Paths, InSync(q), disk[q] # Absent
        PROVE  InSync(q)'
    <3>1. CASE q = p /\ kind \in ReloadKinds
      <4>1. files'[q] = Untracked
        BY <1>6, <2>1, <3>1
      <4> QED
        BY <4>1 DEF InSync
    <3>2. CASE ~(q = p /\ kind \in ReloadKinds)
      <4>1. Pending(q) => Pending(q)'
        BY <1>1, <1>6, <3>2, TailKeeps DEF Pending
      <4> QED
        BY <1>1, <1>6, <2>1, <4>1 DEF InSync
    <3> QED
      BY <3>1, <3>2
  <2> QED
    BY <1>1, <1>2, <1>3, <1>6, <2>1 DEF Kept
<1> QED
  BY <1>5, <1>6 DEF HandleEvent, ReloadFile

\* A reload that fails spends one event, and takes no other file's reload away.
LEMMA ReloadFailsLemma ==
    ASSUME WatcherTypeOK, ReloadFails
    PROVE  /\ Head(channel) \in Event /\ Head(channel).path \in Paths
           /\ channel' \in Seq(Event)
           /\ \A p \in Paths :
                 Announces(channel, p)
                 /\ ~(Head(channel).path = p /\ Head(channel).kind \in ReloadKinds)
                 => Announces(channel', p)
<1> DEFINE event == Head(channel)
           rest == Tail(channel)
<1>1. channel \in Seq(Event) /\ event \in Event /\ rest \in Seq(Event)
  BY DEF ReloadFails, WatcherTypeOK
<1>2. event.path \in Paths /\ "access" \in EventKind
  BY <1>1 DEF Event, EventKind
<1>3. channel' \in {rest, Sent(rest, event.path, "access")}
  BY DEF ReloadFails, Opened
<1>4. channel' \in Seq(Event)
  BY <1>1, <1>2, <1>3, SentType
<1>5. ASSUME NEW p \in Paths, Announces(channel, p),
             ~(event.path = p /\ event.kind \in ReloadKinds)
      PROVE  Announces(channel', p)
  <2>1. Announces(rest, p)
    BY <1>1, <1>5, TailKeeps DEF ReloadFails
  <2> QED
    BY <1>1, <1>2, <1>3, <2>1, SentKeeps
<1> QED
  BY <1>1, <1>2, <1>4, <1>5

-----------------------------------------------------------------------------
(* The specification. *)

\* The initial state: every tracked file is as it is on the disk.
LEMMA WatcherInitInv == WatcherInit => WatcherInv
<1> SUFFICES ASSUME WatcherInit
             PROVE  WatcherInv
  OBVIOUS
<1> USE DEF WatcherInit
<1>1. {Original} \in Text
  BY DEF Text, Marks
<1>2. Parse({Original}) \in File
  BY <1>1 DEF Parse, ParseWithVersion, File
<1>3. WatcherTypeOK
  <2>1. files \in [Paths -> File \cup {Untracked}]
    BY <1>2
  <2>2. disk \in [Paths -> {Absent} \cup Text]
    BY <1>1
  <2>3. handle \in [Writers -> Paths \cup {NoPath}]
    OBVIOUS
  <2>4. channel \in Seq(Event) /\ watched \subseteq Paths
    BY ConstantsAssumption
  <2>5. external \in [ExternalWrites -> {"new", "open", "done"}]
    OBVIOUS
  <2> QED
    BY <2>1, <2>2, <2>3, <2>4, <2>5 DEF WatcherTypeOK
<1>4. WatchOnExisting
  BY <1>1, ConstantsAssumption DEF WatchOnExisting
<1>5. WatchedInSync
  BY ConstantsAssumption DEF WatchedInSync, InSync, Parse, ParseWithVersion
<1> QED
  BY <1>3, <1>4, <1>5 DEF WatcherInv

\* A step of an outside process: types are kept, what it makes differ of a
\* watched file is announced, and nothing is watched that was not before.
LEMMA ExternalStepLemma ==
    ASSUME WatcherTypeOK, WatchOnExisting, ExternalStep
    PROVE  WatcherTypeOK' /\ WatchOnExisting' /\ Kept /\ watched' \subseteq watched
<1> DEFINE Goal == WatcherTypeOK' /\ WatchOnExisting' /\ Kept /\ watched' \subseteq watched
<1>1. ASSUME NEW x \in ExternalWrites, NEW p \in Paths, ExternalTruncate(x, p)
      PROVE  Goal
  <2>1. UNCHANGED <<files, watched>> /\ Truncate(x, p) /\ x \in Writers
    BY <1>1 DEF ExternalTruncate, Outside, Writers
  <2>2. external' \in [ExternalWrites -> {"new", "open", "done"}]
    BY <1>1 DEF ExternalTruncate, Outside, WatcherTypeOK
  <2> QED
    BY <2>1, <2>2, TruncateLemma DEF WatcherTypeOK
<1>2. ASSUME NEW x \in ExternalWrites, ExternalFill(x)
      PROVE  Goal
  <2>1. UNCHANGED <<files, watched>> /\ Fill(x, {x})
    BY <1>2 DEF ExternalFill
  <2>2. x \in Writers /\ {x} \in Text
    BY DEF Writers, Text, Marks
  <2>3. external' \in [ExternalWrites -> {"new", "open", "done"}]
    BY <1>2 DEF ExternalFill, WatcherTypeOK
  <2> QED
    BY <2>1, <2>2, <2>3, FillLemma DEF WatcherTypeOK
<1>3. ASSUME NEW x \in ExternalWrites, NEW p \in Paths,
             ExternalRemove(x, p) \/ ExternalReplace(x, p)
      PROVE  Goal
  <2>1. external' \in [ExternalWrites -> {"new", "open", "done"}]
    BY <1>3 DEF ExternalRemove, ExternalReplace, Outside, WatcherTypeOK
  <2>2. PICK content \in {Absent} \cup Text : Unlink(p, content)
    <3>1. {x} \in Text
      BY DEF Text, Marks
    <3> QED
      BY <1>3, <3>1 DEF ExternalRemove, ExternalReplace
  <2>3. UNCHANGED files
    BY <1>3 DEF ExternalRemove, ExternalReplace, Outside
  <2> QED
    BY <2>1, <2>2, <2>3, UnlinkLemma DEF WatcherTypeOK
<1> QED
  BY <1>1, <1>2, <1>3 DEF ExternalStep

\* Every step keeps the invariant.
LEMMA WatcherNextInv == WatcherInv /\ [WatcherNext]_watcherVars => WatcherInv'
<1> SUFFICES ASSUME WatcherInv, [WatcherNext]_watcherVars
             PROVE  WatcherInv'
  OBVIOUS
<1> USE DEF WatcherInv
<1>1. ASSUME Kept, watched' \subseteq watched
      PROVE  WatchedInSync'
  BY <1>1 DEF Kept, WatchedInSync, WatchOnExisting, WatcherTypeOK
<1>2. CASE HandleEvent
  BY <1>1, <1>2, HandleEventLemma DEF WatcherTypeOK
<1>3. CASE ExternalStep
  BY <1>1, <1>3, ExternalStepLemma
<1>4. CASE UNCHANGED watcherVars
  BY <1>4 DEF watcherVars, WatcherTypeOK, WatchOnExisting, WatchedInSync,
              InSync, Pending
<1> QED
  BY <1>2, <1>3, <1>4 DEF WatcherNext, WatcherIdle

\* The registry's watcher is type correct, and nothing but existing files is
\* watched or open for writing.
THEOREM WatcherInvariant == WatcherSpec => []WatcherInv
<1>1. WatcherInit => WatcherInv
  BY WatcherInitInv
<1>2. WatcherInv /\ [WatcherNext]_watcherVars => WatcherInv'
  BY WatcherNextInv
<1> QED
  BY <1>1, <1>2, PTL DEF WatcherSpec

\* Type correctness of the watcher, its channel and the disk.
THEOREM WatcherTypeCorrect == WatcherSpec => []WatcherTypeOK
<1>1. WatcherInv => WatcherTypeOK
  BY DEF WatcherInv
<1> QED
  BY <1>1, WatcherInvariant, PTL

\* No change of a watched file is missed: reload_file takes the content of
\* the disk under the registry's lock, and every later change is announced.
THEOREM WatcherMissesNothing == WatcherSpec => []WatchedInSync
<1>1. WatcherInv => WatchedInSync
  BY DEF WatcherInv
<1> QED
  BY <1>1, WatcherInvariant, PTL
===============================================================================
