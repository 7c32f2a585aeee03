------------------------- MODULE WatcherFaults_proofs -------------------------
(***************************************************************************)
(* Proofs about WatcherFaults: however many events are lost, to a full     *)
(* queue or to files that cannot be read, no other change of a watched     *)
(* file is missed.  The steps that lose nothing are those of FileWatcher,  *)
(* and the lemmas about them are the same.                                 *)
(***************************************************************************)
EXTENDS WatcherFaults, FileWatcher_proofs, SequenceTheorems

FaultInv ==
    /\ WatcherTypeOK
    /\ WatchOnExisting
    /\ OnlyLossesAreMissed

\* The queue without its element i.
Without(queue, i) == SubSeq(queue, 1, i - 1) \o SubSeq(queue, i + 1, Len(queue))

\* Losing an event that is not a reload of p takes no reload of p away.
LEMMA WithoutKeeps ==
    ASSUME NEW queue \in Seq(Event), NEW i \in 1..Len(queue), NEW p,
           Announces(queue, p),
           ~(queue[i].path = p /\ queue[i].kind \in ReloadKinds)
    PROVE  Announces(Without(queue, i), p)
<1>1. PICK j \in 1..Len(queue) :
           queue[j].path = p /\ queue[j].kind \in ReloadKinds
  BY DEF Announces
<1>2. j # i
  BY <1>1
<1> DEFINE front == SubSeq(queue, 1, i - 1)
           back == SubSeq(queue, i + 1, Len(queue))
<1>3. /\ front \in Seq(Event)
      /\ Len(front) = i - 1
      /\ \A k \in 1..i - 1 : front[k] = queue[k]
  OBVIOUS
<1>4. /\ back \in Seq(Event)
      /\ Len(back) = Len(queue) - i
      /\ \A k \in 1..Len(queue) - i : back[k] = queue[i + k]
  OBVIOUS
<1> HIDE DEF front, back
<1> DEFINE rest == front \o back
<1>5. /\ Len(rest) = Len(queue) - 1
      /\ \A k \in 1..Len(queue) - 1 :
            rest[k] = IF k <= i - 1 THEN front[k] ELSE back[k - (i - 1)]
  <2>1. Len(front) + Len(back) = Len(queue) - 1
    BY <1>3, <1>4
  <2>2. front \in Seq(Event) /\ back \in Seq(Event)
    BY <1>3, <1>4
  <2>3. /\ Len(rest) = Len(front) + Len(back)
        /\ \A k \in 1..Len(front) + Len(back) :
              rest[k] = IF k <= Len(front) THEN front[k] ELSE back[k - Len(front)]
    BY <2>2, ConcatProperties, Zenon
  <2>4. Len(front) = i - 1
    BY <1>3
  <2> QED
    BY <2>1, <2>3, <2>4, Zenon
<1> HIDE DEF rest
<1>6. CASE j < i
  <2>1. j \in 1..Len(rest) /\ rest[j] = queue[j]
    BY <1>3, <1>5, <1>6
  <2> QED
    BY <1>1, <2>1 DEF Without, Announces, front, back, rest
<1>7. CASE j > i
  <2>1. /\ j - i \in 1..Len(queue) - i /\ i + (j - i) = j
        /\ j - 1 \in 1..Len(queue) - 1 /\ (j - 1) - (i - 1) = j - i
        /\ ~(j - 1 <= i - 1)
    BY <1>7
  <2>2. j - 1 \in 1..Len(rest) /\ rest[j - 1] = queue[j]
    BY <1>4, <1>5, <2>1
  <2> QED
    BY <1>1, <2>2 DEF Without, Announces, front, back, rest
<1> QED
  BY <1>2, <1>6, <1>7

\* A file that was reloaded is as it is on the disk.
LEMMA ReloadedInSync ==
    ASSUME WatcherTypeOK, HandleEvent, NEW p \in Reloaded
    PROVE  InSync(p)'
<1>1. p = Head(channel).path /\ files' = [files EXCEPT ![p] = NextVersion(@, disk[p])]
  BY DEF WatcherTypeOK, HandleEvent, ReloadFile, Reloaded
<1>2. files'[p].text = disk'[p]
  BY <1>1 DEF WatcherTypeOK, HandleEvent, Reloaded, NextVersion, ParseWithVersion
<1> QED
  BY <1>2 DEF InSync

\* An event is lost, and nothing else happens but the queue getting shorter, by
\* that event, and perhaps longer by one that is no reload.
LEMMA LoseLemma ==
    ASSUME FaultInv, UNCHANGED <<files, disk, handle, watched, external>>,
           NEW event \in Event, Lose(event), channel' \in Seq(Event),
           \A p \in Paths :
              /\ Announces(channel, p)
              /\ ~(event.path = p /\ event.kind \in ReloadKinds)
              => Announces(channel', p)
    PROVE  FaultInv'
<1> USE DEF FaultInv, WatcherTypeOK
<1>1. ASSUME NEW p \in watched' \ lost'
      PROVE  InSync(p)'
  <2>1. /\ p \in Paths /\ p \in watched \ lost
        /\ ~(event.path = p /\ event.kind \in ReloadKinds)
    BY <1>1 DEF Lose
  <2>2. InSync(p)
    BY <2>1 DEF OnlyLossesAreMissed
  <2> QED
    BY <2>1, <2>2 DEF InSync, Pending
<1>2. WatchOnExisting'
  BY DEF WatchOnExisting
<1> QED
  BY <1>1, <1>2 DEF OnlyLossesAreMissed

\* Every step keeps the invariant.
LEMMA FaultNextInv == FaultInv /\ [FaultNext]_faultVars => FaultInv'
<1> SUFFICES ASSUME FaultInv, [FaultNext]_faultVars
             PROVE  FaultInv'
  OBVIOUS
<1> USE DEF FaultInv
<1>1. CASE HandleEvent /\ lost' = lost \ Reloaded /\ UNCHANGED losses
  <2>1. Kept /\ UNCHANGED <<disk, handle, watched, external>> /\ WatchOnExisting'
    BY <1>1, HandleEventLemma
  <2>2. WatcherTypeOK'
    BY <1>1, <2>1, HandleEventLemma DEF WatcherTypeOK
  <2>3. ASSUME NEW p \in watched' \ lost'
        PROVE  InSync(p)'
    <3>1. CASE p \in Reloaded
      BY <1>1, <3>1, ReloadedInSync
    <3>2. CASE p \notin Reloaded
      BY <1>1, <2>1, <2>3, <3>2
      DEF Kept, OnlyLossesAreMissed, WatchOnExisting, WatcherTypeOK
    <3> QED
      BY <3>1, <3>2
  <2> QED
    BY <2>1, <2>2, <2>3 DEF OnlyLossesAreMissed
<1>2. CASE ReloadLost
  <2>1. /\ UNCHANGED <<files, disk, handle, watched, external>>
        /\ Lose(Head(channel))
    BY <1>2 DEF ReloadLost, ReloadFails
  <2> QED
    BY <1>2, <2>1, ReloadFailsLemma, LoseLemma DEF ReloadLost
<1>3. CASE Overflow
  <2>1. PICK i \in 1..Len(channel) : channel' = Without(channel, i) /\ Lose(channel[i])
    BY <1>3 DEF Overflow, Without
  <2>2. channel \in Seq(Event) /\ channel[i] \in Event /\ channel' \in Seq(Event)
    BY <2>1 DEF Without, WatcherTypeOK
  <2>3. ASSUME NEW p \in Paths, Announces(channel, p),
               ~(channel[i].path = p /\ channel[i].kind \in ReloadKinds)
        PROVE  Announces(channel', p)
    BY <2>1, <2>2, <2>3, WithoutKeeps
  <2>4. UNCHANGED <<files, disk, handle, watched, external>>
    BY <1>3 DEF Overflow
  <2> QED
    BY <2>1, <2>2, <2>3, <2>4, LoseLemma
<1>4. CASE ExternalStep /\ UNCHANGED <<lost, losses>>
  <2>1. WatcherTypeOK' /\ WatchOnExisting' /\ Kept /\ watched' \subseteq watched
    BY <1>4, ExternalStepLemma
  <2> QED
    BY <1>4, <2>1 DEF Kept, OnlyLossesAreMissed, WatchOnExisting, WatcherTypeOK
<1>5. CASE UNCHANGED faultVars \/ (WatcherIdle /\ UNCHANGED <<lost, losses>>)
  BY <1>5 DEF faultVars, WatcherIdle, watcherVars, WatcherTypeOK, WatchOnExisting,
              OnlyLossesAreMissed, InSync, Pending
<1>6. FaultNext \/ UNCHANGED faultVars
  OBVIOUS
<1> HIDE DEF FaultInv
<1> QED
  BY <1>1, <1>2, <1>3, <1>4, <1>5, <1>6 DEF FaultNext, Handle

\* Nothing but a lost event leaves a watched file behind its content on the
\* disk, and no longer than until its next reload, whatever is lost: reload_file
\* reads the disk, not the event.
THEOREM OnlyLossesLeaveBehind == FaultSpec => []OnlyLossesAreMissed
<1>1. FaultInit => FaultInv
  BY WatcherInitInv DEF FaultInit, FaultInv, WatcherInv, WatchedInSync, OnlyLossesAreMissed
<1>2. FaultInv /\ [FaultNext]_faultVars => FaultInv'
  BY FaultNextInv
<1>3. FaultInv => OnlyLossesAreMissed
  BY DEF FaultInv
<1> QED
  BY <1>1, <1>2, <1>3, PTL DEF FaultSpec
===============================================================================
