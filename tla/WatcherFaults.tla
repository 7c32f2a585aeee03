---------------------------- MODULE WatcherFaults ----------------------------
(***************************************************************************)
(* The filesystem watcher (src/watcher.rs) when something goes wrong on    *)
(* the way of an event.  The kernel's queue has a limit: an event that     *)
(* finds it full is dropped, and what notify reports instead is an event   *)
(* of another kind, which handle_event filters out.  And reload_file may   *)
(* be unable to read a file that is there, half-written as it may be.  The *)
(* code retries neither.                                                   *)
(***************************************************************************)
EXTENDS FileWatcher

CONSTANT MaxLosses   \* bound: the events lost

ASSUME LossesAssumption == MaxLosses \in Nat

VARIABLES
    lost,    \* the paths with an event lost and no reload since
    losses   \* how many events were lost

faultVars == <<watcherVars, lost, losses>>

FaultInit ==
    /\ WatcherInit
    /\ lost = {}
    /\ losses = 0

\* An event that would not have led to a reload is no loss.
Lose(event) ==
    /\ losses < MaxLosses
    /\ losses' = losses + 1
    /\ lost' = IF event.kind \in ReloadKinds THEN lost \cup {event.path} ELSE lost

\* The queue is full: an event does not get into it.
Overflow ==
    /\ \E i \in 1..Len(channel) :
          /\ channel' = SubSeq(channel, 1, i - 1)
                          \o SubSeq(channel, i + 1, Len(channel))
          /\ Lose(channel[i])
    /\ UNCHANGED <<files, disk, handle, watched, external>>

\* The event of a reload that fails is spent.
ReloadLost == ReloadFails /\ Lose(Head(channel))

\* A reload reads the whole file, so it makes up for whatever was lost.
Reloaded == {p \in Paths : files'[p] # files[p]}

Handle ==
    \/ /\ HandleEvent
       /\ lost' = lost \ Reloaded
       /\ UNCHANGED losses
    \/ ReloadLost

FaultNext ==
    \/ Handle
    \/ Overflow
    \/ (ExternalStep \/ WatcherIdle) /\ UNCHANGED <<lost, losses>>

FaultSpec == FaultInit /\ [][FaultNext]_faultVars

FairFaultSpec == FaultSpec /\ WF_faultVars(Handle)

-----------------------------------------------------------------------------
(* Properties *)

\* Nothing but a lost event leaves the registry behind, and only the file it
\* was about, and only until that file's next reload.  With no loss this is
\* WatchedInSync.
OnlyLossesAreMissed == \A p \in watched \ lost : InSync(p)

\* Once outside processes stop, a tracked and watched file settles on the
\* content of the disk unless its last event was lost.
ConvergesUnlessLost ==
    \A p \in Paths :
        <>[](p \in watched \ lost /\ files[p] # Untracked => files[p].text = disk[p])
==============================================================================
