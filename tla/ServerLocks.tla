----------------------------- MODULE ServerLocks -----------------------------
(***************************************************************************)
(* The locks of the server, held and waited for: the registry is in a      *)
(* tokio RwLock, which serves its waiters first come first served, and the *)
(* watcher in a std Mutex, which makes no promise (src/watcher.rs,         *)
(* src/tools.rs).  The tasks are the tool calls in progress and the        *)
(* watcher task; a few worker threads run them, and a task keeps its       *)
(* thread except while it awaits the registry.                             *)
(*                                                                         *)
(* CstServer takes each stretch under the registry's lock as one step;     *)
(* here a query over the workspace takes a step for each file.             *)
(***************************************************************************)
EXTENDS Integers, Sequences, FiniteSets

CONSTANTS
    Clients,     \* the tool calls there may be at once
    Watcher,     \* the watcher task
    Workers,     \* the number of worker threads
    Paths,       \* the paths, as numbers in their lexicographic order
    Captures,    \* how many captures the query may have in a file
    Untracked,   \* registry[p] when p is not in the registry
    Calls,       \* what clients ask for
    NoLimit,     \* max_matches when it is not given
    MaxEvents    \* bound: events that wait to be handled

Tasks == Clients \cup {Watcher}

Tools == {"read", "query", "edit", "save", "track", "untrack"}

Limits == Nat \cup {NoLimit}

Call == [tool : Tools, path : Paths, max : Limits]

ASSUME LocksAssumption ==
    /\ Watcher \notin Clients
    /\ Paths \subseteq Nat /\ Captures \subseteq Nat
    /\ IsFiniteSet(Paths)
    /\ Untracked \notin Nat /\ NoLimit \notin Nat
    /\ Calls \subseteq Call
    /\ Workers \in Nat \ {0} /\ MaxEvents \in Nat

VARIABLES
    registry,   \* how many captures each file has, or Untracked
    pc,         \* where each task is
    call,       \* what each client asked for last
    scan,       \* how far the query of each client is
    queue,      \* the tasks that wait for the registry, in their order
    holders,    \* the tasks that have the registry
    events      \* how many events the watcher task has still to take

locksVars == <<registry, pc, call, scan, queue, holders, events>>

\* "waiting" is for the registry and gives up the thread, "mutex" is for the
\* watcher and does not; "asking" is in the call of the watcher, with the mutex.
Places == {"idle", "waiting", "holding", "commit", "committing",
           "writing", "mutex", "asking"}

NoScan == [left |-> {}, remaining |-> NoLimit, found |-> [p \in Paths |-> 0]]

LocksInit ==
    /\ registry \in [Paths -> Captures \cup {Untracked}]
    /\ pc = [t \in Tasks |-> "idle"]
    /\ call \in [Clients -> Calls]
    /\ scan = [c \in Clients |-> NoScan]
    /\ queue = <<>>
    /\ holders = {}
    /\ events = 0

-----------------------------------------------------------------------------
(* The lock and the threads. *)

Running == {t \in Tasks : pc[t] \notin {"idle", "waiting", "commit"}}

ThreadFree == Cardinality(Running) < Workers

Reads(t) ==
    t \in Clients /\ call[t].tool \notin {"track", "untrack"}
        /\ pc[t] \in {"waiting", "holding"}

\* Who has the registry, or waits for it before place i of the queue.
Before(i) == holders \cup {queue[j] : j \in 1..(i - 1)}

\* Mutant of Granted: readers pass the writers that wait.
ReadersFirst(t, i) ==
    IF Reads(t) THEN \A u \in holders : Reads(u) ELSE Before(i) = {}

\* May the task at place i have the registry: nobody is before it, readers apart
\* if it is to read.
Granted(t, i) ==
    IF Reads(t) THEN \A u \in Before(i) : Reads(u) ELSE Before(i) = {}

\* read().await or write().await returns.
Acquire(t) ==
    /\ pc[t] \in {"waiting", "commit"}
    /\ ThreadFree
    /\ \E i \in 1..Len(queue) :
          /\ queue[i] = t
          /\ Granted(t, i)
          /\ queue' = SubSeq(queue, 1, i - 1) \o SubSeq(queue, i + 1, Len(queue))
    /\ holders' = holders \cup {t}
    /\ pc' = [pc EXCEPT ![t] = IF pc[t] = "waiting" THEN "holding" ELSE "committing"]
    /\ scan' = IF pc[t] = "waiting" /\ t \in Clients /\ call[t].tool = "query"
               THEN [scan EXCEPT ![t] =
                       [left |-> {p \in Paths : registry[p] # Untracked},
                        remaining |-> call[t].max, found |-> NoScan.found]]
               ELSE scan
    /\ UNCHANGED <<registry, call, events>>

Release(t, place) ==
    /\ holders' = holders \ {t}
    /\ pc' = [pc EXCEPT ![t] = place]

Holds(c, tool) == pc[c] = "holding" /\ call[c].tool = tool

-----------------------------------------------------------------------------
(* The tools. *)

\* A call gets to its first read() or write().
Start(c) ==
    /\ pc[c] = "idle" /\ ThreadFree
    /\ \E asked \in Calls : call' = [call EXCEPT ![c] = asked]
    /\ pc' = [pc EXCEPT ![c] = "waiting"]
    /\ queue' = Append(queue, c)
    /\ UNCHANGED <<registry, scan, holders, events>>

\* The tools that look at one file, or at the list of files.
Read(c) ==
    /\ Holds(c, "read")
    /\ Release(c, "idle")
    /\ UNCHANGED <<registry, call, scan, queue, events>>

\* query_ts: the captures of the query in p, no more than the limit.
QueryTs(p, limit) ==
    IF registry[p] = Untracked THEN 0
    ELSE IF limit = NoLimit \/ registry[p] <= limit THEN registry[p]
    ELSE limit

\* Mutant of Reduced: the limit is for each file.
Unreduced(remaining, matches) == remaining

Reduced(remaining, matches) ==
    IF remaining = NoLimit THEN NoLimit
    ELSE IF remaining <= matches THEN 0
    ELSE remaining - matches

\* One round of the loop of query_workspace, with the file at p.
Scanned(old, p) ==
    LET matches == QueryTs(p, old.remaining)
        rest == Reduced(old.remaining, matches)
    IN IF matches = 0 THEN [old EXCEPT !.left = old.left \ {p}]
       ELSE [left |-> IF rest = 0 THEN {} ELSE old.left \ {p},
             remaining |-> rest,
             found |-> [old.found EXCEPT ![p] = matches]]

QueryFile(c) ==
    /\ Holds(c, "query")
    /\ \E p \in scan[c].left :
          /\ \A q \in scan[c].left : p <= q
          /\ scan' = [scan EXCEPT ![c] = Scanned(scan[c], p)]
    /\ UNCHANGED <<registry, pc, call, queue, holders, events>>

QueryDone(c) ==
    /\ Holds(c, "query") /\ scan[c].left = {}
    /\ Release(c, "idle")
    /\ scan' = [scan EXCEPT ![c] = NoScan]
    /\ UNCHANGED <<registry, call, queue, events>>

\* Mutants of EditCompute: the registry is kept while the edit waits to commit;
\* a refused edit is computed again.
EditKeepsRead(c) ==
    /\ Holds(c, "edit")
    /\ registry[call[c].path] # Untracked
    /\ pc' = [pc EXCEPT ![c] = "commit"]
    /\ queue' = Append(queue, c)
    /\ UNCHANGED <<registry, call, scan, holders, events>>

EditRetries(c) ==
    /\ Holds(c, "edit")
    /\ \/ Release(c, "waiting")
       \/ registry[call[c].path] # Untracked /\ Release(c, "commit")
    /\ queue' = Append(queue, c)
    /\ UNCHANGED <<registry, call, scan, events>>

\* The edit is computed and waits to be stored, or is refused.
EditCompute(c) ==
    /\ Holds(c, "edit")
    /\ \/ /\ Release(c, "idle")
          /\ queue' = queue
       \/ /\ registry[call[c].path] # Untracked
          /\ Release(c, "commit")
          /\ queue' = Append(queue, c)
    /\ UNCHANGED <<registry, call, scan, events>>

Store(p, result) == registry' = [registry EXCEPT ![p] = result]

\* apply_edit, whether the file is still tracked or not.
EditCommit(c) ==
    /\ pc[c] = "committing"
    /\ \E captures \in Captures : Store(call[c].path, captures)
    /\ Release(c, "idle")
    /\ UNCHANGED <<call, scan, queue, events>>

\* The text is copied and the registry dropped.
SaveCopy(c) ==
    /\ Holds(c, "save")
    /\ Release(c, IF registry[call[c].path] = Untracked THEN "idle" ELSE "writing")
    /\ UNCHANGED <<registry, call, scan, queue, events>>

Noticed == events' = IF events < MaxEvents THEN events + 1 ELSE events

SaveWrite(c) ==
    /\ pc[c] = "writing"
    /\ pc' = [pc EXCEPT ![c] = "idle"]
    /\ Noticed
    /\ UNCHANGED <<registry, call, scan, queue, holders>>

Track(c) ==
    /\ Holds(c, "track")
    /\ \E captures \in Captures : Store(call[c].path, captures)
    /\ Release(c, "mutex")
    /\ UNCHANGED <<call, scan, queue, events>>

Untrack(c) ==
    /\ Holds(c, "untrack")
    /\ Store(call[c].path, Untracked)
    /\ Release(c, IF registry[call[c].path] = Untracked THEN "idle" ELSE "mutex")
    /\ UNCHANGED <<call, scan, queue, events>>

\* watch_path and unwatch_path: the mutex, then the notify thread's answer.
TakeMutex(c) ==
    /\ pc[c] = "mutex"
    /\ \A d \in Clients : pc[d] # "asking"
    /\ pc' = [pc EXCEPT ![c] = "asking"]
    /\ UNCHANGED <<registry, call, scan, queue, holders, events>>

WatchDone(c) ==
    /\ pc[c] = "asking"
    /\ pc' = [pc EXCEPT ![c] = "idle"]
    /\ UNCHANGED <<registry, call, scan, queue, holders, events>>

-----------------------------------------------------------------------------
(* The watcher task and the rest of the world. *)

\* Another process writes a file that is watched.
Change ==
    /\ events < MaxEvents /\ Noticed
    /\ UNCHANGED <<registry, pc, call, scan, queue, holders>>

TakeEvent ==
    /\ pc[Watcher] = "idle" /\ events > 0 /\ ThreadFree
    /\ events' = events - 1
    /\ pc' = [pc EXCEPT ![Watcher] = "waiting"]
    /\ queue' = Append(queue, Watcher)
    /\ UNCHANGED <<registry, call, scan, holders>>

\* reload_file, of the file the event is about.
ReloadFile ==
    /\ pc[Watcher] = "holding"
    /\ \/ UNCHANGED registry
       \/ \E p \in Paths, captures \in Captures :
             registry[p] # Untracked /\ Store(p, captures)
    /\ Release(Watcher, "idle")
    /\ UNCHANGED <<call, scan, queue, events>>

\* What a task does once it has a thread.
Run(c) ==
    \/ Read(c) \/ QueryFile(c) \/ QueryDone(c)
    \/ EditCompute(c) \/ EditCommit(c)
    \/ SaveCopy(c) \/ SaveWrite(c)
    \/ Track(c) \/ Untrack(c) \/ WatchDone(c)

LocksNext ==
    \/ \E c \in Clients : Start(c) \/ Run(c) \/ TakeMutex(c)
    \/ \E t \in Tasks : Acquire(t)
    \/ TakeEvent \/ ReloadFile
    \/ Change

LocksSpec == LocksInit /\ [][LocksNext]_locksVars

\* Threads run, and the runtime gives each task that can go on a thread in the
\* end (strong fairness: others may take the free ones for some time).  Clients
\* need not call, and a thread may lose the mutex again and again.
FairLocksSpec ==
    /\ LocksSpec
    /\ \A c \in Clients : WF_locksVars(Run(c)) /\ WF_locksVars(TakeMutex(c))
    /\ \A t \in Tasks : SF_locksVars(Acquire(t))
    /\ SF_locksVars(TakeEvent) /\ WF_locksVars(ReloadFile)

-----------------------------------------------------------------------------
(* Properties *)

\* The type of the state; and a task has the registry just while it works on
\* it, alone unless it only reads.
LocksTypeOK ==
    /\ registry \in [Paths -> Captures \cup {Untracked}]
    /\ pc \in [Tasks -> Places]
    /\ call \in [Clients -> Calls]
    /\ scan \in [Clients -> [left : SUBSET Paths, remaining : Limits,
                             found : [Paths -> Nat]]]
    /\ queue \in Seq(Tasks)
    /\ holders = {t \in Tasks : pc[t] \in {"holding", "committing"}}
    /\ \A t, u \in holders : t # u => Reads(t)
    /\ events \in 0..MaxEvents

\* What the query has in the files before p, and what it is to report of p:
\* max_matches captures are reported, the first in the order of the paths.
CapturesBefore(p) ==
    Cardinality(UNION {{q} \X (1..registry[q]) :
                         q \in {q \in Paths : q < p /\ registry[q] # Untracked}})

FirstCaptures(p, max) ==
    IF registry[p] = Untracked THEN 0
    ELSE IF max = NoLimit THEN registry[p]
    ELSE IF max <= CapturesBefore(p) THEN 0
    ELSE IF registry[p] <= max - CapturesBefore(p) THEN registry[p]
    ELSE max - CapturesBefore(p)

\* Whatever other calls and the watcher do while query_workspace goes through
\* the files, it reports of the registry as it is when it ends, and exactly as
\* many captures as were asked for, when there are as many.
QueryTakesFirst ==
    \A c \in Clients : Holds(c, "query") =>
        \A p \in Paths :
            scan[c].found[p] = IF p \in scan[c].left THEN 0
                               ELSE FirstCaptures(p, call[c].max)

\* Every call is answered, although an edit awaits the registry twice and
\* tracking takes the mutex after it: no wait is for something that waits for
\* it.  Only the mutex may be lost to other calls for ever.
CallsAreAnswered ==
    \A c \in Clients :
        \/ []<>(pc[c] = "idle")
        \/ <>[](pc[c] = "mutex") /\ []<>(\E d \in Clients : pc[d] = "asking")

\* However often clients call, the watcher task gets the registry and the
\* change is seen.
EventsAreHandled == events > 0 ~> pc[Watcher] = "holding"
===============================================================================
