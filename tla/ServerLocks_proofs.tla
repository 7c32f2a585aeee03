-------------------------- MODULE ServerLocks_proofs --------------------------
(***************************************************************************)
(* Proofs about ServerLocks: its type correctness, with the exclusion of   *)
(* writers, and that a query over the workspace reports the first captures *)
(* of one state of the registry, for any number of calls, threads and      *)
(* files.                                                                  *)
(***************************************************************************)
EXTENDS ServerLocks, FiniteSetTheorems, Recursion_proofs

\* The type of what is found and left of a query.
Scan == [left : SUBSET Paths, remaining : Limits, found : [Paths -> Nat]]

LEMMA NoScanType == NoScan \in Scan
BY DEF NoScan, Scan, Limits

\* A round of a query leaves a scan.
LEMMA ScannedType ==
    ASSUME LocksTypeOK, NEW old \in Scan, NEW p \in old.left
    PROVE  Scanned(old, p) \in Scan
<1> DEFINE matches == QueryTs(p, old.remaining)
           rest == Reduced(old.remaining, matches)
<1>1. p \in Paths /\ (old.remaining # NoLimit => old.remaining \in Nat)
  BY DEF Scan, Limits
<1>2. registry[p] # Untracked => registry[p] \in Nat
  BY <1>1, LocksAssumption DEF LocksTypeOK
<1>3. matches \in Nat
  BY <1>1, <1>2 DEF QueryTs
<1>4. rest \in Limits
  <2> HIDE DEF matches
  <2> QED
    BY <1>1, <1>3 DEF Reduced, Limits
<1> HIDE DEF matches, rest
<1>5. [old EXCEPT !.left = old.left \ {p}] \in Scan
  BY DEF Scan
<1>6. [left |-> IF rest = 0 THEN {} ELSE old.left \ {p},
       remaining |-> rest,
       found |-> [old.found EXCEPT ![p] = matches]] \in Scan
  BY <1>3, <1>4 DEF Scan
<1> QED
  BY <1>5, <1>6 DEF Scanned, matches, rest

\* A task that gets the registry excludes the others, unless all of them read.
LEMMA AcquireType ==
    ASSUME LocksTypeOK, NEW t \in Tasks, Acquire(t)
    PROVE  LocksTypeOK'
<1> USE DEF LocksTypeOK
<1>1. pc' \in [Tasks -> Places]
  BY DEF Acquire, Places
<1>2. scan' \in [Clients -> Scan]
  <2>1. CASE pc[t] = "waiting" /\ t \in Clients /\ call[t].tool = "query"
    <3> DEFINE new == [left |-> {p \in Paths : registry[p] # Untracked},
                       remaining |-> call[t].max, found |-> NoScan.found]
    <3>1. call[t].max \in Limits
      BY <2>1, LocksAssumption DEF Call
    <3>2. new \in Scan
      BY <3>1, NoScanType DEF Scan
    <3>3. scan' = [scan EXCEPT ![t] = new]
      BY <2>1 DEF Acquire
    <3> QED
      BY <3>2, <3>3, <2>1 DEF Scan
  <2>2. CASE ~(pc[t] = "waiting" /\ t \in Clients /\ call[t].tool = "query")
    BY <2>2 DEF Acquire, Scan
  <2> QED
    BY <2>1, <2>2
<1>3. queue' \in Seq(Tasks)
  BY DEF Acquire
<1>4. holders' = {u \in Tasks : pc'[u] \in {"holding", "committing"}}
  BY DEF Acquire, Places
<1>5. \A u \in holders : Reads(u)' <=> Reads(u)
  BY DEF Acquire, Reads
<1>6. Reads(t) => Reads(t)'
  BY DEF Acquire, Reads
<1>7. IF Reads(t) THEN \A u \in holders : Reads(u) ELSE holders = {}
  BY DEF Acquire, Granted, Before
<1>8. \A u, v \in holders' : u # v => Reads(u)'
  BY <1>5, <1>6, <1>7 DEF Acquire
<1> QED
  BY <1>1, <1>2, <1>3, <1>4, <1>8 DEF Acquire, Scan

\* A step of a task that may give the registry back, and takes nothing.
LEMMA ReleaseType ==
    ASSUME LocksTypeOK, NEW t \in Tasks, NEW place \in Places,
           place \notin {"holding", "committing"}, Release(t, place),
           \A c \in Clients \ {t} : call'[c] = call[c]
    PROVE  /\ pc' \in [Tasks -> Places]
           /\ holders' = {u \in Tasks : pc'[u] \in {"holding", "committing"}}
           /\ \A u, v \in holders' : u # v => Reads(u)'
<1> USE DEF LocksTypeOK, Release
<1>1. pc' \in [Tasks -> Places]
  OBVIOUS
<1>2. holders' = {u \in Tasks : pc'[u] \in {"holding", "committing"}}
  OBVIOUS
<1>3. \A u \in holders' : u \in holders /\ (Reads(u)' <=> Reads(u))
  BY DEF Reads
<1> QED
  BY <1>1, <1>2, <1>3

\* One more task in the queue.
LEMMA AppendType ==
    ASSUME NEW q \in Seq(Tasks), NEW t \in Tasks
    PROVE  Append(q, t) \in Seq(Tasks)
OBVIOUS

\* Every step preserves the types.
LEMMA LocksStep ==
    ASSUME LocksTypeOK, [LocksNext]_locksVars
    PROVE  LocksTypeOK'
<1> USE DEF LocksTypeOK
<1>1. ASSUME NEW c \in Clients, Start(c)
      PROVE  LocksTypeOK'
  <2>1. c \in Tasks /\ "waiting" \in Places
    BY DEF Tasks, Places
  <2>2. call' \in [Clients -> Calls] /\ \A d \in Clients \ {c} : call'[d] = call[d]
    BY <1>1 DEF Start
  <2>3. Release(c, "waiting")
    BY <1>1, <2>1 DEF Start, Release
  <2>4. queue' \in Seq(Tasks)
    BY <1>1, <2>1, AppendType DEF Start
  <2>5. /\ pc' \in [Tasks -> Places]
        /\ holders' = {u \in Tasks : pc'[u] \in {"holding", "committing"}}
        /\ \A u, v \in holders' : u # v => Reads(u)'
    BY <2>1, <2>2, <2>3, ReleaseType
  <2>6. UNCHANGED <<registry, scan, events>>
    BY <1>1 DEF Start
  <2> QED
    BY <2>2, <2>4, <2>5, <2>6
<1>2. ASSUME NEW c \in Clients, QueryFile(c)
      PROVE  LocksTypeOK'
  <2>1. PICK p \in scan[c].left : scan' = [scan EXCEPT ![c] = Scanned(scan[c], p)]
    BY <1>2 DEF QueryFile
  <2>2. scan[c] \in Scan
    BY DEF Scan
  <2>3. scan' \in [Clients -> Scan]
    BY <2>1, <2>2, ScannedType DEF Scan
  <2> QED
    BY <1>2, <2>3 DEF QueryFile, Scan, Reads
<1>3. ASSUME NEW c \in Clients,
             (Run(c) /\ ~QueryFile(c)) \/ TakeMutex(c)
      PROVE  LocksTypeOK'
  <2>1. c \in Tasks /\ call' = call /\ events' \in 0..MaxEvents
    BY <1>3, LocksAssumption
    DEF Run, TakeMutex, Read, QueryDone, EditCompute, EditCommit, SaveCopy, SaveWrite,
        Track, Untrack, WatchDone, Noticed, Tasks
  <2>2. registry' \in [Paths -> Captures \cup {Untracked}]
    BY <1>3
    DEF Run, TakeMutex, Read, QueryDone, EditCompute, EditCommit, SaveCopy, SaveWrite,
        Track, Untrack, WatchDone, Store
  <2>3. scan' \in [Clients -> Scan]
    BY <1>3, NoScanType
    DEF Run, TakeMutex, Read, QueryDone, EditCompute, EditCommit, SaveCopy, SaveWrite,
        Track, Untrack, WatchDone, Scan
  <2>4. queue' \in Seq(Tasks)
    <3>1. queue' = queue \/ queue' = Append(queue, c)
      BY <1>3
      DEF Run, TakeMutex, Read, QueryDone, EditCompute, EditCommit, SaveCopy, SaveWrite,
          Track, Untrack, WatchDone
    <3> QED
      BY <2>1, <3>1, AppendType
  <2>5. \E place \in Places \ {"holding", "committing"} : Release(c, place)
    BY <1>3
    DEF Run, TakeMutex, Read, QueryDone, EditCompute, EditCommit, SaveCopy, SaveWrite,
        Track, Untrack, WatchDone, Release, Places
  <2> QED
    BY <2>1, <2>2, <2>3, <2>4, <2>5, ReleaseType DEF Scan
<1>4. ASSUME TakeEvent \/ ReloadFile
      PROVE  LocksTypeOK'
  <2>1. Watcher \in Tasks /\ call' = call /\ events' \in 0..MaxEvents
    BY <1>4, LocksAssumption DEF TakeEvent, ReloadFile, Tasks
  <2>2. registry' \in [Paths -> Captures \cup {Untracked}]
    BY <1>4 DEF TakeEvent, ReloadFile, Store
  <2>3. queue' \in Seq(Tasks)
    <3>1. queue' = queue \/ queue' = Append(queue, Watcher)
      BY <1>4 DEF TakeEvent, ReloadFile
    <3> QED
      BY <2>1, <3>1, AppendType
  <2>4. \E place \in Places \ {"holding", "committing"} : Release(Watcher, place)
    BY <1>4 DEF TakeEvent, ReloadFile, Release, Places
  <2> QED
    BY <1>4, <2>1, <2>2, <2>3, <2>4, ReleaseType DEF TakeEvent, ReloadFile
<1>5. ASSUME Change
      PROVE  LocksTypeOK'
  BY <1>5, LocksAssumption DEF Change, Noticed, Reads
<1>6. ASSUME UNCHANGED locksVars
      PROVE  LocksTypeOK'
  BY <1>6 DEF locksVars, Reads
<1> QED
  BY <1>1, <1>2, <1>3, <1>4, <1>5, <1>6, AcquireType DEF LocksNext

\* The state has its type, and no task has the registry beside a writer, in
\* every state the server reaches.
THEOREM LocksTypeCorrect == LocksSpec => []LocksTypeOK
<1>1. LocksInit => LocksTypeOK
  BY LocksAssumption, NoScanType
  DEF LocksInit, LocksTypeOK, Places, Scan
<1>2. LocksTypeOK /\ [LocksNext]_locksVars => LocksTypeOK'
  BY LocksStep
<1> QED
  BY <1>1, <1>2, PTL DEF LocksSpec

\* No step changes the registry while a task that reads it has it.
LEMMA RegistryStays ==
    ASSUME LocksTypeOK, [LocksNext]_locksVars, NEW t \in holders, Reads(t)
    PROVE  registry' = registry
<1> USE DEF LocksTypeOK
<1>1. ASSUME NEW u \in holders, ~Reads(u)
      PROVE  FALSE
  BY <1>1
<1>2. ASSUME NEW c \in Clients, EditCommit(c) \/ Track(c) \/ Untrack(c)
      PROVE  c \in holders /\ ~Reads(c)
  BY <1>2 DEF EditCommit, Track, Untrack, Holds, Reads, Tasks
<1>3. ASSUME ReloadFile
      PROVE  Watcher \in holders /\ ~Reads(Watcher)
  BY <1>3, LocksAssumption DEF ReloadFile, Reads, Tasks
<1> QED
  BY <1>1, <1>2, <1>3
  DEF LocksNext, locksVars, Run, Start, TakeMutex, Acquire, TakeEvent, Change, Read,
      QueryFile, QueryDone, EditCompute, SaveCopy, SaveWrite, WatchDone

-----------------------------------------------------------------------------
(* query_workspace *)

\* What is left of the limit when the query comes to p.
Rest(p, max) ==
    IF max = NoLimit THEN NoLimit
    ELSE IF max <= CapturesBefore(p) THEN 0
    ELSE max - CapturesBefore(p)

\* A query that has the registry has dealt with the first of the tracked files,
\* and goes on with what they leave of the limit.  It has stopped early only
\* where they leave nothing, which is what QueryTakesFirst says of such files.
ScanInOrder(c) ==
    \A p \in scan[c].left :
        /\ registry[p] # Untracked
        /\ \A q \in Paths : p < q /\ registry[q] # Untracked => q \in scan[c].left
        /\ (\A q \in scan[c].left : p <= q) =>
              scan[c].remaining = Rest(p, call[c].max)

TakesFirst(c) ==
    \A p \in Paths :
        scan[c].found[p] = IF p \in scan[c].left THEN 0
                           ELSE FirstCaptures(p, call[c].max)

ScanOK(c) == Holds(c, "query") => ScanInOrder(c) /\ TakesFirst(c)

QueryInv == LocksTypeOK /\ \A c \in Clients : ScanOK(c)

\* The captures in some files; those in the tracked files before n.
InFiles(files) == UNION {{q} \X (1..registry[q]) : q \in files}

TrackedBefore(n) == {q \in Paths : q < n /\ registry[q] # Untracked}

InFilesBefore(n) == InFiles(TrackedBefore(n))

LEMMA InFilesGrows ==
    ASSUME NEW files, NEW p
    PROVE  /\ InFiles(files \cup {p}) = InFiles(files) \cup ({p} \X (1..registry[p]))
           /\ \A more : files \subseteq more => InFiles(files) \subseteq InFiles(more)
           /\ p \notin files => InFiles(files) \cap ({p} \X (1..registry[p])) = {}
<1>1. \A x : x \in InFiles(files) <=> \E q \in files : x \in {q} \X (1..registry[q])
  BY DEF InFiles
<1>2. InFiles(files \cup {p}) = InFiles(files) \cup ({p} \X (1..registry[p]))
  BY DEF InFiles
<1>3. \A more : files \subseteq more => InFiles(files) \subseteq InFiles(more)
  BY DEF InFiles
<1>4. ASSUME p \notin files, NEW x \in InFiles(files), x \in {p} \X (1..registry[p])
      PROVE  FALSE
  <2>1. PICK q \in files : x \in {q} \X (1..registry[q])
    BY <1>1
  <2>2. x[1] = q /\ x[1] = p
    BY <1>4, <2>1
  <2> QED
    BY <1>4, <2>2
<1> QED
  BY <1>2, <1>3, <1>4

\* A tracked file has its number of captures.
LEMMA CapturesIn ==
    ASSUME LocksTypeOK, NEW p \in Paths, registry[p] # Untracked
    PROVE  /\ p \in Nat /\ registry[p] \in Nat
           /\ IsFiniteSet({p} \X (1..registry[p]))
           /\ Cardinality({p} \X (1..registry[p])) = registry[p]
<1>1. p \in Nat /\ registry[p] \in Nat
  BY LocksAssumption DEF LocksTypeOK
<1>2. IsFiniteSet({p}) /\ Cardinality({p}) = 1
  BY FS_Singleton
<1>3. IsFiniteSet(1..registry[p]) /\ Cardinality(1..registry[p]) = registry[p]
  <2> DEFINE n == registry[p]
  <2>1. 1 \in Int /\ n \in Int /\ n \in Nat
    BY <1>1
  <2> HIDE DEF n
  <2>2. IsFiniteSet(1..n) /\ Cardinality(1..n) = IF 1 > n THEN 0 ELSE n - 1 + 1
    BY <2>1, FS_Interval
  <2>3. IsFiniteSet(1..n) /\ Cardinality(1..n) = n
    BY <2>1, <2>2
  <2> QED
    BY <2>3 DEF n
<1>4. IsFiniteSet({p} \X (1..registry[p]))
      /\ Cardinality({p} \X (1..registry[p])) = 1 * registry[p]
  BY <1>2, <1>3, FS_Product
<1> QED
  BY <1>1, <1>4

\* The files before n + 1 are those before n and n, if it is tracked.
LEMMA OneFileMore ==
    ASSUME LocksTypeOK, NEW n \in Nat
    PROVE  InFilesBefore(n + 1) =
              IF n \in Paths /\ registry[n] # Untracked
              THEN InFilesBefore(n) \cup ({n} \X (1..registry[n]))
              ELSE InFilesBefore(n)
<1>1. TrackedBefore(n + 1) = IF n \in Paths /\ registry[n] # Untracked
                             THEN TrackedBefore(n) \cup {n} ELSE TrackedBefore(n)
  <2>1. \A q \in Paths : q < n + 1 <=> q < n \/ q = n
    BY LocksAssumption
  <2>2. \A q : q \in TrackedBefore(n + 1) <=>
                  \/ q \in TrackedBefore(n)
                  \/ q = n /\ n \in Paths /\ registry[n] # Untracked
    BY <2>1 DEF TrackedBefore
  <2> QED
    BY <2>2
<1>2. InFiles(TrackedBefore(n) \cup {n}) =
         InFiles(TrackedBefore(n)) \cup ({n} \X (1..registry[n]))
  BY InFilesGrows
<1> QED
  BY <1>1, <1>2 DEF InFilesBefore

\* The captures before a file are finitely many.
LEMMA BeforeFinite ==
    ASSUME LocksTypeOK, NEW n \in Nat
    PROVE  IsFiniteSet(InFilesBefore(n))
<1> DEFINE Bad == {k \in Nat : ~IsFiniteSet(InFilesBefore(k))}
<1> SUFFICES ASSUME Bad # {} PROVE FALSE
  OBVIOUS
<1>1. PICK k \in Bad : \A j \in Bad : k <= j
  <2>1. Bad \subseteq Nat
    OBVIOUS
  <2> HIDE DEF Bad
  <2> QED
    BY <2>1, LeastExists, Zenon
<1>2. CASE k = 0
  <2>1. \A q \in Paths : ~(q < 0)
    BY LocksAssumption
  <2>2. InFilesBefore(0) = {}
    BY <2>1 DEF InFilesBefore, InFiles, TrackedBefore
  <2> QED
    BY <1>1, <1>2, <2>2, FS_EmptySet
<1>3. CASE k # 0
  <2> DEFINE m == k - 1
  <2>1. m \in Nat /\ k = m + 1 /\ ~(k <= m)
    BY <1>1, <1>3
  <2>2. IsFiniteSet(InFilesBefore(m))
    BY <1>1, <2>1
  <2> HIDE DEF m
  <2>3. IsFiniteSet(InFilesBefore(m + 1))
    <3>1. CASE m \in Paths /\ registry[m] # Untracked
      <4>1. IsFiniteSet(InFilesBefore(m) \cup ({m} \X (1..registry[m])))
        BY <2>2, <3>1, CapturesIn, FS_Union
      <4> QED
        BY <2>1, <3>1, <4>1, OneFileMore
    <3>2. CASE ~(m \in Paths /\ registry[m] # Untracked)
      BY <2>1, <2>2, <3>2, OneFileMore
    <3> QED
      BY <3>1, <3>2
  <2> QED
    BY <1>1, <2>1, <2>3
<1> QED
  BY <1>2, <1>3

\* So they have a number, which is 0 before the first file, and grows with each
\* file by what is in it.
LEMMA BeforeNumber ==
    ASSUME LocksTypeOK, NEW p \in Nat
    PROVE  /\ CapturesBefore(p) \in Nat
           /\ (\A q \in Paths : q < p => registry[q] = Untracked) => CapturesBefore(p) = 0
<1>1. CapturesBefore(p) = Cardinality(InFilesBefore(p))
  BY DEF CapturesBefore, InFilesBefore, InFiles, TrackedBefore
<1>2. CapturesBefore(p) \in Nat
  BY <1>1, BeforeFinite, FS_CardinalityType
<1>3. ASSUME \A q \in Paths : q < p => registry[q] = Untracked
      PROVE  CapturesBefore(p) = 0
  <2>1. InFilesBefore(p) = {}
    BY <1>3 DEF InFilesBefore, InFiles, TrackedBefore
  <2> QED
    BY <1>1, <2>1, FS_EmptySet
<1> QED
  BY <1>2, <1>3

LEMMA BeforeGrows ==
    ASSUME LocksTypeOK, NEW p \in Paths, registry[p] # Untracked, NEW q \in Paths, p < q
    PROVE  /\ CapturesBefore(p) \in Nat /\ CapturesBefore(q) \in Nat /\ registry[p] \in Nat
           /\ CapturesBefore(p) + registry[p] <= CapturesBefore(q)
           /\ (\A r \in Paths : p < r /\ r < q => registry[r] = Untracked) =>
                 CapturesBefore(q) = CapturesBefore(p) + registry[p]
<1> DEFINE B == InFilesBefore(p)
           P == {p} \X (1..registry[p])
<1>1. p \in Nat /\ q \in Nat /\ registry[p] \in Nat
  BY CapturesIn, LocksAssumption
<1>2. /\ IsFiniteSet(B) /\ CapturesBefore(p) = Cardinality(B)
      /\ IsFiniteSet(P) /\ Cardinality(P) = registry[p]
      /\ IsFiniteSet(InFilesBefore(q)) /\ CapturesBefore(q) = Cardinality(InFilesBefore(q))
  BY <1>1, BeforeFinite, CapturesIn
  DEF CapturesBefore, InFilesBefore, InFiles, TrackedBefore
<1>3. B \cap P = {}
  <2>1. p \notin TrackedBefore(p)
    BY <1>1 DEF TrackedBefore
  <2> QED
    BY <2>1, InFilesGrows DEF InFilesBefore
<1>4. B \cup P = InFiles(TrackedBefore(p) \cup {p})
  BY InFilesGrows DEF InFilesBefore
<1>5. /\ B \cup P \subseteq InFilesBefore(q)
      /\ (\A r \in Paths : p < r /\ r < q => registry[r] = Untracked) =>
            InFilesBefore(q) = B \cup P
  <2> HIDE DEF B, P
  <2>1. \A r \in Paths : r \in Nat
    BY LocksAssumption
  <2>2. \A r : r \in TrackedBefore(p) \cup {p} => r \in TrackedBefore(q)
    BY <1>1, <2>1 DEF TrackedBefore
  <2>3. ASSUME \A r \in Paths : p < r /\ r < q => registry[r] = Untracked
        PROVE  TrackedBefore(q) = TrackedBefore(p) \cup {p}
    <3>1. \A r : r \in TrackedBefore(q) => r \in TrackedBefore(p) \cup {p}
      BY <1>1, <2>1, <2>3 DEF TrackedBefore
    <3> QED
      BY <2>2, <3>1
  <2>4. TrackedBefore(p) \cup {p} \subseteq TrackedBefore(q)
    BY <2>2
  <2> QED
    BY <1>4, <2>3, <2>4, InFilesGrows DEF InFilesBefore
<1>6. CapturesBefore(p) \in Nat /\ CapturesBefore(q) \in Nat
  BY <1>1, BeforeNumber
<1> HIDE DEF B, P
<1>7. Cardinality(B \cup P) = CapturesBefore(p) + registry[p]
  <2>1. Cardinality(B \cup P) = Cardinality(B) + Cardinality(P) - Cardinality(B \cap P)
    BY <1>2, FS_Union
  <2>2. Cardinality(B \cap P) = 0
    BY <1>3, FS_EmptySet
  <2> QED
    BY <1>1, <1>2, <1>6, <2>1, <2>2
<1>8. Cardinality(B \cup P) <= CapturesBefore(q)
  BY <1>2, <1>5, FS_Subset
<1> QED
  BY <1>1, <1>2, <1>5, <1>6, <1>7, <1>8

\* A query that gets the registry has all tracked files before it.
LEMMA QueryBegins ==
    ASSUME LocksTypeOK, NEW c \in Clients, Acquire(c), Holds(c, "query")'
    PROVE  ScanOK(c)'
<1>1. /\ pc[c] = "waiting" /\ call[c].tool = "query"
      /\ registry' = registry /\ call' = call
  BY DEF Acquire, Holds, LocksTypeOK, Tasks
<1>2. call[c].max \in Limits
  BY LocksAssumption DEF LocksTypeOK, Call
<1> DEFINE tracked == {p \in Paths : registry[p] # Untracked}
<1>3. /\ scan'[c].left = tracked /\ scan'[c].remaining = call[c].max
      /\ scan'[c].found = [p \in Paths |-> 0]
  BY <1>1 DEF Acquire, LocksTypeOK, NoScan
<1>4. ASSUME NEW p \in tracked, \A q \in tracked : p <= q
      PROVE  call[c].max = Rest(p, call[c].max)
  <2>1. p \in Nat /\ \A q \in Paths : q < p => registry[q] = Untracked
    BY <1>4, LocksAssumption
  <2>2. CapturesBefore(p) = 0
    BY <2>1, BeforeNumber
  <2> QED
    BY <1>2, <2>2 DEF Rest, Limits
<1>5. \A p, max : Rest(p, max)' = Rest(p, max)
  BY <1>1 DEF Rest, CapturesBefore
<1>6. ScanInOrder(c)'
  BY <1>1, <1>3, <1>4, <1>5 DEF ScanInOrder
<1>7. \A p \in Paths \ tracked : \A max : FirstCaptures(p, max)' = 0
  BY <1>1 DEF FirstCaptures
<1>8. TakesFirst(c)'
  BY <1>1, <1>3, <1>7 DEF TakesFirst
<1> QED
  BY <1>6, <1>8 DEF ScanOK

\* In the file it has come to, a query takes what it is to report of it.
LEMMA QueryTakes ==
    ASSUME LocksTypeOK, NEW c \in Clients, Holds(c, "query"), ScanOK(c),
           NEW p \in scan[c].left, \A q \in scan[c].left : p <= q
    PROVE  /\ QueryTs(p, scan[c].remaining) = FirstCaptures(p, call[c].max)
           /\ registry[p] # Untracked /\ p \in Paths /\ registry[p] \in Nat
           /\ scan[c].remaining = Rest(p, call[c].max)
           /\ call[c].max \in Limits /\ CapturesBefore(p) \in Nat
<1>1. p \in Paths /\ registry[p] # Untracked /\ scan[c].remaining = Rest(p, call[c].max)
  BY DEF ScanOK, ScanInOrder, LocksTypeOK
<1>2. registry[p] \in Nat /\ p \in Nat /\ CapturesBefore(p) \in Nat
  BY <1>1, CapturesIn, BeforeNumber
<1>3. call[c].max \in Limits
  BY LocksAssumption DEF LocksTypeOK, Call
<1>4. QueryTs(p, Rest(p, call[c].max)) = FirstCaptures(p, call[c].max)
  BY <1>1, <1>2, <1>3, LocksAssumption DEF QueryTs, Rest, FirstCaptures, Limits
<1> QED
  BY <1>1, <1>2, <1>3, <1>4

\* What is left of the limit after a file is what is left before the next.
LEMMA QueryLeaves ==
    ASSUME LocksTypeOK, NEW c \in Clients, Holds(c, "query"), ScanOK(c),
           NEW p \in scan[c].left, \A q \in scan[c].left : p <= q,
           NEW q \in Paths, p < q
    PROVE  LET matches == QueryTs(p, scan[c].remaining)
               rest == Reduced(scan[c].remaining, matches)
           IN /\ matches # 0 /\ rest = 0 => FirstCaptures(q, call[c].max) = 0
              /\ (\A r \in scan[c].left : r # p => q <= r) /\ q \in scan[c].left =>
                    /\ matches = 0 => scan[c].remaining = Rest(q, call[c].max)
                    /\ matches # 0 /\ rest # 0 => rest = Rest(q, call[c].max)
<1> DEFINE max == call[c].max
           matches == QueryTs(p, scan[c].remaining)
           rest == Reduced(scan[c].remaining, matches)
<1>1. /\ matches = FirstCaptures(p, max) /\ scan[c].remaining = Rest(p, max)
      /\ registry[p] # Untracked /\ p \in Paths /\ registry[p] \in Nat
      /\ max \in Limits
  BY QueryTakes
<1>2. /\ CapturesBefore(p) \in Nat /\ CapturesBefore(q) \in Nat
      /\ CapturesBefore(p) + registry[p] <= CapturesBefore(q)
      /\ (\A r \in Paths : p < r /\ r < q => registry[r] = Untracked) =>
            CapturesBefore(q) = CapturesBefore(p) + registry[p]
  BY <1>1, BeforeGrows
<1>3. registry[q] = Untracked \/ registry[q] \in Nat
  BY LocksAssumption DEF LocksTypeOK
<1>4. rest = Reduced(Rest(p, max), matches)
  BY <1>1
<1> HIDE DEF rest, matches, max
<1>5. ASSUME matches # 0, rest = 0
      PROVE  FirstCaptures(q, max) = 0
  <2>1. max # NoLimit /\ max \in Nat
    BY <1>1, <1>4, <1>5, LocksAssumption DEF Reduced, Rest, Limits
  <2>2. max <= CapturesBefore(p) + registry[p]
    BY <1>1, <1>2, <1>4, <1>5, <2>1, LocksAssumption DEF Reduced, Rest, FirstCaptures
  <2> QED
    BY <1>1, <1>2, <2>1, <2>2 DEF FirstCaptures
<1>6. ASSUME \A r \in scan[c].left : r # p => q <= r, q \in scan[c].left
      PROVE  /\ matches = 0 => scan[c].remaining = Rest(q, max)
             /\ matches # 0 /\ rest # 0 => rest = Rest(q, max)
  <2>1. \A r \in Paths : p < r /\ registry[r] # Untracked => r \in scan[c].left
    BY DEF ScanOK, ScanInOrder
  <2>2. \A r \in Paths : p < r /\ r < q => registry[r] = Untracked
    BY <1>1, <1>6, <2>1, LocksAssumption
  <2>3. CapturesBefore(q) = CapturesBefore(p) + registry[p]
    BY <1>2, <2>2
  <2>4. matches = 0 => Rest(p, max) = Rest(q, max)
    BY <1>1, <1>2, <2>3, LocksAssumption DEF Rest, FirstCaptures, Limits
  <2>5. matches # 0 /\ rest # 0 => rest = Rest(q, max)
    BY <1>1, <1>2, <1>4, <2>3, LocksAssumption DEF Rest, FirstCaptures, Reduced, Limits
  <2> QED
    BY <1>1, <2>4, <2>5
<1> QED
  BY <1>5, <1>6 DEF rest, matches, max

\* A query that goes on to the next file, or stops, has taken what it should.
LEMMA QueryGoesOn ==
    ASSUME LocksTypeOK, NEW c \in Clients, ScanOK(c), QueryFile(c)
    PROVE  ScanOK(c)'
<1>1. PICK p \in scan[c].left :
         /\ \A q \in scan[c].left : p <= q
         /\ scan' = [scan EXCEPT ![c] = Scanned(scan[c], p)]
  BY DEF QueryFile
<1>2. /\ Holds(c, "query") /\ registry' = registry /\ pc' = pc /\ call' = call
      /\ scan[c] \in Scan /\ scan'[c] = Scanned(scan[c], p)
  BY <1>1 DEF QueryFile, LocksTypeOK, Scan
<1> DEFINE old == scan[c]
           new == scan'[c]
           max == call[c].max
           matches == QueryTs(p, old.remaining)
           rest == Reduced(old.remaining, matches)
<1>3. p \in Paths /\ p \in Nat /\ \A q \in old.left : q \in Paths /\ q \in Nat
  BY <1>2, LocksAssumption DEF Scan
<1>4. ScanInOrder(c) /\ TakesFirst(c)
  BY <1>2 DEF ScanOK
<1>5. matches = FirstCaptures(p, max)
  BY <1>1, <1>2, QueryTakes
<1>6. ASSUME NEW q \in Paths, p < q
      PROVE  /\ matches # 0 /\ rest = 0 => FirstCaptures(q, max) = 0
             /\ (\A r \in old.left : r # p => q <= r) /\ q \in old.left =>
                   /\ matches = 0 => old.remaining = Rest(q, max)
                   /\ matches # 0 /\ rest # 0 => rest = Rest(q, max)
  BY <1>1, <1>2, <1>6, QueryLeaves
<1>7. /\ \A q, m : Rest(q, m)' = Rest(q, m)
      /\ \A q, m : FirstCaptures(q, m)' = FirstCaptures(q, m)
  BY <1>2 DEF Rest, FirstCaptures, CapturesBefore
<1>8. /\ new.left = IF matches # 0 /\ rest = 0 THEN {} ELSE old.left \ {p}
      /\ new.remaining = IF matches = 0 THEN old.remaining ELSE rest
      /\ new.found = [old.found EXCEPT ![p] = matches]
  <2>1. old.found[p] = 0 /\ old.found = [old.found EXCEPT ![p] = 0]
    BY <1>1, <1>2, <1>3, <1>4 DEF TakesFirst, Scan
  <2> HIDE DEF matches, rest
  <2>2. CASE matches = 0
    <3>1. new = [old EXCEPT !.left = old.left \ {p}]
      BY <1>2, <2>2 DEF Scanned, matches
    <3> QED
      BY <1>2, <2>1, <2>2, <3>1 DEF Scan
  <2>3. CASE matches # 0
    <3>1. new = [left |-> IF rest = 0 THEN {} ELSE old.left \ {p},
                 remaining |-> rest,
                 found |-> [old.found EXCEPT ![p] = matches]]
      BY <1>2, <2>3 DEF Scanned, matches, rest
    <3> QED
      BY <2>3, <3>1
  <2> QED
    BY <2>2, <2>3
<1> HIDE DEF old, new, matches, rest, max
<1>9. ASSUME NEW q \in new.left
      PROVE  /\ registry[q] # Untracked
             /\ \A r \in Paths : q < r /\ registry[r] # Untracked => r \in new.left
             /\ (\A r \in new.left : q <= r) => new.remaining = Rest(q, max)
  <2>1. q \in old.left /\ q # p /\ new.left = old.left \ {p} /\ p < q
        /\ ~(matches # 0 /\ rest = 0) /\ q \in Paths
    BY <1>1, <1>3, <1>8 DEF old
  <2>2. /\ registry[q] # Untracked
        /\ \A r \in Paths : q < r /\ registry[r] # Untracked => r \in old.left
    BY <1>4, <2>1 DEF ScanInOrder, old
  <2>3. \A r \in Paths : q < r => r # p
    BY <1>3, <2>1, LocksAssumption
  <2>4. (\A r \in new.left : q <= r) => new.remaining = Rest(q, max)
    BY <1>6, <1>8, <2>1
  <2> QED
    BY <2>1, <2>2, <2>3, <2>4
<1>10. ScanInOrder(c)'
  BY <1>2, <1>7, <1>9 DEF ScanInOrder, new, max
<1>11. ASSUME NEW q \in Paths
       PROVE  new.found[q] = IF q \in new.left THEN 0 ELSE FirstCaptures(q, max)
  <2>1. old.found \in [Paths -> Nat]
    BY <1>2 DEF Scan, old
  <2>2. old.found[q] = IF q \in old.left THEN 0 ELSE FirstCaptures(q, max)
    BY <1>4 DEF TakesFirst, old, max
  <2>3. CASE q = p
    BY <1>5, <1>8, <2>1, <2>3
  <2>4. CASE q # p
    <3>1. new.found[q] = old.found[q]
      BY <1>8, <2>1, <2>4
    <3>2. CASE matches # 0 /\ rest = 0 /\ q \in old.left
      BY <1>1, <1>3, <1>6, <1>8, <2>2, <2>4, <3>1, <3>2 DEF old
    <3>3. CASE ~(matches # 0 /\ rest = 0 /\ q \in old.left)
      BY <1>8, <2>2, <2>4, <3>1, <3>3
    <3> QED
      BY <3>2, <3>3
  <2> QED
    BY <2>3, <2>4
<1>12. TakesFirst(c)'
  BY <1>2, <1>7, <1>11 DEF TakesFirst, new, max
<1> QED
  BY <1>10, <1>12 DEF ScanOK

\* What the steps of others leave of a query that has the registry.
LEMMA QueryUndisturbed ==
    ASSUME LocksTypeOK, [LocksNext]_locksVars, NEW c \in Clients, Holds(c, "query")',
           ~Acquire(c), ~QueryFile(c)
    PROVE  /\ Holds(c, "query") /\ registry' = registry
           /\ scan'[c] = scan[c] /\ call'[c] = call[c]
<1> USE DEF LocksTypeOK, Holds
<1>1. ASSUME NEW d \in Clients, Start(d) \/ Run(d) \/ TakeMutex(d)
      PROVE  /\ pc[c] = "holding" /\ call'[c] = call[c] /\ scan'[c] = scan[c]
  <2>1. d = c => pc'[c] # "holding" \/ QueryFile(c)
    BY <1>1 DEF Start, Run, TakeMutex, Release, Tasks, Read, QueryDone, EditCompute,
        EditCommit, SaveCopy, SaveWrite, Track, Untrack, WatchDone
  <2>2. d # c => pc'[c] = pc[c] /\ call'[c] = call[c] /\ scan'[c] = scan[c]
    BY <1>1 DEF Start, Run, TakeMutex, Release, Tasks, Read, QueryFile, QueryDone,
        EditCompute, EditCommit, SaveCopy, SaveWrite, Track, Untrack, WatchDone
  <2> QED
    BY <2>1, <2>2
<1>2. ASSUME NEW t \in Tasks, Acquire(t)
      PROVE  /\ pc[c] = "holding" /\ call'[c] = call[c] /\ scan'[c] = scan[c]
  <2>1. t # c
    BY <1>2
  <2> QED
    BY <1>2, <2>1 DEF Acquire, Tasks
<1>3. ASSUME TakeEvent \/ ReloadFile \/ Change \/ UNCHANGED locksVars
      PROVE  /\ pc[c] = "holding" /\ call'[c] = call[c] /\ scan'[c] = scan[c]
  BY <1>3, LocksAssumption DEF TakeEvent, ReloadFile, Change, Release, Tasks, locksVars
<1>4. pc[c] = "holding" /\ call'[c] = call[c] /\ scan'[c] = scan[c]
  BY <1>1, <1>2, <1>3 DEF LocksNext
<1>5. c \in holders /\ Reads(c)
  BY <1>4 DEF Reads, Tasks
<1>6. registry' = registry
  BY <1>5, RegistryStays
<1> QED
  BY <1>4, <1>6

\* Every step keeps the invariant.
LEMMA QueryStep == ASSUME QueryInv, [LocksNext]_locksVars PROVE QueryInv'
<1>1. LocksTypeOK'
  BY LocksStep DEF QueryInv
<1>2. ASSUME NEW c \in Clients, Holds(c, "query")'
      PROVE  ScanOK(c)'
  <2>1. LocksTypeOK /\ ScanOK(c)
    BY DEF QueryInv
  <2>2. CASE Acquire(c)
    BY <1>2, <2>1, <2>2, QueryBegins
  <2>3. CASE QueryFile(c)
    BY <2>1, <2>3, QueryGoesOn
  <2>4. CASE ~Acquire(c) /\ ~QueryFile(c)
    <3>1. /\ Holds(c, "query") /\ registry' = registry
          /\ scan'[c] = scan[c] /\ call'[c] = call[c]
      BY <1>2, <2>1, <2>4, QueryUndisturbed
    <3>2. /\ \A q, m : Rest(q, m)' = Rest(q, m)
          /\ \A q, m : FirstCaptures(q, m)' = FirstCaptures(q, m)
      BY <3>1 DEF Rest, FirstCaptures, CapturesBefore
    <3> QED
      BY <2>1, <3>1, <3>2 DEF ScanOK, ScanInOrder, TakesFirst
  <2> QED
    BY <2>2, <2>3, <2>4
<1>3. \A c \in Clients : ScanOK(c)'
  BY <1>2 DEF ScanOK
<1> QED
  BY <1>1, <1>3 DEF QueryInv

\* A query over the workspace reports of one state of the registry, and of its
\* captures the first in the order of the paths, up to max_matches.
THEOREM QueryTakesTheFirst == LocksSpec => []QueryTakesFirst
<1>1. LocksInit => QueryInv
  <2>1. LocksInit => LocksTypeOK
    BY LocksAssumption, NoScanType DEF LocksInit, LocksTypeOK, Places, Scan
  <2>2. LocksInit => \A c \in Clients : ScanOK(c)
    BY DEF LocksInit, ScanOK, Holds, Tasks
  <2> QED
    BY <2>1, <2>2 DEF QueryInv
<1>2. QueryInv /\ [LocksNext]_locksVars => QueryInv'
  BY QueryStep
<1>3. QueryInv => QueryTakesFirst
  BY DEF QueryInv, ScanOK, TakesFirst, QueryTakesFirst
<1> QED
  BY <1>1, <1>2, <1>3, PTL DEF LocksSpec
===============================================================================
