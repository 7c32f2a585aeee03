# Verification of the CST-MCP server

TLA+ models of `src/cst-mcp-server`, a server that lets a client edit source
files through their parse trees, with the TLC runs that check them and the
TLAPS proofs about them. `tlc -config <run>.cfg <module>` runs a check,
`tlapm <module>_proofs.tla` checks the proofs; `PROJECT.json` lists the runs, the
source lines every definition stands for, the hazards and the findings.

## The system

One process, `main` (`src/main.rs`), serves one client over stdio. Its parts:

| part | state it keeps | operations | correct when |
|---|---|---|---|
| parsed file `CstFile` (`cst.rs`) | text, version, parse tree | parse, five edits, walks by node id, skeletons, tree-sitter queries | an edit is one version further and changes the span of one node only; a walk visits every node once and ends |
| registry `ServerState` (`state.rs`) | map from path to `CstFile`, behind one tokio `RwLock` | track, untrack, get, list | it holds what the calls and the disk gave it, and loses neither |
| filesystem watcher (`watcher.rs`) | the watches (in `notify`, behind a std `Mutex`), an unbounded channel of events, one task | watch, unwatch, handle an event by reloading the file | no change of a watched file is missed; reloading comes to rest; versions never go back |
| tool handlers (`tools.rs`) | none of their own between calls | track, untrack, load, list, create, delete, save; five edits; node reading; queries of a file and of all files | every call is answered; what it promises holds at its answer and is not undone by others |
| access rules (`access.rs`) | the sorted rules, constant after start | load, resolve a path, match patterns, check an action | the rule of the highest priority decides; no path leaves the workspace; a pattern matches what it stands for |
| start (`main.rs`) | none | read the arguments, load the rules, start the watcher, serve | it serves only with everything it was asked to load, and gives up only when something is missing |

They interact through the registry (shared by all handlers and the watcher task),
through the disk (handlers, watcher and other processes), and through the
watcher's channel (from a callback on `notify`'s thread to the task).

What is hard here is concurrency and ordering. rmcp runs every call as its own
task on a multi-threaded runtime, so two calls of one client overlap unless the
client waits. Each handler is a sequence of critical sections, system calls and
watcher calls with nothing that holds them together: an edit computes under the
read lock and stores under a write lock taken later; `save_file` copies under the
lock and writes after it; `track_file` reads, then stores, then watches;
`untrack_file` and `delete_file` do it in the other order. `std::fs::write` empties
the file first, and an event may be handled at that moment. Watches are limited,
belong to inodes and can be refused; events can be lost. The full list is under
`hazards` in `PROJECT.json`, each at its line with the properties about it.

## The modules

    CstFile ── FileWatcher ── CstServer ── CstClient ── MCCstClient
        │           │             ├── MCCstServer (also in MCCstClient)
        │           │             ├ (INSTANCE) SnapshotRegistry
        │           │             └── CstServer_proofs ── CstClient_proofs
        │           ├── FileWatcher_proofs (also used by CstServer_proofs, WatcherFaults_proofs)
        │           └── WatcherFaults ── MCFileWatcher, WatcherFaults_proofs
        └── SnapshotRegistry
    PathResolve, Glob ── AccessConfig ── MCAccessConfig, AccessConfig_proofs
    ServerLocks ── MCServerLocks, ServerLocks_proofs
    CstWalk ── CstWalk_proofs
    Recursion_proofs (used by the proofs of AccessConfig, ServerLocks and CstWalk)

**CstFile** - the value of the registry. A text is the set of the contributions
that can still be read in it: `Original`, one mark for each outside write, one
for each call that added text. An edit removes the marks below the node it names
and adds its own; a lost update is a missing mark. `Edits(f, r)` is every result
an edit tool can compute; `CheckVersion` is `check_version`. The tree is a
function of path and text, and a node id is the address of a node, so an id of an
older tree is any node of the present one or none. `PlainFiles` are the paths
without a grammar: they have no tree, so no edit of them succeeds.

**FileWatcher** - `files` is `ServerState` as a total function (`Untracked`
where the map has no entry), `disk` the file system, `handle` the file each writer
has open between the truncation and the write of `std::fs::write`, `watched` the
live watches, `channel` the events sent and not handled, `external` the progress
of other processes. `HandleEvent` is one turn of the spawned task, with
`handle_event`'s filter (`ReloadKinds`) and `reload_file` under the write lock.
`Watch` and `Unwatch` are `watch_path` and `unwatch_path`. inotify and `notify`
are external and modelled as the code depends on them: a watch belongs to the
inode and dies with it, an open is reported (`ReportsOpens`), a write that
follows another writer's write leaves that writer's tail in place (`Fill`).
Initially the files of `Tracked` are tracked and watched, as after `track_file`
has answered; with `Tracked = {}` it is the state `main` starts in. `ReloadFails` is
a reload that cannot read a file that is there (no permission, not UTF-8): the error is
logged, the old file kept and the event spent; it is an action of the modules that
compose this one.

**WatcherFaults** - the watcher when events go missing. `Overflow` drops an event
that finds the kernel's queue full; the notice `notify` sends instead is of a kind
`handle_event` filters out. `ReloadLost` is a reload that fails. Neither is
retried. `lost` holds the paths about which an event was lost and that
were not reloaded since.

**CstServer** - every tool that touches the registry, the watches or the disk.
`task[r]` is the task of request r: its next step, its path, and the file it has
computed or copied and not yet stored. An action is what the handler does between
two points where others can run:

| tool | actions |
|---|---|
| `track_file` | `TrackRead`, `TrackStore`, `TrackWatch` |
| `untrack_file` | `UntrackRemove`, `UntrackUnwatch` |
| `edit_node`, `insert_*`, `delete_node` | `EditCompute`, `EditCommit` (`apply_edit`) |
| `save_file` | `SaveSnapshot`, `SaveTruncate`, `SaveFill` |
| `create_file` | `CreateCheck`, `CreateTruncate`, `CreateFill`, `CreateRead`, then as `track_file` |
| `delete_file` | `DeleteCheck`, `DeleteUntrack`, `DeleteUnwatch`, `DeleteRemove` |
| `load_file`, `get_node`, skeletons, children, `query_file` | `Read` |

Errors and early returns are disjuncts of these; `Denial` is a call the access
rules refuse, `ReadFails` a file that cannot be read, there or not, `Failed` another system
call that fails; `ReloadMissed` is a reload that fails. Files that are there can fail them
where `IOFails` is true, as in `pipelined`. An overflow of the kernel's queue is in
WatcherFaults only, so what is said of the server is said of one that loses no event to
it. The five edit tools, which check
one access action and differ only in the text they compute, are one. `detached` is a
history variable: the paths whose registry text a call made differ from the disk,
whose disk text changed while they were not watched, or whose last reload failed.

**CstClient** - the server with what its client goes by: `seen`, the versions the
reading tools and the edits answered with, and the files they were versions of.
Tracking a file starts a new count and voids what was known of it.

**SnapshotRegistry** - the abstract specification of the registry. An edit is two
steps, and the second stores its result over whatever is there by then; still, nothing
enters the registry but a parsed text at version 0, the next version of the file it
replaces, or one edit of a file that was in the registry at that very path. That an
edit is no single step is what this code is: `OnlyReloadsAreOverwritten` says what is left
of it for a client that waits for its answers.

**ServerLocks** - the same server seen from its locks: `pc`, `queue` and `holders`
for the registry's lock, which serves its waiters in their order and lets readers
share; the mutex around the watcher (`TakeMutex`, `WatchDone`), for which a thread
is kept while it waits; a number of worker threads. A file is only the
number of captures a query has in it. `query_workspace` is one step for each file
(`QueryFile`), with what is left of `max_matches` carried along, so that
other calls and the watcher interleave with it wherever the lock lets them.

**CstWalk** - the cursor loops of `find_node` and `get_errors`, one action for each
move of the cursor with the code's depth counter; the row walked by
`get_children`; `node_to_skeleton`. A tree is the sequence of its
nodes' depths in document order.

**AccessConfig** - the start: `parse_args`, one action for each argument
(`ParseWorkspace`, `ParseRuleset`, `ParseError`, `ParseDone`); `Configure` opens the
workspace, loads the document and sorts it by descending priority, keeping the written
order of equals; `StartWatcher` and `Serve` are the rest of `main`, and each of them may
fail and end it. Then `ResolveAndCheck` is a call's path and action being checked, again
and again. `PathText` and `PatternText` are what is compared: of the path and of the
workspace every backslash is made a separator, of a pattern none, so a name with a
backslash in it is two to the rules. **PathResolve** is `resolve_path` and `normalise_path` beside what a path
means; **Glob** is `glob_matches`, character by character, beside the reading of a
pattern by segments (`NamesOf` are the names in a text).

## What the runs check

Each passing run has a mutant of the code for each of its properties, a definition
beside the real one, with which TLC finds the property violated.

| run | shows |
|---|---|
| `watcher` | The watcher beside three outside writes, removals or replacements of two files, with up to two events lost: `OnlyLossesAreMissed` (a watched file holds the disk's text or a reload is in the queue, unless an event about it was lost and it was not reloaded since), `ConvergesUnlessLost`, `ChannelDrains` (opening a file to reload it does not cause the next reload) |
| `pipelined` | Two calls of any tools in flight together on two files, one without grammar that may not be deleted, one watch to grant, one outside operation, reads, writes and removals that fail: `DetachedOrInSync`, `ReloadOnlyAdvances`, `ImplementsSnapshots`, `Answered`, `Settles` |
| `serial` | A client that waits, three calls of any tools, another process writing beside it: `GivenVersionsNameTexts`, `WatchedIffTracked`, `SaveIsLossless` (although the save's own events reload the file in the middle), `OnlyReloadsAreOverwritten` (an edit is stored over the file it is an edit of, or over a reload of it whose text the disk has or will have given the registry), `OnlyTrackingTracks` |
| `tree_walk` | Every tree of up to six nodes with every set of error or named nodes and every id, stale ones too: `FindsIfThere`, `ReportsEveryError`, `ListsChildren`, `CountsDepth` (the counter is the cursor's depth, so 0 means the root), `SkeletonReaches`, `WalkEnds` |
| `access` | Command lines in and out of order, a watcher or a client that may be missing, documents of up to three rules, every kind of pattern, a workspace, names and patterns with a backslash, paths that leave the workspace and come back: `StartsAsAsked`, `HighestPriorityDecides`, `ResolvesAsMeant`, `PatternsFollowSegments` |
| `locks` | Two calls at a time, again and again, and the watcher task on two threads: `QueryTakesFirst` (the query reports the first captures of the registry as it is when it ends, as many as were asked for), `CallsAreAnswered`, `EventsAreHandled` |

Six more runs show the code doing what its documents say it does not
(`findings`):

| run | property | what happens |
|---|---|---|
| `overwritten_reload` | `GuardedEditsDetectConflicts` | an edit whose `expected_version` matched is stored over a reload that came after the check |
| `retracked_version` | `VersionsOnlyRise` | `track_file` on a tracked file takes its version back to 0 |
| `stale_track` | `WatchedInSync` | a change between `track_file`'s read and its watch is never reloaded |
| `own_save_reloads` | `OnlyCallsChangeTexts` | with no other process at all, the watcher reloads the half-written file of the server's own save, or the saved text over a later edit |
| `untracked_returns` | `OnlyTrackingTracks` | an edit in flight puts a file back into the registry that `untrack_file` has removed and answered ok for; nothing watches it |
| `access_ties` | `TiesFavourDeny` | an allow rule written before a deny rule of the same priority wins |

**What holds for a waiting client only.** `apply_edit` (`tools.rs:750`) does not look
again at what it replaces. With calls in flight together, two edits of one
version both answer ok with one of them lost (`OnlyReloadsAreOverwritten` fails), an edit
puts back a file that was untracked meanwhile (`OnlyTrackingTracks`, in
`untracked_returns`), and a version given to the client can come to name another text
(`GivenVersionsNameTexts`). In the same way `WatchedIffTracked` fails with `track_file` and
`untrack_file` in flight together (registry and watches change in two steps), and
`SaveIsLossless` with two saves of one file. Two creations of one path, or one beside
another process, overwrite a file that `create_file` found absent; the code makes no promise
about that, and no property is about it. What a waiting client does not get is that
a reload is never overwritten: `overwritten_reload` shows one. `WatchedInSync` is
violated by `track_file` in `stale_track`; it is proved of the watcher alone, and
`DetachedOrInSync` is what holds of the whole server.

**Bounds.** `MaxVersion` bounds the reloads of a file; 12 (8 for `watcher`) is
more than the events that the calls and writes of a run can cause, so it never cuts
a behaviour off. Calls and outside writes are finite because each request and each
write happens at most once. Two calls in flight reach every pair of handlers at every pair
of points, and three in a row every way for a handler to
leave something behind that a later one meets (an edit between two
trackings, a creation after a deletion). Two paths matter only for what relates paths
(the watch limit, the queue, files without grammar). In `access` a workspace with a backslash
in its name makes the conversion matter to every relative pattern. `WatchLimit = 1` makes a watch be
refused. `MaxLosses = 2` loses the events of both files, or twice that of one with a reload
in between. `MaxNodes = 6` has trees in which the cursor climbs two levels at once and goes
on; `MaxLevels = 3` is deeper than most of them. `MaxEvents = 1` in `locks` is an event
waiting while another is handled. Requests are interchangeable, which makes symmetry over them
sound; no liveness property is checked under symmetry. A state without a
successor is a deadlock unless `Idle` (`WatcherIdle`, `Returned`, `Failed`) holds:
no call in flight, no event in the queue, no file half-written.

**Fairness.** In the server and the watcher, weak fairness of the event task and of each
task's `Proceed`: tokio polls every task that is ready, none waits for anything but
the registry's lock, and that is held for bounded times and never across an await.
`ServerLocks` takes this apart: threads run (weak fairness of `Run`, `ReloadFile` and
`TakeMutex`), and tokio gives a thread in the end to each task that is ready again and
again (strong fairness of `Acquire` and `TakeEvent`, since others may take the free
threads for some time; the lock itself serves in order). The std mutex makes no promise, so
`CallsAreAnswered` exempts a call that loses the mutex to others for ever. The loops of
`CstWalk` run without waiting. None is assumed of the client or of outside
processes, which may stop half-way.

## What is proved

By TLAPS, for any sets of paths, requests and writes, any limits and (but for the
waiting client) any number of calls in flight:

| theorem | says |
|---|---|
| `WatcherTypeCorrect`, `WatcherMissesNothing` | `WatcherSpec => []WatcherTypeOK`, `[]WatchedInSync` |
| `OnlyLossesLeaveBehind` | `FaultSpec => []OnlyLossesAreMissed` |
| `ServerTypeCorrect`, `ServerFollowsDisk` | `Spec => []TypeOK`, `[]DetachedOrInSync` |
| `ServerImplementsSnapshots` | `Spec => ImplementsSnapshots` |
| `WatcherOnlyAdvances` | `Spec => ReloadOnlyAdvances` |
| `SerialTracking` | `Waiting`: `Spec => OnlyTrackingTracks` |
| `SerialWatching` | `Waiting`, `Granting`: `Spec => []WatchedIffTracked` |
| `SerialSaving` | `Waiting`, `WritersBeside`: `Spec => SaveIsLossless` |
| `SerialOverwriting` | `Waiting`, `Granting`, `Readable`: `Spec => OnlyReloadsAreOverwritten` |
| `VersionsNameTexts` | `Waiting`: `ClientSpec => []GivenVersionsNameTexts` |
| `LocksTypeCorrect`, `QueryTakesTheFirst` | `LocksSpec => []LocksTypeOK`, `[]QueryTakesFirst` |
| `WalkTypeCorrect`, `CounterIsDepth` | `WalkSpec => []WalkTypeOK`, `[]CountsDepth` |
| `FindNodeFinds`, `GetErrorsReports`, `GetChildrenLists`, `SkeletonsReach` | `WalkSpec => []FindsIfThere`, `[]ReportsEveryError`, `[]ListsChildren`, `[]SkeletonReaches` |
| `ConfigTypeCorrect`, `StartsAsItIsAsked` | `ConfigSpec => []ConfigTypeOK`, `[]StartsAsAsked` |
| `PriorityDecides`, `PathsResolveAsMeant`, `PatternsMatchAsMeant` | `ConfigSpec => []HighestPriorityDecides`, `[]ResolvesAsMeant`, `[]PatternsFollowSegments` |

They rest on the assumptions the modules declare (the special values are not files,
texts or paths, the tracked files exist, a start has arguments and a document, a path
is a sequence of names and a name holds no separator, the workspace's has no `.` or `..`),
which TLC evaluates in the runs, and on the hypotheses in the second column:
`Waiting` is one call in flight at a time, of finitely many, `Granting` watches enough for every path and
other processes that only write, `WritersBeside` other processes that only write,
`Readable` system calls that do not fail. The run `serial` is an instance of them.

*The watcher.* `WatchedInSync` is not inductive: an event of a file that is gone
is consumed without a reload, and a watch on such a file would leave the registry
behind. `WatcherInv` adds `WatchOnExisting`: only an existing file is watched or
open. One lemma says what each kind of step on the disk preserves, and the proofs of
WatcherFaults and CstServer use the same lemmas. With losses, a path is excused from the
loss of its event to its next reload; that dropping another event leaves its
reload in the queue is `WithoutKeeps`.

*The server.* `DetachedOrInSync` fails to be inductive for one more reason: a
file that is not watched can become watched. `Followed` therefore speaks of every
path that exists and is not detached, watched or not, and `TaskShape` says that a
task between two steps carries a path, a file where its next step stores
or writes one, and version 0 before `TrackStore`. `ServerInv` is the conjunction
of these with `TypeOK` and `WatchOnExisting`.

*The refinement.* A request's draft is its task's file while it is at
`edit_commit`. Each action maps to one step of SnapshotRegistry or to none;
`TrackStore` needs `TaskShape` to be the abstract `Track` (a parsed file at
version 0).

*The waiting client.* `SerialInv` adds to `ServerInv` that at most one call is in
flight and that the file an edit is computed for stays tracked. Each theorem adds one
invariant of the handler in flight: `PairedInv` (registry and watches agree but for the path
between the two halves of a handler), `SavingInv` (a truncated file holds nothing but
what was written beside), `OverwritingInv` (an edit in flight is one of the file in the
registry, or that file was reloaded under it and has followed the disk since, for
it is watched by `PairedInv`), `SeenInv` (no version that was
given is beyond the file's, and an edit in flight is beyond all of them).

*The locks.* That `holders` are the tasks at the places that hold, and that two of
them both read, is inductive as it stands (`LocksTypeOK`); a writer therefore is alone.
The query's answer needs `QueryInv`: while the query holds the lock, the files it has to scan
are the tracked ones from some path on in order, and what it has taken is the first captures of
those before it, `max_matches` at most. It survives every step of the others because
none of them writes under a reader (`RegistryStays`). The captures before a file are counted
as the cardinality of a set, which grows by one file's at a time (`InFilesGrows`).

*The walks.* `WalkInv` says where the loops are: the nodes seen are those before the cursor in
document order (while it climbs, with everything below it too), the result lists
the wanted ones among them, and the counter is the depth of the cursor. That a climb skips
nothing is a fact about trees as sequences of depths: what follows the last node below a node is
its next sibling or lies after its parent's last. `SkeletonsReach` is about a recursive
function: the nodes it should show, by their ancestors, solve its recursion
(so it is defined), and the least level at which a solution differed from them
would contradict it one level down.

*The start and the rules.* `AskedInv` says at each phase of the start what has been found in order by
then, and of a start that was given up what is missing. `Kept` says of the arguments read so far which value of a
flag came last; `Sorted` that the rules are the document in an order that puts a
higher priority first, from which the first match is one of the highest priority
(`FirstIsHighest`).

*The paths.* What a path means is stated by counting: a name stays if every stretch from it on has more
names than `..` (`Left`). `Stacked` relates that to the code's stack after n components:
it holds the names left of these in order, on top of a `..` that was pushed at the root, if that is still
there. A name adds itself to both, `..` takes the last of both (`LeftWithDotDot`: from the last name
left there is exactly one name more than `..`, from every earlier one at least two), and a `..` where nothing is
left is at the root (`DotDotAtRoot`). A path that still has a `..` at the bottom does not
begin with the workspace, so it is refused; every other is what it means.

*The patterns.* The text that is matched is that of its names: what `NamesOf` reads of a text that begins
with a separator is written again as that text (`NamesRead`, one character at a time), and what is written of
the workspace's names and then of a pattern's is the pattern's text (`WrittenJoined`). So both sides are
sequences of names and of segments. `GlobInner` is a recursive function whose values are the rows of a table, one for each
place in the pattern; a row depends on those after it only, so there is such a table and each
entry is what `glob_inner` returns there (`MatchesEntry`). `Laid` says where each segment ends in
the characters of a pattern, and each name in those of a path. Within a segment and a name (`NameForward`,
`RestReverse`) a match and a place for each character are made from each other from
the end back. Over segments, what a pattern stands for is matched (`ForwardStep`): after
`**` the match goes on behind the separator of a later name. The converse
(`ReverseStep`) needs two claims together, for `**/` may end its match inside a name: a
match from the separator of a segment stands for the names from there on, and one from
behind it (`StarStands`), where the segment begins with `*`, for those from some later name on, since that
star then takes the part of the name before it too. That is what
`ReadsBySegments` is for, and where it fails `**/b` matches `ab`.

*Induction.* The provers have no induction over numbers, so Recursion_proofs has
`LeastExists` (a set of numbers has a least one), from which each induction above is an argument about the
least counterexample (`RangeInduction` is the one over the numbers of a range), and `RecursionDefines`, that a recursion over a range defines a function.

Model-checked only: the liveness properties (`ConvergesUnlessLost`, `ChannelDrains`,
`Settles`, `Answered`, `CallsAreAnswered`, `EventsAreHandled`, `WalkEnds`), which are out of
the prover's reach. Every invariant and every action property that a passing run
checks is proved.

## What is not modelled

- `list_tracked` lists the registry's paths under the read lock and changes nothing; it
  is the "read" of ServerLocks. `query_tool` answers from a constant catalogue.
- The end of the service (`running.waiting()`), which ends the process with whatever is in flight, and
  names that are not UTF-8, which `to_string_lossy` changes before a pattern is compared with them.
- Parsing itself (tree-sitter), positions, previews, JSON, wording of answers, logging.
- `from_unix_path` on Windows, which turns `/c/...` into a drive path: PathResolve is
  the other systems, where it changes nothing. A workspace that is the root of the file system
  (`WorkspaceAssumption`): a relative pattern then begins with two separators and matches nothing.
- What a pattern may match beyond its segments, where a `**` begins or ends inside a segment
  or is followed by a name: the code lets it match inside a name (`**/b` matches `ab`).
  `GlobMatches` does so too; `PatternsFollowSegments` asks only that nothing the
  pattern stands for is missed then.
- `query_workspace` asks for no access to the files it reads; the model has it so.
- rmcp's cancellation of a call: handlers never look at it.
- A watch that remains on an inode no path names any more: its events name the old
  path and can only cause more reloads.
- The integration tests, which are read for what they say of the program, and
  `scripts/setup-inotify.sh`, which sets the kernel limit that is `WatchLimit`.

## Plan

All the modules above, their runs and the proofs listed are written; nothing that was
planned is left.
