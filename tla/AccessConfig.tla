----------------------------- MODULE AccessConfig -----------------------------
(***************************************************************************)
(* Who may do what to which path: the command line (parse_args and main in *)
(* src/main.rs), the configuration built from it once (AccessConfig::new   *)
(* in src/access.rs), and the check every tool makes first                 *)
(* (resolve_and_check).                                                    *)
(***************************************************************************)
EXTENDS Glob, PathResolve

CONSTANTS
    Starts,      \* the ways the server is started: command line and ruleset
    RawPaths,    \* the paths the client passes
    Actions,     \* the actions of the tools
    NoRuleset,   \* ruleset of a start: there is no such file
    Unreadable   \* ruleset of a start: it is no policy document

Effects == {"allow", "deny"}

Pattern == [absolute : BOOLEAN, segments : Seq(Name) \ {<<>>}]

\* A rule of a policy document.
Rule == [effect : Effects, priority : Int, actions : SUBSET STRING, resources : SUBSET Pattern]

\* A start: the arguments; whether the workspace given last is a directory the
\* server can open; the policy document in the ruleset given last; whether the
\* system gives it a watcher; whether a client connects.
ASSUME StartsAssumption ==
    \A start \in Starts :
        /\ start.args \in Seq(STRING)
        /\ start.accessible \in BOOLEAN
        /\ start.document \in {NoRuleset, Unreadable} \cup Seq(Rule)
        /\ start.watches \in BOOLEAN /\ start.connects \in BOOLEAN

\* A path is a sequence of names, and begins with a separator or not.
ASSUME RawPathsAssumption ==
    /\ RawPaths \subseteq [absolute : BOOLEAN, components : Seq(Name)]
    /\ Workspace \in Seq(Name)

VARIABLES
    start,       \* how this server was started
    phase,       \* "args", "config", "loaded", "watching", "serving" or "failed"
    next,        \* the index of the argument to look at
    workspace,   \* the argument that gives the workspace, if it is there yet
    ruleset,     \* the one that gives the ruleset
    rules,       \* the rules in the order they are searched
    decision     \* the last check and what came of it

configVars == <<start, phase, next, workspace, ruleset, rules, decision>>

None == 0

NoDecision == [checked |-> FALSE]

ConfigInit ==
    /\ start \in Starts
    /\ phase = "args"
    /\ next = 1
    /\ workspace = None /\ ruleset = None
    /\ rules = <<>>
    /\ decision = NoDecision

-----------------------------------------------------------------------------
(* parse_args *)

Args == start.args

Stop(reason) ==
    /\ phase' = "failed"
    /\ UNCHANGED <<start, next, workspace, ruleset, rules, decision>>

\* Mutant of Flag: the last argument can be a flag, with no value.
FlagAtEnd(flag) ==
    /\ phase = "args" /\ next <= Len(Args) /\ Args[next] = flag
    /\ next' = next + 2

\* A flag, whose value is the next argument, whatever that is.
Flag(flag) ==
    /\ phase = "args" /\ next <= Len(Args) /\ Args[next] = flag
    /\ next < Len(Args)
    /\ next' = next + 2

ParseWorkspace ==
    /\ Flag("--workspace-path")
    /\ workspace' = next + 1
    /\ UNCHANGED <<start, phase, ruleset, rules, decision>>

ParseRuleset ==
    /\ Flag("--ruleset-path")
    /\ ruleset' = next + 1
    /\ UNCHANGED <<start, phase, workspace, rules, decision>>

\* An unknown argument, or a flag without its value.
ParseError ==
    /\ phase = "args" /\ next <= Len(Args)
    /\ Args[next] \notin {"--workspace-path", "--ruleset-path"} \/ next = Len(Args)
    /\ Stop("argument")

ParseDone ==
    /\ phase = "args" /\ next > Len(Args)
    /\ \/ /\ workspace # None
          /\ phase' = "config"
          /\ UNCHANGED <<start, next, workspace, ruleset, rules, decision>>
       \/ /\ workspace = None
          /\ Stop("no workspace")

-----------------------------------------------------------------------------
(* AccessConfig::new *)

\* Mutant of Before: ascending priorities.
BeforeAscending(document, i, j) ==
    \/ document[i].priority < document[j].priority
    \/ document[i].priority = document[j].priority /\ i < j

\* Does rule i of the document come before rule j: by priority, else as
\* written, for the sort is stable.
Before(document, i, j) ==
    \/ document[i].priority > document[j].priority
    \/ document[i].priority = document[j].priority /\ i < j

\* The ways to put a document in that order: there is one.
Orders(document) ==
    LET places == 1..Len(document) IN
    {order \in [places -> places] :
        /\ \A p \in places : \E q \in places : order[q] = p
        /\ \A p, q \in places : p < q => Before(document, order[p], order[q])}

Load(document) ==
    /\ phase' = "loaded"
    /\ \E order \in Orders(document) :
          rules' = [k \in 1..Len(document) |-> document[order[k]]]
    /\ UNCHANGED <<start, next, workspace, ruleset, decision>>

\* Mutant of Configure: a ruleset that cannot be loaded is gone without.
ConfigureAnyway ==
    /\ phase = "config"
    /\ \/ ~start.accessible /\ Stop("workspace")
       \/ /\ start.accessible
          /\ Load(IF ruleset = None \/ start.document \in {NoRuleset, Unreadable}
                  THEN <<>> ELSE start.document)

Configure ==
    /\ phase = "config"
    /\ \/ ~start.accessible /\ Stop("workspace")
       \/ /\ start.accessible
          /\ \/ ruleset = None /\ Load(<<>>)
             \/ /\ ruleset # None
                /\ start.document \in {NoRuleset, Unreadable}
                /\ Stop("ruleset")
             \/ /\ ruleset # None
                /\ start.document \notin {NoRuleset, Unreadable}
                /\ Load(start.document)

-----------------------------------------------------------------------------
(* The rest of main: start_watcher and serve. *)

StartWatcher ==
    /\ phase = "loaded"
    /\ \/ /\ start.watches
          /\ phase' = "watching"
          /\ UNCHANGED <<start, next, workspace, ruleset, rules, decision>>
       \/ ~start.watches /\ Stop("watcher")

Serve ==
    /\ phase = "watching"
    /\ \/ /\ start.connects
          /\ phase' = "serving"
          /\ UNCHANGED <<start, next, workspace, ruleset, rules, decision>>
       \/ ~start.connects /\ Stop("transport")

-----------------------------------------------------------------------------
(* resolve_and_check *)

RuleMatchesAction(rule, action) == "*" \in rule.actions \/ action \in rule.actions

\* The characters of the path and of the workspace, in which every backslash is
\* made a separator, on Linux too.
PathText(path) == Forward(Written(path))

\* A pattern, which is not converted, is absolute or relative to the workspace.
PatternText(pattern) ==
    IF pattern.absolute
    THEN Written(pattern.segments)
    ELSE PathText(Workspace) \o Written(pattern.segments)

RuleMatchesResource(rule, path) ==
    \E pattern \in rule.resources : GlobMatches(PatternText(pattern), PathText(path))

RuleMatches(rule, action, path) ==
    RuleMatchesAction(rule, action) /\ RuleMatchesResource(rule, path)

Matching(seq, action, path) ==
    {k \in 1..Len(seq) : RuleMatches(seq[k], action, path)}

\* The effect of the first rule that matches; allowed if none does.
CheckAccess(action, path) ==
    \A k \in Matching(rules, action, path) :
        (\A j \in Matching(rules, action, path) : k <= j) =>
            rules[k].effect = "allow"

ResolveAndCheck(action, raw) ==
    /\ phase = "serving"
    /\ decision' = [checked |-> TRUE, action |-> action, raw |-> raw,
                    path |-> ResolvePath(raw),
                    inside |-> InWorkspace(raw),
                    allowed |-> /\ InWorkspace(raw)
                                /\ CheckAccess(action, ResolvePath(raw))]
    /\ UNCHANGED <<start, phase, next, workspace, ruleset, rules>>

Failed == phase = "failed" /\ UNCHANGED configVars

ConfigNext ==
    \/ ParseWorkspace \/ ParseRuleset \/ ParseError \/ ParseDone
    \/ Configure \/ StartWatcher \/ Serve
    \/ \E action \in Actions, raw \in RawPaths : ResolveAndCheck(action, raw)
    \/ Failed

ConfigSpec == ConfigInit /\ [][ConfigNext]_configVars

-----------------------------------------------------------------------------
(* Properties *)

ConfigTypeOK ==
    /\ start \in Starts
    /\ phase \in {"args", "config", "loaded", "watching", "serving", "failed"}
    /\ next \in 1..(Len(Args) + 1)
    /\ workspace \in 0..Len(Args) /\ ruleset \in 0..Len(Args)
    /\ \A k \in 1..Len(rules) : rules[k].effect \in Effects

\* The arguments are flags, each with a value, and the workspace is among them.
WellFormed ==
    LET flags == {i \in 1..Len(Args) : i % 2 = 1} IN
    /\ Len(Args) % 2 = 0
    /\ \A i \in flags : Args[i] \in {"--workspace-path", "--ruleset-path"}
    /\ \E i \in flags : Args[i] = "--workspace-path"

Given(flag) == {i \in 1..Len(Args) : i % 2 = 1 /\ Args[i] = flag}

LastFlag(flag, value) ==
    IF Given(flag) = {} THEN value = None
    ELSE value - 1 \in Given(flag) /\ \A i \in Given(flag) : i < value

\* What the command line names can be loaded.
Loadable ==
    /\ start.accessible
    /\ Given("--ruleset-path") # {} => start.document \notin {NoRuleset, Unreadable}

\* A server that serves has a command line that is in order, has loaded what it
\* names, the workspace and the ruleset that were given last, and has a watcher
\* and a client; one that gives up lacks one of these.
StartsAsAsked ==
    LET can == WellFormed /\ Loadable /\ start.watches /\ start.connects IN
    /\ phase = "serving" =>
          /\ can
          /\ LastFlag("--workspace-path", workspace)
          /\ LastFlag("--ruleset-path", ruleset)
    /\ phase = "failed" => ~can

Document == IF ruleset = None THEN <<>> ELSE start.document

\* The rules of the document that match and that no matching rule outranks.
Top ==
    LET matching == Matching(Document, decision.action, decision.path) IN
    {i \in matching :
        \A j \in matching : Document[j].priority <= Document[i].priority}

\* The rules of the highest priority among those that match decide whenever
\* they agree, wherever the document has them; with no match, a call inside the
\* workspace is allowed.
HighestPriorityDecides ==
    decision.checked /\ decision.inside =>
        /\ (\A i \in Top : Document[i].effect = "allow") => decision.allowed
        /\ Top # {} /\ (\A i \in Top : Document[i].effect = "deny")
              => ~decision.allowed

\* When two matching rules have the same priority, deny wins.
TiesFavourDeny ==
    decision.checked /\ (\E i \in Top : Document[i].effect = "deny") =>
        ~decision.allowed

\* A path is inside the workspace by its meaning, not by its spelling: one whose
\* `..' leave it, or that spells it as a prefix only, is refused, one that
\* comes back into it is not, and tools get it without `..'.  A `..' at the root
\* of the file system may be refused although the path means one inside.
ResolvesAsMeant ==
    decision.checked =>
        LET absolute == Absolute(decision.raw)
            means == StartsWith(Meant(absolute), Workspace)
        IN /\ decision.inside => means /\ decision.path = Meant(absolute)
           /\ means => decision.inside \/ LeavesRoot(absolute)

\* A pattern below the workspace, or an absolute one, by its segments.
AbsolutePattern(pattern) ==
    IF pattern.absolute
    THEN pattern.segments
    ELSE NamesOf(PathText(Workspace)) \o pattern.segments

\* Every path that a pattern stands for, segment by segment, is matched, and no
\* other is unless a `**' may begin or end inside a name.  The segments of the
\* path, and of the workspace, are those that check_access makes of it: a name
\* with a backslash in it is two.
PatternsFollowSegments ==
    decision.checked =>
        \A i \in 1..Len(Document) : \A pattern \in Document[i].resources :
            LET absolute == AbsolutePattern(pattern)
                stands == SegmentsMatch(absolute, NamesOf(PathText(decision.path)))
                matches == GlobMatches(PatternText(pattern), PathText(decision.path))
            IN /\ stands => matches
               /\ matches => stands \/ ~ReadsBySegments(absolute)
===============================================================================
