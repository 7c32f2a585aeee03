------------------------- MODULE AccessConfig_proofs -------------------------
(***************************************************************************)
(* Proofs about AccessConfig: for any command lines, documents, patterns   *)
(* and paths, the server starts as it is asked to, the rules of the        *)
(* highest priority decide, a path resolves to what it means, and a        *)
(* pattern matches what it stands for, segment by segment.                 *)
(*                                                                         *)
(* In this order: the rules, the specification, paths, patterns.           *)
(***************************************************************************)
EXTENDS AccessConfig, FiniteSetTheorems, SequenceTheorems, Recursion_proofs

-----------------------------------------------------------------------------
(* The rules. *)

\* Do the rules seq hold what document holds, in the order of their search?
Sorted(seq, document) ==
    \E order \in Orders(document) :
        seq = [k \in 1..Len(document) |-> document[order[k]]]

\* The first match in a sorted list is a match of the highest priority.
LEMMA FirstIsHighest ==
    ASSUME NEW document \in Seq(Rule), NEW seq, Sorted(seq, document),
           NEW action, NEW path, NEW k \in Matching(seq, action, path),
           \A j \in Matching(seq, action, path) : k <= j
    PROVE  \E i \in Matching(document, action, path) :
              /\ document[i] = seq[k]
              /\ \A j \in Matching(document, action, path) :
                    document[j].priority <= document[i].priority
<1> DEFINE places == 1..Len(document)
<1>1. PICK order \in Orders(document) :
           seq = [n \in places |-> document[order[n]]]
  BY DEF Sorted
<1>2. /\ order \in [places -> places]
      /\ \A p \in places : \E q \in places : order[q] = p
      /\ \A p, q \in places : p < q => Before(document, order[p], order[q])
  BY <1>1 DEF Orders
<1>3. Len(seq) = Len(document) /\ \A n \in places : seq[n] = document[order[n]]
  BY <1>1
<1>4. k \in places /\ order[k] \in places /\ seq[k] = document[order[k]]
  BY <1>2, <1>3 DEF Matching
<1>5. order[k] \in Matching(document, action, path)
  BY <1>4 DEF Matching
<1>6. ASSUME NEW j \in Matching(document, action, path)
      PROVE  document[j].priority <= document[order[k]].priority
  <2>1. j \in places /\ RuleMatches(document[j], action, path)
    BY DEF Matching
  <2>2. PICK q \in places : order[q] = j
    BY <1>2, <2>1
  <2>3. q \in Matching(seq, action, path)
    BY <1>3, <2>1, <2>2 DEF Matching
  <2>4. k <= q
    BY <2>3
  <2>5. document[j].priority \in Int /\ document[order[k]].priority \in Int
    <3>1. document[j] \in Rule /\ document[order[k]] \in Rule
      BY <1>4, <2>1
    <3> QED
      BY <3>1 DEF Rule
  <2>6. CASE q = k
    BY <2>2, <2>5, <2>6
  <2>7. CASE k < q
    <3>1. Before(document, order[k], j)
      BY <1>2, <1>4, <2>2, <2>7
    <3> QED
      BY <2>5, <3>1 DEF Before
  <2> QED
    BY <1>4, <2>4, <2>6, <2>7
<1> QED
  BY <1>4, <1>5, <1>6

\* If anything matches in the document, something matches first in the rules.
LEMMA SomeIsFirst ==
    ASSUME NEW document \in Seq(Rule), NEW seq, Sorted(seq, document),
           NEW action, NEW path, NEW i \in Matching(document, action, path)
    PROVE  \E k \in Matching(seq, action, path) :
              \A j \in Matching(seq, action, path) : k <= j
<1>1. PICK order \in Orders(document) :
           seq = [n \in 1..Len(document) |-> document[order[n]]]
  BY DEF Sorted
<1>2. i \in 1..Len(document) /\ RuleMatches(document[i], action, path)
  BY DEF Matching
<1>3. PICK q \in 1..Len(document) : order[q] = i
  BY <1>1, <1>2 DEF Orders
<1>4. Len(seq) = Len(document) /\ seq[q] = document[i]
  BY <1>1, <1>3
<1>5. q \in Matching(seq, action, path)
  BY <1>2, <1>4 DEF Matching
<1>6. Matching(seq, action, path) \subseteq Nat
  BY DEF Matching
<1> QED
  BY <1>5, <1>6, LeastExists

-----------------------------------------------------------------------------
(* The specification. *)

\* What is decided, and by which rules.
ServingInv ==
    /\ phase # "serving" => decision = NoDecision
    /\ phase \in {"loaded", "watching", "serving"} =>
          Document \in Seq(Rule) /\ Sorted(rules, Document)
    /\ decision.checked =>
          (decision.allowed <=>
             decision.inside /\ CheckAccess(decision.action, decision.path))

\* Is value the last one of the flag among the arguments before place?
Kept(flag, value, place) ==
    IF value = None
    THEN \A i \in 1..(place - 1) : i % 2 = 1 => Args[i] # flag
    ELSE /\ value - 1 \in 1..(place - 1) /\ (value - 1) % 2 = 1
         /\ Args[value - 1] = flag
         /\ \A i \in 1..(place - 1) : i % 2 = 1 /\ Args[i] = flag => i < value

\* Where a flag is looked for, those before it had their values.
ParseInv ==
    /\ phase = "args" =>
          /\ next % 2 = 1
          /\ \A i \in 1..(next - 1) :
                i % 2 = 1 => Args[i] \in {"--workspace-path", "--ruleset-path"}
          /\ Kept("--workspace-path", workspace, next)
          /\ Kept("--ruleset-path", ruleset, next)

\* What a start has behind it in each phase, and lacks when it gives up.
AskedInv ==
    /\ phase \in {"config", "loaded", "watching", "serving"} =>
          /\ WellFormed
          /\ LastFlag("--workspace-path", workspace)
          /\ LastFlag("--ruleset-path", ruleset)
    /\ phase \in {"loaded", "watching", "serving"} => Loadable
    /\ phase \in {"watching", "serving"} => start.watches
    /\ phase = "serving" => start.connects
    /\ phase = "failed" =>
          ~WellFormed \/ ~Loadable \/ ~start.watches \/ ~start.connects

ConfigInv ==
    /\ ConfigTypeOK
    /\ ServingInv
    /\ ParseInv
    /\ AskedInv

\* The initial state: nothing is parsed, loaded or decided.
LEMMA ConfigInitInv == ConfigInit => ConfigInv
<1> SUFFICES ASSUME ConfigInit
             PROVE  ConfigInv
  OBVIOUS
<1> USE DEF ConfigInit
<1>1. Len(Args) \in Nat
  BY StartsAssumption DEF Args
<1>2. ConfigTypeOK
  BY <1>1 DEF ConfigTypeOK, None
<1>3. ServingInv
  BY DEF ServingInv, NoDecision
<1>4. ParseInv
  BY DEF ParseInv, Kept, None
<1>5. AskedInv
  BY DEF AskedInv
<1> QED
  BY <1>2, <1>3, <1>4, <1>5 DEF ConfigInv

Flags == {"--workspace-path", "--ruleset-path"}

\* Past one more flag: the places of flags, and what is kept of either kind.
LEMMA FlagLemma ==
    ASSUME ConfigInv, NEW flag \in Flags, Flag(flag), UNCHANGED start
    PROVE  /\ next' \in 1..(Len(Args) + 1) /\ next' % 2 = 1
           /\ next + 1 \in 1..Len(Args)
           /\ \A i \in 1..(next' - 1) : i % 2 = 1 => Args[i] \in Flags
           /\ Kept(flag, next + 1, next')
           /\ \A other \in Flags \ {flag}, value \in Nat :
                 Kept(other, value, next) => Kept(other, value, next')
<1> DEFINE length == Len(Args)
<1>1. /\ length \in Nat /\ next \in 1..length /\ next < length /\ next' = next + 2
      /\ Args[next] = flag /\ Args' = Args /\ next % 2 = 1
      /\ \A i \in 1..(next - 1) : i % 2 = 1 => Args[i] \in Flags
  <2>1. Len(Args) \in Nat
    BY StartsAssumption DEF Args, ConfigInv, ConfigTypeOK
  <2> QED
    BY <2>1 DEF Flag, ConfigInv, ConfigTypeOK, ParseInv, Flags, Args
<1>2. next' \in 1..(length + 1) /\ next' % 2 = 1 /\ next + 1 \in 1..length
  BY <1>1
<1>3. ASSUME NEW i \in 1..(next' - 1), i % 2 = 1
      PROVE  i \in 1..(next - 1) \/ i = next
  BY <1>1, <1>3
<1>4. \A i \in 1..(next' - 1) : i % 2 = 1 => Args[i] \in Flags
  BY <1>1, <1>3
<1>5. Kept(flag, next + 1, next')
  <2>1. (next + 1) - 1 = next /\ next \in 1..(next' - 1) /\ next + 1 # 0
    BY <1>1
  <2>2. \A i \in 1..(next' - 1) : i % 2 = 1 => i < next + 1
    BY <1>1, <1>3
  <2> QED
    BY <1>1, <2>1, <2>2 DEF Kept, None
<1>6. ASSUME NEW other \in Flags \ {flag}, NEW value \in Nat, Kept(other, value, next)
      PROVE  Kept(other, value, next')
  <2>1. \A i \in 1..(next' - 1) : i % 2 = 1 /\ Args[i] = other => i \in 1..(next - 1)
    BY <1>1, <1>3
  <2>2. CASE value = None
    BY <1>1, <1>6, <2>1, <2>2 DEF Kept
  <2>3. CASE value # None
    <3>1. /\ value - 1 \in 1..(next - 1) /\ (value - 1) % 2 = 1
          /\ Args[value - 1] = other
          /\ \A i \in 1..(next - 1) : i % 2 = 1 /\ Args[i] = other => i < value
      BY <1>6, <2>3 DEF Kept
    <3>2. value - 1 \in 1..(next' - 1)
      BY <1>1, <3>1
    <3> QED
      BY <1>1, <2>1, <2>3, <3>1, <3>2 DEF Kept
  <2> QED
    BY <2>2, <2>3
<1> QED
  BY <1>2, <1>4, <1>5, <1>6

\* What is kept once all arguments are seen is the last of the kind.
LEMMA KeptIsLast ==
    ASSUME NEW flag \in Flags, NEW value \in Nat, NEW place \in Nat,
           Len(Args) \in Nat, place > Len(Args), place - 1 <= Len(Args),
           Kept(flag, value, place)
    PROVE  LastFlag(flag, value)
<1>1. place - 1 = Len(Args)
  OBVIOUS
<1>2. CASE value = None
  BY <1>1, <1>2 DEF Kept, LastFlag, Given
<1>3. CASE value # None
  <2>1. value - 1 \in Given(flag) /\ \A i \in Given(flag) : i < value
    BY <1>1, <1>3 DEF Kept, Given
  <2> QED
    BY <2>1 DEF LastFlag
<1> QED
  BY <1>2, <1>3

\* A flag and its value leave the rest of the invariant alone.
LEMMA ParseFlagInv ==
    ASSUME ConfigInv, ParseWorkspace \/ ParseRuleset
    PROVE  ConfigInv'
<1> DEFINE w == "--workspace-path"
           r == "--ruleset-path"
<1>1. w \in Flags /\ r \in Flags /\ w # r
  BY DEF Flags
<1>2. phase = "args" /\ UNCHANGED <<start, phase, rules, decision>>
  BY DEF ParseWorkspace, ParseRuleset, Flag
<1>3. Args' = Args /\ workspace \in Nat /\ ruleset \in Nat
  BY <1>2 DEF Args, ConfigInv, ConfigTypeOK
<1>4. /\ next' \in 1..(Len(Args) + 1) /\ next' % 2 = 1
      /\ workspace' \in 0..Len(Args) /\ ruleset' \in 0..Len(Args)
      /\ \A i \in 1..(next' - 1) : i % 2 = 1 => Args[i] \in Flags
      /\ Kept(w, workspace', next') /\ Kept(r, ruleset', next')
  <2>1. Kept(w, workspace, next) /\ Kept(r, ruleset, next)
    BY <1>2 DEF ConfigInv, ParseInv
  <2>2. CASE ParseWorkspace
    <3>1. Flag(w) /\ workspace' = next + 1 /\ ruleset' = ruleset
      BY <2>2 DEF ParseWorkspace
    <3>2. /\ next' \in 1..(Len(Args) + 1) /\ next' % 2 = 1
          /\ workspace' \in 0..Len(Args)
          /\ \A i \in 1..(next' - 1) : i % 2 = 1 => Args[i] \in Flags
          /\ Kept(w, workspace', next')
      BY <1>1, <1>2, <3>1, FlagLemma
    <3>3. Kept(r, ruleset', next')
      BY <1>1, <1>2, <1>3, <2>1, <3>1, FlagLemma
    <3>4. ruleset' \in 0..Len(Args)
      BY <3>1 DEF ConfigInv, ConfigTypeOK
    <3> QED
      BY <3>2, <3>3, <3>4
  <2>3. CASE ParseRuleset
    <3>1. Flag(r) /\ ruleset' = next + 1 /\ workspace' = workspace
      BY <2>3 DEF ParseRuleset
    <3>2. /\ next' \in 1..(Len(Args) + 1) /\ next' % 2 = 1
          /\ ruleset' \in 0..Len(Args)
          /\ \A i \in 1..(next' - 1) : i % 2 = 1 => Args[i] \in Flags
          /\ Kept(r, ruleset', next')
      BY <1>1, <1>2, <3>1, FlagLemma
    <3>3. Kept(w, workspace', next')
      BY <1>1, <1>2, <1>3, <2>1, <3>1, FlagLemma
    <3>4. workspace' \in 0..Len(Args)
      BY <3>1 DEF ConfigInv, ConfigTypeOK
    <3> QED
      BY <3>2, <3>3, <3>4
  <2> QED
    BY <2>2, <2>3
<1>5. ConfigTypeOK'
  BY <1>2, <1>3, <1>4 DEF ConfigInv, ConfigTypeOK
<1>6. ServingInv'
  BY <1>2 DEF ConfigInv, ServingInv, NoDecision
<1>7. ParseInv'
  BY <1>3, <1>4 DEF ParseInv, Kept, Flags
<1>8. AskedInv'
  BY <1>2 DEF AskedInv
<1> QED
  BY <1>5, <1>6, <1>7, <1>8 DEF ConfigInv

\* Refusing an argument, or leaving the arguments: well-formed or not, as it
\* was asked.
LEMMA ParseEndInv ==
    ASSUME ConfigInv, ParseError \/ ParseDone
    PROVE  ConfigInv'
<1>1. /\ phase = "args" /\ phase' \in {"config", "failed"}
      /\ UNCHANGED <<start, next, workspace, ruleset, rules, decision>>
  BY DEF ParseError, ParseDone, Stop
<1>2. Args' = Args /\ Len(Args) \in Nat /\ workspace \in Nat /\ ruleset \in Nat
  BY <1>1, StartsAssumption DEF Args, ConfigInv, ConfigTypeOK
<1>3. /\ next \in 1..(Len(Args) + 1) /\ next % 2 = 1
      /\ \A i \in 1..(next - 1) : i % 2 = 1 => Args[i] \in Flags
      /\ Kept("--workspace-path", workspace, next)
      /\ Kept("--ruleset-path", ruleset, next)
  BY <1>1 DEF ConfigInv, ConfigTypeOK, ParseInv, Flags
<1>4. ConfigTypeOK'
  BY <1>1, <1>2 DEF ConfigInv, ConfigTypeOK
<1>5. ServingInv' /\ ParseInv'
  BY <1>1 DEF ConfigInv, ServingInv, ParseInv, NoDecision
<1>6. /\ WellFormed' = WellFormed
      /\ \A flag : UNCHANGED LastFlag(flag, workspace)
      /\ \A flag : UNCHANGED LastFlag(flag, ruleset)
  BY <1>1, <1>2 DEF WellFormed, LastFlag, Given
<1>7. CASE ParseError
  <2>1. next <= Len(Args) /\ (Args[next] \notin Flags \/ next = Len(Args))
    BY <1>7 DEF ParseError, Flags
  <2>2. ~WellFormed
    BY <1>2, <1>3, <2>1 DEF WellFormed, Flags
  <2>3. phase' = "failed"
    BY <1>7 DEF ParseError, Stop
  <2> QED
    BY <1>4, <1>5, <1>6, <2>2, <2>3 DEF AskedInv, ConfigInv
<1>8. CASE ParseDone /\ workspace = None
  <2>1. next > Len(Args)
    BY <1>8 DEF ParseDone
  <2>2. \A i \in 1..Len(Args) : i % 2 = 1 => Args[i] # "--workspace-path"
    BY <1>2, <1>3, <1>8, <2>1 DEF Kept
  <2>3. ~WellFormed
    BY <2>2 DEF WellFormed
  <2>4. phase' = "failed"
    BY <1>8 DEF ParseDone, Stop
  <2> QED
    BY <1>4, <1>5, <1>6, <2>3, <2>4 DEF AskedInv, ConfigInv
<1>9. CASE ParseDone /\ workspace # None
  <2>1. next > Len(Args) /\ next - 1 <= Len(Args) /\ next \in Nat
    <3>1. next > Len(Args)
      BY <1>9 DEF ParseDone
    <3> QED
      BY <1>2, <1>3, <3>1
  <2>2. /\ LastFlag("--workspace-path", workspace)
        /\ LastFlag("--ruleset-path", ruleset)
    BY <1>2, <1>3, <2>1, KeptIsLast DEF Flags
  <2>3. WellFormed
    <3>1. Len(Args) % 2 = 0 /\ next - 1 = Len(Args)
      BY <1>2, <1>3, <2>1
    <3>2. \A i \in 1..Len(Args) : i % 2 = 1 => Args[i] \in Flags
      BY <1>3, <3>1
    <3>3. /\ workspace - 1 \in 1..Len(Args) /\ (workspace - 1) % 2 = 1
          /\ Args[workspace - 1] = "--workspace-path"
      BY <1>3, <1>9, <3>1 DEF Kept
    <3> QED
      BY <3>1, <3>2, <3>3 DEF WellFormed, Flags
  <2>4. phase' = "config"
    BY <1>9 DEF ParseDone
  <2> QED
    BY <1>4, <1>5, <1>6, <2>2, <2>3, <2>4 DEF AskedInv, ConfigInv
<1> QED
  BY <1>7, <1>8, <1>9

\* Sorting keeps the rules of a document, and loading it what was asked for.
LEMMA ConfigureInv ==
    ASSUME ConfigInv, Configure
    PROVE  ConfigInv'
<1>1. /\ phase = "config" /\ phase' \in {"loaded", "failed"}
      /\ UNCHANGED <<start, next, workspace, ruleset, decision>>
  BY DEF Configure, Stop, Load
<1>2. /\ Args' = Args /\ Document' = Document /\ decision = NoDecision
      /\ WellFormed /\ LastFlag("--workspace-path", workspace)
      /\ LastFlag("--ruleset-path", ruleset)
  BY <1>1 DEF Args, Document, ConfigInv, ServingInv, AskedInv
<1>3. ParseInv'
  BY <1>1 DEF ParseInv
<1>4. CASE phase' = "failed"
  <2>1. /\ \/ ~start.accessible
           \/ ruleset # None /\ start.document \in {NoRuleset, Unreadable}
        /\ UNCHANGED rules
    BY <1>4 DEF Configure, Stop, Load
  <2>2. AskedInv'
    <3>1. ~Loadable
      BY <1>2, <2>1 DEF LastFlag, Loadable
    <3> QED
      BY <1>1, <1>2, <1>4, <3>1 DEF AskedInv, Loadable, Given
  <2>3. ConfigTypeOK'
    BY <1>1, <1>2, <2>1 DEF ConfigInv, ConfigTypeOK
  <2>4. ServingInv'
    BY <1>1, <1>2, <1>4 DEF ServingInv, NoDecision
  <2> QED
    BY <1>3, <2>2, <2>3, <2>4 DEF ConfigInv
<1>5. CASE phase' = "loaded"
  <2>1. Load(Document) /\ Document \in Seq(Rule)
    <3>1. CASE ruleset = None
      BY <1>5, <3>1 DEF Configure, Stop, Document
    <3>2. CASE ruleset # None
      <4>1. Load(start.document) /\ start.document \notin {NoRuleset, Unreadable}
        BY <1>5, <3>2 DEF Configure, Stop
      <4>2. start.document \in Seq(Rule)
        BY <4>1, StartsAssumption DEF ConfigInv, ConfigTypeOK
      <4> QED
        BY <3>2, <4>1, <4>2 DEF Document
    <3> QED
      BY <3>1, <3>2
  <2>2. PICK order \in Orders(Document) :
             rules' = [k \in 1..Len(Document) |-> Document[order[k]]]
    BY <2>1 DEF Load
  <2>3. Sorted(rules', Document)
    BY <2>2 DEF Sorted
  <2>4. ServingInv'
    <3>1. /\ decision' = NoDecision /\ ~decision'.checked
          /\ Document' \in Seq(Rule) /\ Sorted(rules', Document')
      BY <1>1, <1>2, <2>1, <2>3 DEF NoDecision
    <3> QED
      BY <1>5, <3>1 DEF ServingInv
  <2>5. \A k \in 1..Len(rules') : rules'[k].effect \in Effects
    <3>1. Len(rules') = Len(Document)
      BY <2>1, <2>2
    <3>2. ASSUME NEW k \in 1..Len(Document)
          PROVE  rules'[k] \in Rule
      <4>1. order[k] \in 1..Len(Document)
        BY <2>2 DEF Orders
      <4>2. rules'[k] = Document[order[k]]
        BY <2>2
      <4> QED
        BY <2>1, <4>1, <4>2
    <3> QED
      BY <3>1, <3>2 DEF Rule
  <2>6. ConfigTypeOK'
    BY <1>1, <1>2, <2>5 DEF ConfigInv, ConfigTypeOK
  <2>7. AskedInv'
    <3>1. start.accessible /\ (ruleset # None => start.document \notin {NoRuleset, Unreadable})
      BY <1>5 DEF Configure, Stop
    <3>2. ruleset = None => Given("--ruleset-path") = {}
      BY <1>2, StartsAssumption DEF LastFlag, Given, None, ConfigInv, ConfigTypeOK, Args
    <3>3. Loadable
      BY <3>1, <3>2 DEF Loadable
    <3> QED
      BY <1>1, <1>2, <1>5, <3>3 DEF AskedInv, WellFormed, LastFlag, Given, Loadable
  <2> QED
    BY <1>3, <2>4, <2>6, <2>7 DEF ConfigInv
<1> QED
  BY <1>1, <1>4, <1>5

\* The watcher and the client: had, or lacked.
LEMMA ServeInv ==
    ASSUME ConfigInv, StartWatcher \/ Serve
    PROVE  ConfigInv'
<1>1. /\ phase \in {"loaded", "watching"}
      /\ phase' \in {"watching", "serving", "failed"}
      /\ UNCHANGED <<start, next, workspace, ruleset, rules, decision>>
      /\ phase' \in {"watching", "serving"} => start.watches
      /\ phase' = "serving" => start.connects
      /\ phase' = "failed" => ~start.watches \/ ~start.connects
  BY DEF StartWatcher, Serve, Stop, ConfigInv, AskedInv
<1>2. /\ Args' = Args /\ Document' = Document /\ decision = NoDecision
      /\ UNCHANGED <<WellFormed, Loadable>>
      /\ \A flag, value : UNCHANGED LastFlag(flag, value)
  BY <1>1
  DEF Args, Document, WellFormed, Loadable, LastFlag, Given, ConfigInv, ServingInv
<1>3. ServingInv' /\ ConfigTypeOK' /\ ParseInv'
  BY <1>1, <1>2 DEF ConfigInv, ServingInv, ConfigTypeOK, ParseInv, NoDecision, Sorted
<1>4. AskedInv'
  BY <1>1, <1>2 DEF ConfigInv, AskedInv
<1> QED
  BY <1>3, <1>4 DEF ConfigInv

\* Checking an access: the decision is what the rules say.
LEMMA ResolveAndCheckInv ==
    ASSUME ConfigInv, NEW action, NEW raw, ResolveAndCheck(action, raw)
    PROVE  ConfigInv'
<1>1. /\ phase = "serving"
      /\ UNCHANGED <<start, phase, next, workspace, ruleset, rules>>
  BY DEF ResolveAndCheck
<1>2. Args' = Args /\ Document' = Document
  BY <1>1 DEF Args, Document
<1>3. /\ decision'.action = action /\ decision'.path = ResolvePath(raw)
      /\ decision'.inside = InWorkspace(raw)
      /\ decision'.allowed <=>
            decision'.inside /\ CheckAccess(decision'.action, decision'.path)
  BY DEF ResolveAndCheck
<1>4. ServingInv'
  BY <1>1, <1>2, <1>3 DEF ConfigInv, ServingInv, CheckAccess, Matching, Sorted
<1>5. ConfigTypeOK' /\ ParseInv' /\ AskedInv'
  BY <1>1, <1>2
  DEF ConfigInv, ConfigTypeOK, ParseInv, AskedInv, WellFormed, LastFlag, Given, Loadable
<1> QED
  BY <1>4, <1>5 DEF ConfigInv

\* Every step keeps the invariant.
LEMMA ConfigNextInv == ConfigInv /\ [ConfigNext]_configVars => ConfigInv'
<1> SUFFICES ASSUME ConfigInv, [ConfigNext]_configVars
             PROVE  ConfigInv'
  OBVIOUS
<1>1. CASE UNCHANGED configVars
  <2>1. /\ UNCHANGED <<start, phase, next, workspace, ruleset, rules, decision>>
        /\ Args' = Args /\ Document' = Document
    BY <1>1 DEF configVars, Args, Document
  <2>2. ServingInv'
    BY <2>1 DEF ConfigInv, ServingInv, CheckAccess, Matching, Sorted
  <2>3. ConfigTypeOK' /\ ParseInv' /\ AskedInv'
    BY <2>1
    DEF ConfigInv, ConfigTypeOK, ParseInv, Kept, AskedInv, WellFormed, LastFlag, Given,
        Loadable
  <2> QED
    BY <2>2, <2>3 DEF ConfigInv
<1> QED
  BY <1>1, ParseFlagInv, ParseEndInv, ConfigureInv, ServeInv, ResolveAndCheckInv
  DEF ConfigNext, Failed

\* The invariant: types, the place in the arguments, what was asked for, and
\* that the rules searched are the document's, sorted.
THEOREM ConfigInvariant == ConfigSpec => []ConfigInv
  BY ConfigInitInv, ConfigNextInv, PTL DEF ConfigSpec

\* Type correctness of the start and of the decisions.
THEOREM ConfigTypeCorrect == ConfigSpec => []ConfigTypeOK
<1>1. ConfigInv => ConfigTypeOK
  BY DEF ConfigInv
<1> QED
  BY <1>1, ConfigInvariant, PTL

\* A server that serves was asked to in order, and has loaded the workspace and the
\* ruleset given last, for parse_args overwrites, and `?' ends main at the first step
\* that fails; one that gives up lacks something that it was asked for or needs.
THEOREM StartsAsItIsAsked == ConfigSpec => []StartsAsAsked
<1>1. ConfigInv => StartsAsAsked
  BY DEF ConfigInv, AskedInv, StartsAsAsked
<1> QED
  BY <1>1, ConfigInvariant, PTL

\* In a state of the invariant, the first rule that matches is one of the
\* highest priority, so these decide.
LEMMA SortedDecides == ConfigInv => HighestPriorityDecides
<1> SUFFICES ASSUME ConfigInv, decision.checked, decision.inside
             PROVE  /\ (\A i \in Top : Document[i].effect = "allow") => decision.allowed
                    /\ Top # {} /\ (\A i \in Top : Document[i].effect = "deny")
                          => ~decision.allowed
  BY DEF HighestPriorityDecides
<1> DEFINE matching(seq) == Matching(seq, decision.action, decision.path)
<1>1. /\ Document \in Seq(Rule) /\ Sorted(rules, Document)
      /\ decision.allowed <=> CheckAccess(decision.action, decision.path)
  BY DEF ConfigInv, ServingInv, NoDecision
<1>2. ASSUME NEW k \in matching(rules), \A j \in matching(rules) : k <= j
      PROVE  \E i \in Top : Document[i] = rules[k]
  BY <1>1, <1>2, FirstIsHighest DEF Top
<1>3. ASSUME \A i \in Top : Document[i].effect = "allow"
      PROVE  decision.allowed
  <2>1. ASSUME NEW k \in matching(rules), \A j \in matching(rules) : k <= j
        PROVE  rules[k].effect = "allow"
    BY <1>2, <1>3, <2>1
  <2> QED
    BY <1>1, <2>1 DEF CheckAccess
<1>4. ASSUME Top # {}, \A i \in Top : Document[i].effect = "deny"
      PROVE  ~decision.allowed
  <2>1. PICK i \in matching(Document) : TRUE
    BY <1>4 DEF Top
  <2>2. PICK k \in matching(rules) : \A j \in matching(rules) : k <= j
    BY <1>1, <2>1, SomeIsFirst
  <2>3. rules[k].effect = "deny"
    BY <1>2, <1>4, <2>2
  <2> QED
    BY <1>1, <2>2, <2>3 DEF CheckAccess
<1> QED
  BY <1>3, <1>4

\* Whatever the document, its order and its patterns, the rules of the highest
\* priority decide when they agree: the sort keeps every rule and no rule comes
\* before one of a higher priority.
THEOREM PriorityDecides == ConfigSpec => []HighestPriorityDecides
  BY ConfigInvariant, SortedDecides, PTL

-----------------------------------------------------------------------------
(* Paths: what normalise_path, which keeps a stack, makes of one is what it *)
(* means, unless a `..' is at the root.                                     *)

\* The numbers of a set in a range are those in its two parts.
Counted(X, i, j) == Cardinality(X \cap (i..j))

LEMMA CountSplits ==
    ASSUME NEW X, NEW i \in Int, NEW m \in Int, NEW j \in Int, i <= m + 1, m <= j
    PROVE  Counted(X, i, j) = Counted(X, i, m) + Counted(X, m + 1, j)
<1> DEFINE A == X \cap (i..m)
           B == X \cap ((m + 1)..j)
           C == X \cap (i..j)
<1>1. IsFiniteSet(i..m) /\ IsFiniteSet((m + 1)..j) /\ IsFiniteSet(i..j)
  <2>1. m + 1 \in Int
    OBVIOUS
  <2> QED
    BY <2>1, FS_Interval
<1>2. IsFiniteSet(A) /\ IsFiniteSet(B) /\ IsFiniteSet(C)
  <2>1. A \in SUBSET (i..m) /\ B \in SUBSET ((m + 1)..j) /\ C \in SUBSET (i..j)
    OBVIOUS
  <2> QED
    BY <1>1, <2>1, FS_Subset
<1>3. A \cup B = C /\ A \cap B = {}
  <2>1. \A k : k \in i..m \/ k \in (m + 1)..j <=> k \in i..j
    OBVIOUS
  <2>2. \A k : ~(k \in i..m /\ k \in (m + 1)..j)
    OBVIOUS
  <2> QED
    BY <2>1, <2>2, Zenon
<1> HIDE DEF A, B, C
<1>4. Cardinality(C) = Cardinality(A) + Cardinality(B) - Cardinality(A \cap B)
  BY <1>2, <1>3, FS_Union
<1>5. Cardinality(A \cap B) = 0
  BY <1>3, FS_EmptySet
<1>6. Cardinality(A) \in Nat /\ Cardinality(B) \in Nat /\ Cardinality(C) \in Nat
  BY <1>2, FS_CardinalityType
<1>7. Cardinality(C) \in Nat /\ Cardinality(C) = Cardinality(A) + Cardinality(B)
  BY <1>4, <1>5, <1>6
<1> QED
  BY <1>7 DEF A, B, C, Counted

\* So names and `..' can be counted in parts.
LEMMA PartsCount ==
    ASSUME NEW path, NEW i \in Int, NEW m \in Int, NEW j \in Int, i <= m + 1, m <= j
    PROVE  /\ Names(path, i, j) = Names(path, i, m) + Names(path, m + 1, j)
           /\ Parents(path, i, j) = Parents(path, i, m) + Parents(path, m + 1, j)
<1> DEFINE N == {k \in Int : path[k] \notin {Dot, DotDot}}
           P == {k \in Int : path[k] = DotDot}
<1>1. \A a, b \in Int : /\ Names(path, a, b) = Counted(N, a, b)
                        /\ Parents(path, a, b) = Counted(P, a, b)
  <2> SUFFICES ASSUME NEW a \in Int, NEW b \in Int
               PROVE  /\ Names(path, a, b) = Counted(N, a, b)
                      /\ Parents(path, a, b) = Counted(P, a, b)
    OBVIOUS
  <2>1. {k \in a..b : path[k] \notin {Dot, DotDot}} = N \cap (a..b)
    OBVIOUS
  <2>2. {k \in a..b : path[k] = DotDot} = P \cap (a..b)
    OBVIOUS
  <2> QED
    BY <2>1, <2>2 DEF Names, Parents, Counted
<1> HIDE DEF N, P
<1>2. m + 1 \in Int
  OBVIOUS
<1>3. Counted(N, i, j) = Counted(N, i, m) + Counted(N, m + 1, j)
  BY CountSplits, Zenon
<1>4. Counted(P, i, j) = Counted(P, i, m) + Counted(P, m + 1, j)
  BY CountSplits, Zenon
<1> QED
  BY <1>1, <1>2, <1>3, <1>4

\* Both are numbers, whatever the range.
LEMMA PartsAre ==
    ASSUME NEW path, NEW i \in Int, NEW j \in Int
    PROVE  Names(path, i, j) \in Nat /\ Parents(path, i, j) \in Nat
<1>1. IsFiniteSet(i..j)
  BY FS_Interval
<1> DEFINE N == {k \in i..j : path[k] \notin {Dot, DotDot}}
           P == {k \in i..j : path[k] = DotDot}
<1>2. N \in SUBSET (i..j) /\ P \in SUBSET (i..j)
  OBVIOUS
<1>3. Names(path, i, j) = Cardinality(N) /\ Parents(path, i, j) = Cardinality(P)
  BY DEF Names, Parents
<1> HIDE DEF N, P
<1>4. IsFiniteSet(N) /\ IsFiniteSet(P)
  BY <1>1, <1>2, FS_Subset
<1> QED
  BY <1>3, <1>4, FS_CardinalityType

\* One component counts once, as what it is.
LEMMA OneCounts ==
    ASSUME NEW path, NEW i \in Int
    PROVE  /\ Names(path, i, i) = IF path[i] \notin {Dot, DotDot} THEN 1 ELSE 0
           /\ Parents(path, i, i) = IF path[i] = DotDot THEN 1 ELSE 0
<1>1. i..i = {i}
  OBVIOUS
<1>2. \A X \in SUBSET {i} : Cardinality(X) = IF i \in X THEN 1 ELSE 0
  <2> SUFFICES ASSUME NEW X \in SUBSET {i}
               PROVE  Cardinality(X) = IF i \in X THEN 1 ELSE 0
    OBVIOUS
  <2>1. X = {} \/ X = {i}
    OBVIOUS
  <2> QED
    BY <2>1, FS_Singleton, FS_EmptySet
<1>3. Names(path, i, i) = Cardinality({k \in {i} : path[k] \notin {Dot, DotDot}})
      /\ Parents(path, i, i) = Cardinality({k \in {i} : path[k] = DotDot})
  BY <1>1 DEF Names, Parents
<1>4. {k \in {i} : path[k] \notin {Dot, DotDot}} \in SUBSET {i}
      /\ {k \in {i} : path[k] = DotDot} \in SUBSET {i}
  OBVIOUS
<1> QED
  BY <1>2, <1>3, <1>4

\* The names that are left of the first n components.
LeftOf(path, n) ==
    {i \in 1..n : /\ path[i] \notin {Dot, DotDot}
                  /\ \A j \in i..n : Names(path, i, j) > Parents(path, i, j)}

\* Where there are more names than `..' from some place on, a name is left there
\* or after it: the last such place is one.
LEMMA SomeIsLeft ==
    ASSUME NEW path, NEW n \in Nat, NEW i \in 1..n, Names(path, i, n) > Parents(path, i, n)
    PROVE  \E x \in LeftOf(path, n) : i <= x
<1> DEFINE S == {k \in Nat : n - k >= i /\ Names(path, n - k, n) > Parents(path, n - k, n)}
<1>1. PICK k \in S : \A l \in S : k <= l
  <2>1. n - i \in Nat /\ n - (n - i) = i
    OBVIOUS
  <2>2. n - i \in S
    BY <2>1
  <2>3. S \subseteq Nat /\ S # {}
    BY <2>2
  <2> HIDE DEF S
  <2> QED
    BY <2>3, LeastExists, Zenon
<1> DEFINE x == n - k
<1>2. x \in 1..n /\ x >= i /\ Names(path, x, n) > Parents(path, x, n)
  BY <1>1
<1>3. \A y \in (x + 1)..n : ~(Names(path, y, n) > Parents(path, y, n))
  <2> SUFFICES ASSUME NEW y \in (x + 1)..n, Names(path, y, n) > Parents(path, y, n)
               PROVE  FALSE
    OBVIOUS
  <2>1. n - y \in Nat /\ n - (n - y) = y /\ y >= i /\ ~(k <= n - y)
    BY <1>1, <1>2
  <2>2. n - y \in S
    BY <2>1
  <2> QED
    BY <1>1, <2>1, <2>2
<1> HIDE DEF x
<1>4. ASSUME NEW j \in x..n
      PROVE  Names(path, x, j) > Parents(path, x, j)
  <2>1. CASE j = n
    BY <1>2, <2>1
  <2>2. CASE j # n
    <3>1. /\ j + 1 \in (x + 1)..n /\ j \in Int /\ j + 1 \in Int /\ x \in Int /\ n \in Int
          /\ x <= j + 1 /\ j <= n
      BY <1>2, <2>2
    <3>2. ~(Names(path, j + 1, n) > Parents(path, j + 1, n))
      BY <1>3, <3>1
    <3>3. /\ Names(path, x, n) = Names(path, x, j) + Names(path, j + 1, n)
          /\ Parents(path, x, n) = Parents(path, x, j) + Parents(path, j + 1, n)
      BY <3>1, PartsCount, Zenon
    <3>4. /\ Names(path, x, j) \in Nat /\ Parents(path, x, j) \in Nat
          /\ Names(path, j + 1, n) \in Nat /\ Parents(path, j + 1, n) \in Nat
      BY <3>1, PartsAre, Zenon
    <3> QED
      BY <1>2, <3>2, <3>3, <3>4
  <2> QED
    BY <2>1, <2>2
<1>5. path[x] \notin {Dot, DotDot}
  <2>1. x \in x..n /\ x \in Int
    BY <1>2
  <2>2. Names(path, x, x) > Parents(path, x, x)
    BY <1>4, <2>1
  <2> QED
    BY <2>1, <2>2, OneCounts
<1> QED
  BY <1>2, <1>4, <1>5 DEF LeftOf

\* How many more names than `..' there are from i to j.
Over(path, i, j) == Names(path, i, j) - Parents(path, i, j)

\* It adds up over the parts of a range, ...
LEMMA OverSplits ==
    ASSUME NEW path, NEW i \in Int, NEW m \in Int, NEW j \in Int, i <= m + 1, m <= j
    PROVE  /\ Over(path, i, m) \in Int /\ Over(path, m + 1, j) \in Int
           /\ Over(path, i, j) = Over(path, i, m) + Over(path, m + 1, j)
<1>1. m + 1 \in Int
  OBVIOUS
<1>2. /\ Names(path, i, m) \in Nat /\ Parents(path, i, m) \in Nat
      /\ Names(path, m + 1, j) \in Nat /\ Parents(path, m + 1, j) \in Nat
  BY <1>1, PartsAre, Zenon
<1>3. /\ Names(path, i, j) = Names(path, i, m) + Names(path, m + 1, j)
      /\ Parents(path, i, j) = Parents(path, i, m) + Parents(path, m + 1, j)
  BY PartsCount, Zenon
<1> QED
  BY <1>2, <1>3 DEF Over

\* ... is what a component by itself counts, ...
LEMMA OneOver ==
    ASSUME NEW path, NEW i \in Int
    PROVE  Over(path, i, i) =
              IF path[i] = DotDot THEN -1 ELSE IF path[i] = Dot THEN 0 ELSE 1
<1>1. DotDot # Dot
  BY DEF DotDot, Dot
<1> QED
  BY <1>1, OneCounts DEF Over

\* ... and so grows by one component at a time.
LEMMA OverSteps ==
    ASSUME NEW path, NEW n \in Nat, NEW i \in 1..(n + 1)
    PROVE  /\ Over(path, i, n) \in Int
           /\ Over(path, i, n + 1) =
                 Over(path, i, n)
                    + IF path[n + 1] = DotDot THEN -1
                      ELSE IF path[n + 1] = Dot THEN 0 ELSE 1
<1>1. i \in Int /\ n \in Int /\ n + 1 \in Int /\ i <= n + 1 /\ n <= n + 1
  OBVIOUS
<1>2. /\ Over(path, i, n) \in Int
      /\ Over(path, i, n + 1) = Over(path, i, n) + Over(path, n + 1, n + 1)
  BY <1>1, OverSplits, Zenon
<1> QED
  BY <1>1, <1>2, OneOver

\* An empty range counts nothing.
LEMMA NoneOver ==
    ASSUME NEW path, NEW n \in Nat
    PROVE  Over(path, n + 1, n) = 0
<1>1. Over(path, n + 1, n) \in Int
  <2>1. n + 1 \in 1..(n + 1)
    OBVIOUS
  <2> QED
    BY <2>1, OverSteps, Zenon
<1>2. Over(path, n + 1, n + 1) = Over(path, n + 1, n) + Over(path, n + 1, n + 1)
      /\ Over(path, n + 1, n + 1) \in Int
  <2>1. n + 1 \in Int /\ n \in Int /\ n + 1 <= n + 1 /\ n <= n + 1
    OBVIOUS
  <2> QED
    BY <2>1, OverSplits, Zenon
<1> QED
  BY <1>1, <1>2

\* A name is left while there are more names than `..' from it on.
LEMMA LeftIsOver ==
    ASSUME NEW path, NEW n \in Nat
    PROVE  LeftOf(path, n) = {i \in 1..n : \A j \in i..n : Over(path, i, j) > 0}
<1>1. \A i \in 1..n : \A j \in i..n :
         Names(path, i, j) > Parents(path, i, j) <=> Over(path, i, j) > 0
  <2> SUFFICES ASSUME NEW i \in 1..n, NEW j \in i..n
               PROVE  Names(path, i, j) > Parents(path, i, j) <=> Over(path, i, j) > 0
    OBVIOUS
  <2>1. Names(path, i, j) \in Nat /\ Parents(path, i, j) \in Nat
    BY PartsAre
  <2> QED
    BY <2>1 DEF Over
<1>2. ASSUME NEW i \in 1..n, \A j \in i..n : Over(path, i, j) > 0
      PROVE  path[i] \notin {Dot, DotDot}
  <2>1. Over(path, i, i) > 0
    BY <1>2
  <2> QED
    BY <2>1, OneOver
<1> QED
  BY <1>1, <1>2 DEF LeftOf

\* Where there are more names than `..', a name is left, in terms of Over.
LEMMA OverLeaves ==
    ASSUME NEW path, NEW n \in Nat, NEW i \in 1..n, Over(path, i, n) > 0
    PROVE  \E x \in LeftOf(path, n) : i <= x
<1>1. Names(path, i, n) \in Nat /\ Parents(path, i, n) \in Nat
  BY PartsAre
<1>2. Names(path, i, n) > Parents(path, i, n)
  BY <1>1 DEF Over
<1> QED
  BY <1>2, SomeIsLeft

\* One more component adds itself if it is a name, ...
LEMMA LeftWithName ==
    ASSUME NEW path, NEW n \in Nat, path[n + 1] \notin {Dot, DotDot}
    PROVE  LeftOf(path, n + 1) = LeftOf(path, n) \cup {n + 1}
<1>1. \A i \in 1..(n + 1) : /\ Over(path, i, n) \in Int
                            /\ Over(path, i, n + 1) = Over(path, i, n) + 1
  BY OverSteps
<1>2. Over(path, n + 1, n + 1) = 1
  BY OneOver
<1>3. ASSUME NEW i \in LeftOf(path, n)
      PROVE  i \in LeftOf(path, n + 1)
  <2>1. i \in 1..n /\ \A j \in i..n : Over(path, i, j) > 0
    BY LeftIsOver
  <2>2. Over(path, i, n + 1) > 0
    BY <1>1, <2>1
  <2>3. \A j \in i..(n + 1) : Over(path, i, j) > 0
    BY <2>1, <2>2
  <2>4. i \in 1..(n + 1)
    BY <2>1
  <2> QED
    BY <2>3, <2>4, LeftIsOver
<1>4. n + 1 \in LeftOf(path, n + 1)
  <2>1. \A j \in (n + 1)..(n + 1) : Over(path, n + 1, j) > 0
    BY <1>2
  <2> QED
    BY <2>1, LeftIsOver
<1>5. ASSUME NEW i \in LeftOf(path, n + 1), i # n + 1
      PROVE  i \in LeftOf(path, n)
  <2>1. i \in 1..(n + 1) /\ \A j \in i..(n + 1) : Over(path, i, j) > 0
    BY LeftIsOver
  <2>2. i \in 1..n /\ \A j \in i..n : Over(path, i, j) > 0
    BY <1>5, <2>1
  <2> QED
    BY <2>2, LeftIsOver
<1> QED
  BY <1>3, <1>4, <1>5

\* ... nothing if it is `.', ...
LEMMA LeftWithDot ==
    ASSUME NEW path, NEW n \in Nat, path[n + 1] = Dot
    PROVE  LeftOf(path, n + 1) = LeftOf(path, n)
<1>1. Dot # DotDot
  BY DEF Dot, DotDot
<1>2. \A i \in 1..(n + 1) : /\ Over(path, i, n) \in Int
                            /\ Over(path, i, n + 1) = Over(path, i, n)
  BY <1>1, OverSteps
<1>3. Over(path, n + 1, n + 1) = 0
  BY <1>1, OneOver
<1>4. ASSUME NEW i \in LeftOf(path, n)
      PROVE  i \in LeftOf(path, n + 1)
  <2>1. i \in 1..n /\ \A j \in i..n : Over(path, i, j) > 0
    BY LeftIsOver
  <2>2. Over(path, i, n + 1) > 0
    BY <1>2, <2>1
  <2>3. i \in 1..(n + 1) /\ \A j \in i..(n + 1) : Over(path, i, j) > 0
    BY <2>1, <2>2
  <2> QED
    BY <2>3, LeftIsOver
<1>5. ASSUME NEW i \in LeftOf(path, n + 1)
      PROVE  i \in LeftOf(path, n)
  <2>1. i \in 1..(n + 1) /\ \A j \in i..(n + 1) : Over(path, i, j) > 0
    BY LeftIsOver
  <2>2. i # n + 1
    BY <1>3, <2>1
  <2>3. i \in 1..n /\ \A j \in i..n : Over(path, i, j) > 0
    BY <2>1, <2>2
  <2> QED
    BY <2>3, LeftIsOver
<1> QED
  BY <1>4, <1>5

\* ... and takes the last away if it is `..'.
LEMMA LeftWithDotDot ==
    ASSUME NEW path, NEW n \in Nat, path[n + 1] = DotDot,
           NEW x \in LeftOf(path, n), \A i \in LeftOf(path, n) : i <= x
    PROVE  LeftOf(path, n + 1) = LeftOf(path, n) \ {x}
<1>1. \A i \in 1..(n + 1) : /\ Over(path, i, n) \in Int
                            /\ Over(path, i, n + 1) = Over(path, i, n) - 1
  BY OverSteps
<1>2. x \in 1..n /\ \A j \in x..n : Over(path, x, j) > 0
  BY LeftIsOver
<1>3. Over(path, x, n) = 1
  <2>1. x + 1 \in 1..(n + 1) /\ x \in Int /\ n \in Int /\ x <= x + 1 /\ x <= n
    BY <1>2
  <2>2. Over(path, x, n) = Over(path, x, x) + Over(path, x + 1, n)
    BY <2>1, OverSplits, Zenon
  <2>3. Over(path, x, x) <= 1 /\ Over(path, x, x) \in Int
    BY <2>1, OneOver
  <2>4. ~(Over(path, x + 1, n) > 0)
    <3>1. CASE x = n
      BY <3>1, NoneOver
    <3>2. CASE x # n
      <4>1. x + 1 \in 1..n
        BY <1>2, <3>2
      <4>2. \A i \in LeftOf(path, n) : ~(x + 1 <= i)
        BY <1>2, LeftIsOver
      <4> QED
        BY <4>1, <4>2, OverLeaves
    <3> QED
      BY <3>1, <3>2
  <2>5. Over(path, x + 1, n) \in Int
    BY <1>1, <2>1
  <2>6. Over(path, x, n) > 0 /\ Over(path, x, n) \in Int
    BY <1>1, <1>2
  <2> QED
    BY <2>2, <2>3, <2>4, <2>5, <2>6
<1>4. ASSUME NEW i \in LeftOf(path, n), i # x
      PROVE  i \in LeftOf(path, n + 1)
  <2>1. i \in 1..n /\ i < x /\ \A j \in i..n : Over(path, i, j) > 0
    BY <1>2, <1>4, LeftIsOver
  <2> DEFINE m == x - 1
  <2>2. /\ i \in Int /\ m \in Int /\ n \in Int /\ i <= m + 1 /\ m <= n
        /\ m \in i..n /\ m + 1 = x
    BY <1>2, <2>1
  <2> HIDE DEF m
  <2>3. /\ Over(path, i, m) \in Int /\ Over(path, m + 1, n) \in Int
        /\ Over(path, i, n) = Over(path, i, m) + Over(path, m + 1, n)
    BY <2>2, OverSplits, Zenon
  <2>4. Over(path, i, n) > 1
    BY <1>3, <2>1, <2>2, <2>3
  <2>5. Over(path, i, n + 1) > 0
    BY <1>1, <2>1, <2>4
  <2>6. i \in 1..(n + 1) /\ \A j \in i..(n + 1) : Over(path, i, j) > 0
    BY <2>1, <2>5
  <2> QED
    BY <2>6, LeftIsOver
<1>5. ASSUME NEW i \in LeftOf(path, n + 1)
      PROVE  i \in LeftOf(path, n) \ {x}
  <2>1. i \in 1..(n + 1) /\ \A j \in i..(n + 1) : Over(path, i, j) > 0
    BY LeftIsOver
  <2>2. Over(path, n + 1, n + 1) = -1
    BY OneOver
  <2>3. i # n + 1
    BY <2>1, <2>2
  <2>4. i \in 1..n /\ \A j \in i..n : Over(path, i, j) > 0
    BY <2>1, <2>3
  <2>5. Over(path, x, n + 1) = 0
    BY <1>1, <1>2, <1>3
  <2>6. i # x
    BY <2>1, <2>5
  <2> QED
    BY <2>4, <2>6, LeftIsOver
<1> QED
  BY <1>4, <1>5

\* A `..' where nothing is left is at the root, and nothing is left after it.
LEMMA DotDotAtRoot ==
    ASSUME NEW path, NEW n \in Nat, path[n + 1] = DotDot, LeftOf(path, n) = {}
    PROVE  /\ \A i \in 1..(n + 1) : Over(path, i, n + 1) < 0
           /\ LeftOf(path, n + 1) = {}
<1>1. \A i \in 1..(n + 1) : /\ Over(path, i, n) \in Int
                            /\ Over(path, i, n + 1) = Over(path, i, n) - 1
  BY OverSteps
<1>2. \A i \in 1..n : ~(Over(path, i, n) > 0)
  BY OverLeaves
<1>3. ASSUME NEW i \in 1..(n + 1)
      PROVE  Over(path, i, n + 1) < 0
  <2>1. CASE i = n + 1
    BY <1>1, <2>1, NoneOver
  <2>2. CASE i # n + 1
    <3>1. i \in 1..n
      BY <2>2
    <3> QED
      BY <1>1, <1>2, <3>1
  <2> QED
    BY <2>1, <2>2
<1>4. ASSUME NEW i \in LeftOf(path, n + 1)
      PROVE  FALSE
  <2>1. i \in 1..(n + 1) /\ \A j \in i..(n + 1) : Over(path, i, j) > 0
    BY LeftIsOver
  <2>2. Over(path, i, n + 1) > 0 /\ Over(path, i, n + 1) < 0
    BY <1>3, <2>1
  <2> QED
    BY <1>1, <2>1, <2>2
<1> QED
  BY <1>3, <1>4

-----------------------------------------------------------------------------
(* The stack holds what is left, on top of a `..' pushed at the root, if    *)
(* that is still there.                                                     *)

\* s lists the numbers of a set in ascending order.
Lists(s, L) ==
    /\ s \in Seq(Nat)
    /\ \A k \in 1..Len(s) : s[k] \in L
    /\ \A i \in L : \E k \in 1..Len(s) : s[k] = i
    /\ \A k, l \in 1..Len(s) : k < l => s[k] < s[l]

\* The `..' pushed at the root, and the names that are left.
Holds(path, out, s, base) ==
    /\ Len(out) = base + Len(s)
    /\ \A k \in 1..Len(s) : out[base + k] = path[s[k]]
    /\ base = 1 => out[1] = DotDot

\* Some `..' of the first n components is at the root.
RootLeft(path, n) == \E m \in 1..n : \A i \in 1..m : Over(path, i, m) < 0

Stacked(path, n, out) ==
    \E s \in Seq(Nat), base \in {0, 1} :
        /\ Lists(s, LeftOf(path, n))
        /\ Holds(path, out, s, base)
        /\ base = 1 => RootLeft(path, n)

\* The stack after component i.
Pushed(path, i, out) ==
    IF path[i] = DotDot THEN Pop(out)
    ELSE IF path[i] = Dot THEN out
    ELSE Append(out, path[i])

\* It is a path still.
LEMMA PushedIsSeq ==
    ASSUME NEW T, DotDot \in T, NEW path \in Seq(T), NEW i \in 1..Len(path),
           NEW out \in Seq(T)
    PROVE  Pushed(path, i, out) \in Seq(T)
<1>1. path[i] \in T
  OBVIOUS
<1>2. Pop(out) \in Seq(T)
  <2>1. CASE out = <<>>
    BY <2>1 DEF Pop
  <2>2. CASE out # <<>>
    BY <2>2 DEF Pop
  <2> QED
    BY <2>1, <2>2
<1> QED
  BY <1>1, <1>2 DEF Pushed

\* A name put on the stack is put on what is left, ...
LEMMA StackedWithName ==
    ASSUME NEW T, NEW path \in Seq(T), NEW n \in Nat, n + 1 \in 1..Len(path),
           path[n + 1] \notin {Dot, DotDot},
           NEW out \in Seq(T), NEW s \in Seq(Nat), NEW base \in {0, 1},
           Lists(s, LeftOf(path, n)), Holds(path, out, s, base)
    PROVE  /\ Lists(Append(s, n + 1), LeftOf(path, n + 1))
           /\ Holds(path, Append(out, path[n + 1]), Append(s, n + 1), base)
<1> DEFINE t == Append(s, n + 1)
<1>1. /\ t \in Seq(Nat) /\ Len(t) = Len(s) + 1 /\ Len(s) \in Nat
      /\ t[Len(s) + 1] = n + 1
      /\ \A k \in 1..Len(s) : t[k] = s[k]
  OBVIOUS
<1>2. LeftOf(path, n + 1) = LeftOf(path, n) \cup {n + 1}
  BY LeftWithName
<1>3. \A i \in LeftOf(path, n) : i \in 1..n
  BY DEF LeftOf
<1>4. \A k \in 1..Len(t) : k \in 1..Len(s) \/ k = Len(s) + 1
  BY <1>1
<1> HIDE DEF t
<1>5. Lists(t, LeftOf(path, n + 1))
  <2>1. \A k \in 1..Len(t) : t[k] \in LeftOf(path, n + 1)
    BY <1>1, <1>2, <1>4 DEF Lists
  <2>2. ASSUME NEW i \in LeftOf(path, n + 1)
        PROVE  \E k \in 1..Len(t) : t[k] = i
    <3>1. CASE i = n + 1
      <4>1. Len(s) + 1 \in 1..Len(t)
        BY <1>1
      <4> QED
        BY <1>1, <3>1, <4>1
    <3>2. CASE i # n + 1
      <4>1. PICK k \in 1..Len(s) : s[k] = i
        BY <1>2, <3>2 DEF Lists
      <4>2. k \in 1..Len(t) /\ t[k] = i
        BY <1>1, <4>1
      <4> QED
        BY <4>2
    <3> QED
      BY <3>1, <3>2
  <2>3. ASSUME NEW k \in 1..Len(t), NEW l \in 1..Len(t), k < l
        PROVE  t[k] < t[l]
    <3>1. k \in 1..Len(s) /\ s[k] \in 1..n
      BY <1>1, <1>3, <2>3 DEF Lists
    <3>2. CASE l = Len(s) + 1
      BY <1>1, <3>1, <3>2
    <3>3. CASE l # Len(s) + 1
      <4>1. l \in 1..Len(s)
        BY <1>4, <3>3
      <4>2. s[k] < s[l]
        BY <2>3, <3>1, <4>1 DEF Lists
      <4> QED
        BY <1>1, <3>1, <4>1, <4>2
    <3> QED
      BY <3>2, <3>3
  <2> QED
    BY <1>1, <2>1, <2>2, <2>3 DEF Lists
<1>6. Holds(path, Append(out, path[n + 1]), t, base)
  <2> DEFINE new == Append(out, path[n + 1])
  <2>1. Len(out) = base + Len(s) /\ base \in Nat
    BY DEF Holds
  <2>2. path[n + 1] \in T
    OBVIOUS
  <2>3. /\ Len(new) = Len(out) + 1 /\ new[Len(out) + 1] = path[n + 1]
        /\ \A k \in 1..Len(out) : new[k] = out[k]
    BY <2>2
  <2> HIDE DEF new
  <2>4. ASSUME NEW k \in 1..Len(t)
        PROVE  new[base + k] = path[t[k]]
    <3>1. CASE k \in 1..Len(s)
      <4>1. base + k \in 1..Len(out)
        BY <1>1, <2>1, <3>1
      <4>2. out[base + k] = path[s[k]]
        BY <3>1 DEF Holds
      <4> QED
        BY <1>1, <2>3, <3>1, <4>1, <4>2
    <3>2. CASE k = Len(s) + 1
      <4>1. base + k = Len(out) + 1
        BY <1>1, <2>1, <3>2
      <4> QED
        BY <1>1, <2>3, <3>2, <4>1
    <3> QED
      BY <1>4, <3>1, <3>2
  <2>5. base = 1 => new[1] = DotDot
    <3> SUFFICES ASSUME base = 1 PROVE new[1] = DotDot
      OBVIOUS
    <3>1. 1 \in 1..Len(out) /\ out[1] = DotDot
      BY <1>1, <2>1 DEF Holds
    <3> QED
      BY <2>3, <3>1
  <2>6. Len(new) = base + Len(t)
    BY <1>1, <2>1, <2>3
  <2>7. Holds(path, new, t, base)
    BY <2>4, <2>5, <2>6 DEF Holds
  <2> QED
    BY <2>7 DEF new
<1> QED
  BY <1>5, <1>6 DEF t

\* ... and `..' takes away its last name, if it has one.
LEMMA StackedWithDotDot ==
    ASSUME NEW T, NEW path \in Seq(T), NEW n \in Nat, n + 1 \in 1..Len(path),
           path[n + 1] = DotDot,
           NEW out \in Seq(T), NEW s \in Seq(Nat), NEW base \in {0, 1},
           Lists(s, LeftOf(path, n)), Holds(path, out, s, base), Len(s) > 0
    PROVE  \E t \in Seq(Nat) : /\ Lists(t, LeftOf(path, n + 1))
                               /\ Holds(path, Pop(out), t, base)
<1> DEFINE len == Len(s) - 1
           t == SubSeq(s, 1, len)
           x == s[Len(s)]
<1>1. /\ Len(s) \in Nat /\ len \in Nat /\ Len(s) = len + 1
      /\ t \in Seq(Nat) /\ Len(t) = len
      /\ \A k \in 1..len : t[k] = s[k] /\ k \in 1..Len(s) /\ k < Len(s)
      /\ Len(s) \in 1..Len(s)
  <2>1. Len(s) \in Nat /\ len \in Nat /\ Len(s) = len + 1 /\ Len(s) \in 1..Len(s)
    OBVIOUS
  <2>2. \A k \in 1..len : k \in 1..Len(s) /\ k < Len(s)
    OBVIOUS
  <2> HIDE DEF len
  <2>3. \A k \in 1..len : s[k] \in Nat
    BY <2>2
  <2>4. t \in Seq(Nat) /\ Len(t) = len /\ \A k \in 1..len : t[k] = s[k]
    BY <2>1, <2>3
  <2> QED
    BY <2>1, <2>2, <2>4
<1>2. \A k \in 1..Len(s) : k = Len(s) \/ k \in 1..len
  OBVIOUS
<1> HIDE DEF len, t
<1>3. x \in LeftOf(path, n) /\ \A i \in LeftOf(path, n) : i <= x
  <2>1. x \in LeftOf(path, n)
    BY <1>1 DEF Lists
  <2>2. ASSUME NEW i \in LeftOf(path, n)
        PROVE  i <= x
    <3>1. PICK k \in 1..Len(s) : s[k] = i
      BY DEF Lists
    <3>2. s[k] \in Nat /\ x \in Nat
      BY <1>1
    <3>3. k < Len(s) => s[k] < x
      BY <1>1 DEF Lists
    <3> QED
      BY <1>1, <1>2, <3>1, <3>2, <3>3
  <2> QED
    BY <2>1, <2>2
<1>4. LeftOf(path, n + 1) = LeftOf(path, n) \ {x}
  BY <1>3, LeftWithDotDot
<1>5. Lists(t, LeftOf(path, n + 1))
  <2>1. ASSUME NEW k \in 1..Len(t)
        PROVE  t[k] \in LeftOf(path, n + 1)
    <3>1. /\ k \in 1..Len(s) /\ t[k] = s[k] /\ k < Len(s)
      BY <1>1
    <3>2. s[k] \in LeftOf(path, n) /\ s[k] < x /\ s[k] \in Nat
      BY <1>1, <3>1 DEF Lists
    <3> QED
      BY <1>4, <3>1, <3>2
  <2>2. ASSUME NEW i \in LeftOf(path, n + 1)
        PROVE  \E k \in 1..Len(t) : t[k] = i
    <3>1. i \in LeftOf(path, n) /\ i # x
      BY <1>4
    <3>2. PICK k \in 1..Len(s) : s[k] = i
      BY <3>1 DEF Lists
    <3>3. k \in 1..len
      BY <1>2, <3>1, <3>2
    <3> QED
      BY <1>1, <3>2, <3>3
  <2>3. ASSUME NEW k \in 1..Len(t), NEW l \in 1..Len(t), k < l
        PROVE  t[k] < t[l]
    <3>1. k \in 1..Len(s) /\ l \in 1..Len(s) /\ t[k] = s[k] /\ t[l] = s[l]
      BY <1>1
    <3> QED
      BY <2>3, <3>1 DEF Lists
  <2> QED
    BY <1>1, <2>1, <2>2, <2>3 DEF Lists
<1>6. Holds(path, Pop(out), t, base)
  <2>1. Len(out) = base + Len(s) /\ base \in Nat
    BY DEF Holds
  <2> DEFINE new == Pop(out)
  <2>2. out # <<>> /\ Len(out) \in Nat
    BY <1>1, <2>1
  <2>3. /\ Len(new) = Len(out) - 1
        /\ \A k \in 1..(Len(out) - 1) : new[k] = out[k]
    BY <1>1, <2>1, <2>2 DEF Pop
  <2> HIDE DEF new
  <2>4. ASSUME NEW k \in 1..Len(t)
        PROVE  new[base + k] = path[t[k]]
    <3>1. k \in 1..Len(s) /\ t[k] = s[k] /\ base + k \in 1..(Len(out) - 1)
      BY <1>1, <2>1
    <3>2. out[base + k] = path[s[k]]
      BY <3>1 DEF Holds
    <3> QED
      BY <2>3, <3>1, <3>2
  <2>5. base = 1 => new[1] = DotDot
    <3> SUFFICES ASSUME base = 1 PROVE new[1] = DotDot
      OBVIOUS
    <3>1. 1 \in 1..(Len(out) - 1) /\ out[1] = DotDot
      BY <1>1, <2>1 DEF Holds
    <3> QED
      BY <2>3, <3>1
  <2>6. Len(new) = base + Len(t)
    BY <1>1, <2>1, <2>3
  <2>7. Holds(path, new, t, base)
    BY <2>4, <2>5, <2>6 DEF Holds
  <2> QED
    BY <2>7 DEF new
<1> QED
  BY <1>1, <1>5, <1>6

\* In each case the stack holds what is left.
LEMMA StackedSteps ==
    ASSUME NEW T, DotDot \in T, NEW path \in Seq(T), NEW n \in Nat,
           n + 1 \in 1..Len(path), NEW out \in Seq(T), Stacked(path, n, out)
    PROVE  Stacked(path, n + 1, Pushed(path, n + 1, out))
<1>1. PICK s \in Seq(Nat), base \in {0, 1} :
         /\ Lists(s, LeftOf(path, n))
         /\ Holds(path, out, s, base)
         /\ base = 1 => RootLeft(path, n)
  BY DEF Stacked
<1>2. RootLeft(path, n) => RootLeft(path, n + 1)
  <2> SUFFICES ASSUME RootLeft(path, n) PROVE RootLeft(path, n + 1)
    OBVIOUS
  <2>1. PICK m \in 1..n : \A i \in 1..m : Over(path, i, m) < 0
    BY DEF RootLeft
  <2>2. m \in 1..(n + 1)
    OBVIOUS
  <2> QED
    BY <2>1, <2>2 DEF RootLeft
<1>3. Dot # DotDot
  BY DEF Dot, DotDot
<1>4. CASE path[n + 1] \notin {Dot, DotDot}
  <2>1. /\ Lists(Append(s, n + 1), LeftOf(path, n + 1))
        /\ Holds(path, Append(out, path[n + 1]), Append(s, n + 1), base)
    BY <1>1, <1>4, StackedWithName
  <2>2. Append(s, n + 1) \in Seq(Nat)
    OBVIOUS
  <2>3. Pushed(path, n + 1, out) = Append(out, path[n + 1])
    BY <1>4 DEF Pushed
  <2> QED
    BY <1>1, <1>2, <2>1, <2>2, <2>3 DEF Stacked
<1>5. CASE path[n + 1] = Dot
  <2>1. LeftOf(path, n + 1) = LeftOf(path, n)
    BY <1>5, LeftWithDot
  <2>2. Pushed(path, n + 1, out) = out
    BY <1>3, <1>5 DEF Pushed
  <2> QED
    BY <1>1, <1>2, <2>1, <2>2 DEF Stacked
<1>6. CASE path[n + 1] = DotDot
  <2>1. Pushed(path, n + 1, out) = Pop(out)
    BY <1>6 DEF Pushed
  <2>2. CASE Len(s) > 0
    <3>1. PICK t \in Seq(Nat) : /\ Lists(t, LeftOf(path, n + 1))
                                /\ Holds(path, Pop(out), t, base)
      BY <1>1, <1>6, <2>2, StackedWithDotDot
    <3> QED
      BY <1>1, <1>2, <2>1, <3>1 DEF Stacked
  <2>3. CASE Len(s) = 0
    <3>1. LeftOf(path, n) = {}
      BY <1>1, <2>3 DEF Lists
    <3>2. /\ \A i \in 1..(n + 1) : Over(path, i, n + 1) < 0
          /\ LeftOf(path, n + 1) = {}
      BY <1>6, <3>1, DotDotAtRoot
    <3>3. RootLeft(path, n + 1)
      <4>1. n + 1 \in 1..(n + 1)
        OBVIOUS
      <4> QED
        BY <3>2, <4>1 DEF RootLeft
    <3>4. <<>> \in Seq(Nat) /\ Lists(<<>>, LeftOf(path, n + 1))
      BY <3>2 DEF Lists
    <3>5. \E b \in {0, 1} : Holds(path, Pop(out), <<>>, b)
      <4>1. Len(out) = base
        BY <1>1, <2>3 DEF Holds
      <4>2. CASE base = 0
        <5>1. out = <<>>
          BY <4>1, <4>2
        <5>2. Pop(out) = <<DotDot>>
          BY <5>1 DEF Pop
        <5>3. Holds(path, <<DotDot>>, <<>>, 1)
          BY DEF Holds
        <5> QED
          BY <5>2, <5>3
      <4>3. CASE base = 1
        <5>1. Len(out) = 1
          BY <4>1, <4>3
        <5>2. Pop(out) = <<>>
          <6>1. out # <<>>
            <7>1. Len(<<>>) = 0
              OBVIOUS
            <7>2. 0 # 1
              OBVIOUS
            <7> QED
              BY <5>1, <7>1, <7>2, Zenon
          <6>2. Pop(out) = SubSeq(out, 1, 0)
            BY <5>1, <6>1 DEF Pop
          <6> QED
            BY <6>2
        <5>3. Holds(path, <<>>, <<>>, 0)
          BY DEF Holds
        <5> QED
          BY <5>2, <5>3
      <4> QED
        BY <4>2, <4>3
    <3> QED
      BY <2>1, <3>3, <3>4, <3>5 DEF Stacked
  <2> QED
    BY <2>2, <2>3
<1> QED
  BY <1>4, <1>5, <1>6

\* So does what normalise_path returns.
LEMMA NormalisedHolds ==
    ASSUME NEW T, DotDot \in T, NEW path \in Seq(T)
    PROVE  /\ NormalisePath(path) \in Seq(T)
           /\ Stacked(path, Len(path), NormalisePath(path))
<1> DEFINE len == Len(path)
           Out(f) == f = [i \in 0..len |-> IF i = 0 THEN <<>>
                                           ELSE IF path[i] = DotDot THEN Pop(f[i - 1])
                                           ELSE IF path[i] = Dot THEN f[i - 1]
                                           ELSE Append(f[i - 1], path[i])]
           G == [i \in 1..len |-> [out \in Seq(T) |-> Pushed(path, i, out)]]
           f == CHOOSE h : Out(h)
<1>1. len \in Nat /\ <<>> \in Seq(T)
  OBVIOUS
<1>2. \E h \in [0..len -> Seq(T)] :
         h = [i \in 0..len |-> IF i = 0 THEN <<>> ELSE G[i][h[i - 1]]]
  <2>1. G \in [1..len -> [Seq(T) -> Seq(T)]]
    BY PushedIsSeq
  <2> DEFINE stacks == Seq(T)
             empty == <<>>
  <2>2. empty \in stacks /\ G \in [1..len -> [stacks -> stacks]]
    BY <1>1, <2>1
  <2> HIDE DEF G, len, stacks, empty
  <2>3. \E h \in [0..len -> stacks] : Recursion(h, len, empty, G)
    BY <1>1, <2>2, RecursionDefines, Zenon
  <2> QED
    BY <2>3 DEF stacks, empty, Recursion
<1>3. PICK h \in [0..len -> Seq(T)] :
         h = [i \in 0..len |-> IF i = 0 THEN <<>> ELSE G[i][h[i - 1]]]
  BY <1>2
<1>4. \A i \in 1..len : G[i][h[i - 1]] = Pushed(path, i, h[i - 1])
  <2> SUFFICES ASSUME NEW i \in 1..len
               PROVE  G[i][h[i - 1]] = Pushed(path, i, h[i - 1])
    OBVIOUS
  <2>1. i - 1 \in 0..len
    BY <1>1
  <2>2. h[i - 1] \in Seq(T)
    BY <1>3, <2>1
  <2> HIDE DEF len
  <2> QED
    BY <2>2
<1>5. Out(h)
  <2>1. h = [i \in 0..len |-> IF i = 0 THEN <<>> ELSE Pushed(path, i, h[i - 1])]
    <3> HIDE DEF G, len
    <3>1. \A i \in 0..len : i # 0 => i \in 1..len
      BY <1>1
    <3> QED
      BY <1>3, <1>4, <3>1
  <2> QED
    BY <2>1 DEF Pushed
<1>6. Out(f)
  <2> HIDE DEF Out
  <2> QED
    BY <1>5, Zenon
<1>7. NormalisePath(path) = f[len]
  BY DEF NormalisePath
<1> HIDE DEF f
<1>8. f[0] = <<>> /\ \A i \in 1..len : f[i] = Pushed(path, i, f[i - 1])
  <2> HIDE DEF len
  <2>1. 0 \in 0..len /\ \A i \in 1..len : i \in 0..len /\ i # 0
    BY <1>1
  <2>2. f = [i \in 0..len |-> IF i = 0 THEN <<>> ELSE Pushed(path, i, f[i - 1])]
    BY <1>6 DEF Pushed
  <2> HIDE DEF Out
  <2> QED
    BY <2>1, <2>2
<1> DEFINE Bad == {i \in 0..len : ~(f[i] \in Seq(T) /\ Stacked(path, i, f[i]))}
<1>9. Bad = {}
  <2> SUFFICES ASSUME Bad # {} PROVE FALSE
    OBVIOUS
  <2>1. PICK k \in Bad : \A j \in Bad : k <= j
    <3>1. Bad \subseteq Nat
      OBVIOUS
    <3> HIDE DEF Bad
    <3> QED
      BY <3>1, LeastExists, Zenon
  <2>2. k \in 0..len /\ ~(f[k] \in Seq(T) /\ Stacked(path, k, f[k]))
    BY <2>1
  <2>3. CASE k = 0
    <3>1. LeftOf(path, 0) = {}
      BY DEF LeftOf
    <3>2. Lists(<<>>, LeftOf(path, 0)) /\ Holds(path, <<>>, <<>>, 0)
      BY <3>1 DEF Lists, Holds
    <3>3. Stacked(path, 0, <<>>)
      <4>1. <<>> \in Seq(Nat) /\ 0 \in {0, 1} /\ 0 # 1
        OBVIOUS
      <4> QED
        BY <3>2, <4>1 DEF Stacked
    <3>4. f[k] = <<>>
      BY <1>8, <2>3
    <3>5. f[k] \in Seq(T) /\ Stacked(path, k, f[k])
      BY <1>1, <2>3, <3>3, <3>4
    <3> QED
      BY <2>2, <3>5
  <2>4. CASE k # 0
    <3> DEFINE n == k - 1
    <3>1. n \in 0..len /\ n \in Nat /\ n + 1 = k /\ k \in 1..len /\ ~(k <= n)
      BY <1>1, <2>2, <2>4
    <3>2. f[n] \in Seq(T) /\ Stacked(path, n, f[n])
      BY <2>1, <3>1
    <3>3. f[k] = Pushed(path, k, f[n])
      BY <1>8, <3>1
    <3> HIDE DEF n, Bad
    <3>4. f[k] \in Seq(T)
      BY <3>1, <3>2, <3>3, PushedIsSeq
    <3>5. Stacked(path, n + 1, Pushed(path, n + 1, f[n]))
      BY <3>1, <3>2, StackedSteps
    <3> QED
      BY <2>2, <3>1, <3>3, <3>4, <3>5
  <2> QED
    BY <2>3, <2>4
<1>10. len \in 0..len
  BY <1>1
<1>11. f[len] \in Seq(T) /\ Stacked(path, len, f[len])
  BY <1>9, <1>10
<1> QED
  BY <1>7, <1>11

\* The first k that a list lists are k.
LEMMA ListCounts ==
    ASSUME NEW L, NEW s, Lists(s, L), NEW k \in 0..Len(s)
    PROVE  Cardinality({s[l] : l \in 1..k}) = k
<1> DEFINE S == {s[l] : l \in 1..k}
           f == [l \in 1..k |-> s[l]]
<1>1. s \in Seq(Nat) /\ Len(s) \in Nat /\ k \in Nat
  BY DEF Lists
<1>2. f \in [1..k -> S] /\ \A y \in S : \E l \in 1..k : f[l] = y
  OBVIOUS
<1>3. ASSUME NEW l \in 1..k, NEW m \in 1..k, f[l] = f[m]
      PROVE  l = m
  <2>1. l \in 1..Len(s) /\ m \in 1..Len(s) /\ s[l] = s[m]
    BY <1>1, <1>3
  <2>2. (l < m => s[l] < s[m]) /\ (m < l => s[m] < s[l])
    BY <2>1 DEF Lists
  <2>3. s[l] \in Nat /\ s[m] \in Nat
    BY <1>1, <2>1
  <2> QED
    BY <1>1, <2>1, <2>2, <2>3
<1>4. f \in Bijection(1..k, S)
  <2>1. DOMAIN f = 1..k
    OBVIOUS
  <2> HIDE DEF f, S
  <2> QED
    BY <1>2, <1>3, <2>1 DEF Bijection, Injection, Surjection, IsInjective
<1> HIDE DEF S, f
<1>5. ExistsBijection(1..k, S)
  BY <1>4 DEF ExistsBijection
<1>6. Cardinality(S) = k
  BY <1>1, <1>5, FS_CountingElements, Zenon
<1> QED
  BY <1>6 DEF S

\* What a path means is what is left of it, in order.
LEMMA MeantLists ==
    ASSUME NEW path, NEW s, Lists(s, Left(path))
    PROVE  Meant(path) = [k \in 1..Len(s) |-> path[s[k]]]
<1> DEFINE L == Left(path)
           AsMany(i, k) == Cardinality({j \in L : j <= i}) = k
           nth(k) == CHOOSE i \in L : AsMany(i, k)
<1>1. s \in Seq(Nat) /\ Len(s) \in Nat
  BY DEF Lists
<1>2. ASSUME NEW k \in 1..Len(s)
      PROVE  {j \in L : j <= s[k]} = {s[l] : l \in 1..k}
  <2>1. ASSUME NEW j \in L, j <= s[k]
        PROVE  \E l \in 1..k : j = s[l]
    <3>1. PICK l \in 1..Len(s) : s[l] = j
      BY DEF Lists
    <3>2. k < l => s[k] < s[l]
      BY <3>1 DEF Lists
    <3>3. s[k] \in Nat /\ s[l] \in Nat
      BY <1>1
    <3>4. l \in 1..k
      BY <1>1, <2>1, <3>1, <3>2, <3>3
    <3> QED
      BY <3>1, <3>4
  <2>2. ASSUME NEW l \in 1..k
        PROVE  s[l] \in L /\ s[l] <= s[k]
    <3>1. l \in 1..Len(s) /\ k \in 1..Len(s) /\ (l = k \/ l < k)
      BY <1>1
    <3>2. l < k => s[l] < s[k]
      BY <3>1 DEF Lists
    <3>3. s[l] \in Nat /\ s[k] \in Nat /\ s[l] \in L
      BY <1>1, <3>1 DEF Lists
    <3> QED
      BY <3>1, <3>2, <3>3
  <2> QED
    BY <2>1, <2>2
<1>3. ASSUME NEW k \in 1..Len(s)
      PROVE  s[k] \in L /\ AsMany(s[k], k)
  <2>1. s[k] \in L
    BY DEF Lists
  <2>2. k \in 0..Len(s)
    BY <1>1
  <2>3. Cardinality({s[l] : l \in 1..k}) = k
    BY <2>2, ListCounts
  <2> QED
    BY <1>2, <2>1, <2>3
<1>4. ASSUME NEW k \in 1..Len(s), NEW i \in L, AsMany(i, k)
      PROVE  i = s[k]
  <2>1. PICK m \in 1..Len(s) : s[m] = i
    BY DEF Lists
  <2>2. AsMany(i, m)
    BY <1>3, <2>1
  <2> QED
    BY <1>4, <2>1, <2>2
<1>5. Cardinality(L) = Len(s)
  <2>1. L = {s[l] : l \in 1..Len(s)}
    BY DEF Lists
  <2>2. Len(s) \in 0..Len(s)
    BY <1>1
  <2>3. Cardinality({s[l] : l \in 1..Len(s)}) = Len(s)
    BY <2>2, ListCounts
  <2> QED
    BY <2>1, <2>3
<1>6. Meant(path) = [k \in 1..Cardinality(L) |-> path[nth(k)]]
  BY DEF Meant
<1> HIDE DEF AsMany
<1>7. \A k \in 1..Len(s) : nth(k) = s[k]
  <2> SUFFICES ASSUME NEW k \in 1..Len(s)
               PROVE  nth(k) = s[k]
    OBVIOUS
  <2>1. s[k] \in L /\ AsMany(s[k], k)
    BY <1>3
  <2> HIDE DEF L
  <2>2. nth(k) \in L /\ AsMany(nth(k), k)
    BY <2>1, Zenon
  <2> HIDE DEF nth
  <2> QED
    BY <1>4, <2>2
<1> HIDE DEF L, nth
<1> QED
  BY <1>5, <1>6, <1>7

\* What normalise_path returns is what the path means, or some `..' was at the
\* root and one is still at the bottom of the stack.
LEMMA NormalisedMeans ==
    ASSUME NEW T, DotDot \in T, NEW path \in Seq(T)
    PROVE  \/ NormalisePath(path) = Meant(path)
           \/ /\ Len(NormalisePath(path)) > 0
              /\ NormalisePath(path)[1] = DotDot
              /\ LeavesRoot(path)
<1> DEFINE out == NormalisePath(path)
           n == Len(path)
<1>1. out \in Seq(T) /\ Stacked(path, n, out) /\ n \in Nat
  BY NormalisedHolds
<1> HIDE DEF out
<1>2. PICK s \in Seq(Nat), base \in {0, 1} :
         /\ Lists(s, LeftOf(path, n))
         /\ Holds(path, out, s, base)
         /\ base = 1 => RootLeft(path, n)
  BY <1>1 DEF Stacked
<1>3. LeftOf(path, n) = Left(path)
  BY DEF LeftOf, Left
<1>4. Len(out) = base + Len(s) /\ Len(s) \in Nat
  BY <1>2 DEF Holds
<1>5. CASE base = 0
  <2>1. Meant(path) = [k \in 1..Len(s) |-> path[s[k]]]
    BY <1>2, <1>3, MeantLists
  <2>2. Len(out) = Len(s)
    BY <1>4, <1>5
  <2>3. \A k \in 1..Len(s) : out[k] = path[s[k]]
    <3>1. \A k \in 1..Len(s) : base + k = k
      BY <1>5
    <3> QED
      BY <1>2, <3>1 DEF Holds
  <2>4. out = [k \in 1..Len(s) |-> out[k]]
    BY <1>1, <2>2
  <2>5. out = Meant(path)
    BY <2>1, <2>3, <2>4
  <2> QED
    BY <2>5 DEF out
<1>6. CASE base = 1
  <2>1. PICK m \in 1..n : \A i \in 1..m : Over(path, i, m) < 0
    BY <1>2, <1>6 DEF RootLeft
  <2>2. \A i \in 1..m : Parents(path, i, m) > Names(path, i, m)
    <3> SUFFICES ASSUME NEW i \in 1..m
                 PROVE  Parents(path, i, m) > Names(path, i, m)
      OBVIOUS
    <3>1. Names(path, i, m) \in Nat /\ Parents(path, i, m) \in Nat
      BY PartsAre
    <3>2. Over(path, i, m) < 0
      BY <2>1
    <3> QED
      BY <3>1, <3>2 DEF Over
  <2>3. LeavesRoot(path)
    BY <2>2 DEF LeavesRoot
  <2>4. Len(out) > 0 /\ out[1] = DotDot
    BY <1>2, <1>4, <1>6 DEF Holds
  <2> QED
    BY <2>3, <2>4 DEF out
<1> QED
  BY <1>5, <1>6

\* A path with a `..' at its beginning is not in the workspace.
LEMMA NoWorkspaceAtDotDot ==
    ASSUME NEW T, NEW path \in Seq(T), path[1] = DotDot
    PROVE  ~StartsWith(path, Workspace)
<1> SUFFICES ASSUME StartsWith(path, Workspace)
             PROVE  FALSE
  OBVIOUS
<1>1. Len(Workspace) \in Nat /\ Len(Workspace) > 0
  BY WorkspaceAssumption
<1>2. Len(Workspace) <= Len(path) /\ SubSeq(path, 1, Len(Workspace)) = Workspace
  BY DEF StartsWith
<1>3. SubSeq(path, 1, Len(Workspace))[1] = path[1]
  BY <1>1, <1>2
<1>4. Workspace[1] # DotDot
  BY <1>1, WorkspaceAssumption
<1> QED
  BY <1>2, <1>3, <1>4

\* The names of a path, as a client may spell it and as it is resolved.
Component == Name \cup {DotDot}

\* They are all there is in the path a client passes, and stay so.
LEMMA ResolvedType ==
    ASSUME NEW raw \in RawPaths
    PROVE  Absolute(raw) \in Seq(Component) /\ ResolvePath(raw) \in Seq(Component)
<1>1. DotDot \in Component /\ Name \subseteq Component
  BY DEF Component
<1>2. raw.components \in Seq(Component) /\ Workspace \in Seq(Component)
  <2>1. raw.components \in Seq(Name) /\ Workspace \in Seq(Name)
    BY RawPathsAssumption
  <2> QED
    BY <1>1, <2>1, SeqMonotonic
<1>3. Absolute(raw) \in Seq(Component)
  BY <1>2 DEF Absolute
<1> QED
  BY <1>1, <1>3, NormalisedHolds DEF ResolvePath

\* For every path a client can pass.
LEMMA RawMeans ==
    ASSUME NEW raw \in RawPaths
    PROVE  /\ InWorkspace(raw) =>
                 /\ StartsWith(Meant(Absolute(raw)), Workspace)
                 /\ ResolvePath(raw) = Meant(Absolute(raw))
           /\ StartsWith(Meant(Absolute(raw)), Workspace) =>
                 InWorkspace(raw) \/ LeavesRoot(Absolute(raw))
<1> DEFINE T == Component
           path == Absolute(raw)
<1>1. DotDot \in T
  BY DEF Component
<1>2. path \in Seq(T)
  BY ResolvedType
<1>3. NormalisePath(path) \in Seq(T)
  <2> HIDE DEF T, path
  <2> QED
    BY <1>1, <1>2, NormalisedHolds
<1>4. \/ NormalisePath(path) = Meant(path)
      \/ NormalisePath(path)[1] = DotDot /\ LeavesRoot(path)
  <2> HIDE DEF T, path
  <2> QED
    BY <1>1, <1>2, NormalisedMeans
<1>5. NormalisePath(path)[1] = DotDot => ~StartsWith(NormalisePath(path), Workspace)
  BY <1>3, NoWorkspaceAtDotDot
<1>6. ResolvePath(raw) = NormalisePath(path)
      /\ (InWorkspace(raw) <=> StartsWith(NormalisePath(path), Workspace))
  BY DEF ResolvePath, InWorkspace
<1> HIDE DEF path, T
<1>7. /\ InWorkspace(raw) =>
            /\ StartsWith(Meant(path), Workspace)
            /\ ResolvePath(raw) = Meant(path)
      /\ StartsWith(Meant(path), Workspace) => InWorkspace(raw) \/ LeavesRoot(path)
  BY <1>4, <1>5, <1>6
<1> QED
  BY <1>7 DEF path

\* What a decision says of its path.
ResolvedInv ==
    decision.checked =>
        /\ decision.raw \in RawPaths
        /\ decision.path = ResolvePath(decision.raw)
        /\ decision.inside <=> InWorkspace(decision.raw)

\* resolve_and_check works on the path that it resolved, and no other step
\* touches the decision.
THEOREM ResolvedInvariant == ConfigSpec => []ResolvedInv
<1>1. ConfigInit => ResolvedInv
  BY DEF ConfigInit, ResolvedInv, NoDecision
<1>2. ResolvedInv /\ [ConfigNext]_configVars => ResolvedInv'
  <2> SUFFICES ASSUME ResolvedInv, [ConfigNext]_configVars
               PROVE  ResolvedInv'
    OBVIOUS
  <2>1. CASE UNCHANGED decision
    BY <2>1 DEF ResolvedInv
  <2>2. ASSUME NEW action \in Actions, NEW raw \in RawPaths, ResolveAndCheck(action, raw)
        PROVE  ResolvedInv'
    BY <2>2 DEF ResolveAndCheck, ResolvedInv
  <2>3. \/ UNCHANGED decision
        \/ \E action \in Actions, raw \in RawPaths : ResolveAndCheck(action, raw)
    BY DEF ConfigNext, configVars, ParseWorkspace, ParseRuleset, ParseError, ParseDone,
           Configure, Load, StartWatcher, Serve, Stop, Failed
  <2> QED
    BY <2>1, <2>2, <2>3
<1> QED
  BY <1>1, <1>2, PTL DEF ConfigSpec

\* Whatever path a client passes, it is taken for inside the workspace only if
\* what it means is there, and the tools get what it means; one that means a
\* place inside is refused only if a `..' of it is at the root.
THEOREM PathsResolveAsMeant == ConfigSpec => []ResolvesAsMeant
<1>1. ResolvedInv => ResolvesAsMeant
  BY RawMeans DEF ResolvedInv, ResolvesAsMeant
<1> QED
  BY <1>1, ResolvedInvariant, PTL

-----------------------------------------------------------------------------
(* Patterns: what glob_matches, which compares characters and backtracks,   *)
(* finds to match is what the pattern stands for.                           *)

\* Entry j of row i of a table, made of the rows after i.
Entry(pattern, text, m, i, j) ==
    IF i > Len(pattern) THEN j = Len(text) + 1
    ELSE IF pattern[i] = "*" THEN
      IF i < Len(pattern) /\ pattern[i + 1] = "*"
      THEN \E k \in j..(Len(text) + 1) : m[AfterDoubleStar(pattern, i)][k]
      ELSE \E k \in j..(Len(text) + 1) : StarReaches(text, j, k) /\ m[i + 1][k]
    ELSE /\ j < Len(text) + 1
         /\ IF pattern[i] = "?" THEN text[j] # Separator ELSE text[j] = pattern[i]
         /\ m[i + 1][j + 1]

Row(pattern, text, m, i) == [j \in 1..(Len(text) + 1) |-> Entry(pattern, text, m, i, j)]

\* A row depends on the rows after it only.
LEMMA RowFromLater ==
    ASSUME NEW pattern, NEW text, Len(pattern) \in Nat, Len(text) \in Nat,
           NEW m, NEW n, NEW i \in 1..(Len(pattern) + 1),
           \A h \in (i + 1)..(Len(pattern) + 1) : m[h] = n[h]
    PROVE  Row(pattern, text, m, i) = Row(pattern, text, n, i)
<1>1. ASSUME NEW j \in 1..(Len(text) + 1)
      PROVE  Entry(pattern, text, m, i, j) = Entry(pattern, text, n, i, j)
  <2>1. CASE i > Len(pattern)
    BY <2>1 DEF Entry
  <2>2. CASE ~(i > Len(pattern))
    <3>1. m[i + 1] = n[i + 1]
      BY <2>2
    <3>2. CASE pattern[i] = "*" /\ i < Len(pattern) /\ pattern[i + 1] = "*"
      <4>1. AfterDoubleStar(pattern, i) \in (i + 1)..(Len(pattern) + 1)
        BY <3>2 DEF AfterDoubleStar
      <4>2. m[AfterDoubleStar(pattern, i)] = n[AfterDoubleStar(pattern, i)]
        BY <4>1
      <4> QED
        BY <2>2, <3>2, <4>2 DEF Entry
    <3>3. CASE ~(pattern[i] = "*" /\ i < Len(pattern) /\ pattern[i + 1] = "*")
      BY <2>2, <3>1, <3>3 DEF Entry
    <3> QED
      BY <3>2, <3>3
  <2> QED
    BY <2>1, <2>2
<1> QED
  BY <1>1 DEF Row

\* So there is a table whose rows are all made so.
LEMMA TableExists ==
    ASSUME NEW pattern, NEW text, Len(pattern) \in Nat, Len(text) \in Nat
    PROVE  \E m : m = [i \in 1..(Len(pattern) + 1) |-> Row(pattern, text, m, i)]
<1> DEFINE last == Len(pattern) + 1
           Done(m, k) == /\ DOMAIN m = 1..last
                         /\ m = [i \in 1..last |-> m[i]]
                         /\ \A i \in 1..last :
                               last - i < k => m[i] = Row(pattern, text, m, i)
           Bad == {k \in 0..last : \A m : ~Done(m, k)}
<1>1. last \in Nat /\ last > 0
  OBVIOUS
<1>2. Bad = {}
  <2> SUFFICES ASSUME Bad # {} PROVE FALSE
    OBVIOUS
  <2>1. PICK k \in Bad : \A l \in Bad : k <= l
    <3>1. Bad \subseteq Nat
      OBVIOUS
    <3> HIDE DEF Bad
    <3> QED
      BY <3>1, LeastExists, Zenon
  <2>2. k \in 0..last /\ \A m : ~Done(m, k)
    BY <2>1
  <2> HIDE DEF last
  <2>3. CASE k = 0
    <3> DEFINE m == [i \in 1..last |-> 0]
    <3>1. Done(m, 0)
      <4>1. \A i \in 1..last : ~(last - i < 0)
        BY <1>1
      <4> QED
        BY <4>1
    <3> HIDE DEF Done, m
    <3> QED
      BY <2>2, <2>3, <3>1
  <2>4. CASE k # 0
    <3> DEFINE l == k - 1
               row == last - l
    <3>1. l \in 0..last /\ ~(k <= l) /\ row \in 1..last
      BY <1>1, <2>2, <2>4
    <3>2. PICK m : Done(m, l)
      <4> HIDE DEF Done, l
      <4> QED
        BY <2>1, <3>1 DEF Bad
    <3> DEFINE n == [i \in 1..last |->
                        IF i = row THEN Row(pattern, text, m, row) ELSE m[i]]
    <3>3. \A i \in 1..last : i # row => n[i] = m[i]
      OBVIOUS
    <3>4. n[row] = Row(pattern, text, m, row)
      BY <3>1
    <3>5. DOMAIN n = 1..last /\ n = [i \in 1..last |-> n[i]]
      OBVIOUS
    <3>6. ASSUME NEW i \in 1..last, last - i < k
          PROVE  n[i] = Row(pattern, text, n, i)
      <4>1. i >= row
        BY <1>1, <2>2, <3>6
      <4>2. \A h \in (i + 1)..last : m[h] = n[h]
        <5>1. \A h \in (i + 1)..last : h \in 1..last /\ h # row
          BY <3>1, <4>1
        <5> QED
          BY <3>3, <5>1
      <4> HIDE DEF n
      <4>3. Row(pattern, text, m, i) = Row(pattern, text, n, i)
        BY <4>2, RowFromLater DEF last
      <4>4. CASE i = row
        BY <3>4, <4>3, <4>4
      <4>5. CASE i # row
        <5>1. last - i < l
          BY <1>1, <2>2, <3>6, <4>1, <4>5
        <5>2. m[i] = Row(pattern, text, m, i)
          BY <3>2, <5>1
        <5> QED
          BY <3>3, <4>3, <4>5, <5>2
      <4> QED
        BY <4>4, <4>5
    <3>7. Done(n, k)
      <4> HIDE DEF n
      <4> QED
        BY <3>5, <3>6
    <3> HIDE DEF Done
    <3> QED
      BY <2>2, <3>7
  <2> QED
    BY <2>3, <2>4
<1>3. last \in 0..last
  BY <1>1
<1>4. PICK m : Done(m, last)
  <2> HIDE DEF Done, last
  <2> QED
    BY <1>2, <1>3
<1>5. \A i \in 1..last : last - i < last
  BY <1>1
<1>6. \A i \in 1..last : m[i] = Row(pattern, text, m, i)
  BY <1>4, <1>5
<1>7. m = [i \in 1..last |-> m[i]]
  BY <1>4
<1>8. m = [i \in 1..last |-> Row(pattern, text, m, i)]
  <2> HIDE DEF last, Done
  <2> QED
    BY <1>6, <1>7
<1> QED
  BY <1>8

\* Does the pattern from character i on match the text from j on?
Matches(pattern, text, i, j) == GlobInner(pattern, text)[i][j]

\* What glob_inner finds there.
LEMMA MatchesEntry ==
    ASSUME NEW pattern, NEW text, Len(pattern) \in Nat, Len(text) \in Nat,
           NEW i \in 1..(Len(pattern) + 1), NEW j \in 1..(Len(text) + 1)
    PROVE  Matches(pattern, text, i, j) =
              Entry(pattern, text, GlobInner(pattern, text), i, j)
<1> DEFINE Table(m) == m = [h \in 1..(Len(pattern) + 1) |-> Row(pattern, text, m, h)]
           g == CHOOSE m : Table(m)
<1>1. \E m : Table(m)
  BY TableExists
<1>2. Table(g)
  <2> HIDE DEF Table
  <2> QED
    BY <1>1, Zenon
<1>3. GlobInner(pattern, text) = g
  BY DEF GlobInner, Row, Entry
<1> HIDE DEF g
<1>4. g[i] = Row(pattern, text, g, i)
  BY <1>2
<1>5. g[i][j] = Entry(pattern, text, g, i, j)
  <2>1. Row(pattern, text, g, i)[j] = Entry(pattern, text, g, i, j)
    BY DEF Row
  <2> QED
    BY <1>4, <2>1
<1> QED
  BY <1>3, <1>5 DEF Matches

\* Does a character of the pattern, that is no star, stand for one of the text?
Stands(mark, char) == IF mark = "?" THEN char # Separator ELSE char = mark

\* The end of the pattern matches at the end of the text only.
LEMMA MatchesEnd ==
    ASSUME NEW pattern, NEW text, Len(pattern) \in Nat, Len(text) \in Nat,
           NEW j \in 1..(Len(text) + 1)
    PROVE  Matches(pattern, text, Len(pattern) + 1, j) <=> j = Len(text) + 1
<1>1. Len(pattern) + 1 \in 1..(Len(pattern) + 1) /\ Len(pattern) + 1 > Len(pattern)
  OBVIOUS
<1>2. Entry(pattern, text, GlobInner(pattern, text), Len(pattern) + 1, j) =
         (j = Len(text) + 1)
  BY <1>1 DEF Entry
<1>3. Matches(pattern, text, Len(pattern) + 1, j) =
         Entry(pattern, text, GlobInner(pattern, text), Len(pattern) + 1, j)
  BY <1>1, MatchesEntry, Zenon
<1> QED
  BY <1>2, <1>3

\* A star reaches any place before the next separator.
LEMMA MatchesStar ==
    ASSUME NEW pattern, NEW text, Len(pattern) \in Nat, Len(text) \in Nat,
           NEW i \in 1..Len(pattern), NEW j \in 1..(Len(text) + 1),
           pattern[i] = "*", ~(i < Len(pattern) /\ pattern[i + 1] = "*")
    PROVE  Matches(pattern, text, i, j) <=>
              \E k \in j..(Len(text) + 1) :
                 StarReaches(text, j, k) /\ Matches(pattern, text, i + 1, k)
<1>1. i \in 1..(Len(pattern) + 1) /\ ~(i > Len(pattern))
  OBVIOUS
<1>2. Entry(pattern, text, GlobInner(pattern, text), i, j) =
         \E k \in j..(Len(text) + 1) :
            StarReaches(text, j, k) /\ Matches(pattern, text, i + 1, k)
  BY <1>1 DEF Entry, Matches
<1> QED
  BY <1>1, <1>2, MatchesEntry

\* Two stars reach any place.
LEMMA MatchesDouble ==
    ASSUME NEW pattern, NEW text, Len(pattern) \in Nat, Len(text) \in Nat,
           NEW i \in 1..Len(pattern), NEW j \in 1..(Len(text) + 1),
           pattern[i] = "*", i < Len(pattern), pattern[i + 1] = "*"
    PROVE  Matches(pattern, text, i, j) <=>
              \E k \in j..(Len(text) + 1) :
                 Matches(pattern, text, AfterDoubleStar(pattern, i), k)
<1>1. i \in 1..(Len(pattern) + 1) /\ ~(i > Len(pattern))
  OBVIOUS
<1>2. Entry(pattern, text, GlobInner(pattern, text), i, j) =
         \E k \in j..(Len(text) + 1) :
            Matches(pattern, text, AfterDoubleStar(pattern, i), k)
  BY <1>1 DEF Entry, Matches
<1> QED
  BY <1>1, <1>2, MatchesEntry

\* Any other character stands for one.
LEMMA MatchesChar ==
    ASSUME NEW pattern, NEW text, Len(pattern) \in Nat, Len(text) \in Nat,
           NEW i \in 1..Len(pattern), NEW j \in 1..(Len(text) + 1),
           pattern[i] # "*"
    PROVE  Matches(pattern, text, i, j) <=>
              j <= Len(text) /\ Stands(pattern[i], text[j])
              /\ Matches(pattern, text, i + 1, j + 1)
<1>1. /\ i \in 1..(Len(pattern) + 1) /\ ~(i > Len(pattern))
      /\ j < Len(text) + 1 <=> j <= Len(text)
  OBVIOUS
<1>2. Entry(pattern, text, GlobInner(pattern, text), i, j) =
         (j <= Len(text) /\ Stands(pattern[i], text[j])
          /\ Matches(pattern, text, i + 1, j + 1))
  BY <1>1 DEF Entry, Matches, Stands
<1> QED
  BY <1>1, <1>2, MatchesEntry

\* A separator stands for one.
LEMMA MatchesSeparator ==
    ASSUME NEW pattern, NEW text, Len(pattern) \in Nat, Len(text) \in Nat,
           NEW i \in 1..Len(pattern), NEW j \in 1..(Len(text) + 1),
           pattern[i] = Separator
    PROVE  Matches(pattern, text, i, j) <=>
              j <= Len(text) /\ text[j] = Separator
              /\ Matches(pattern, text, i + 1, j + 1)
<1>1. pattern[i] # "*" /\ (Stands(pattern[i], text[j]) <=> text[j] = Separator)
  BY DEF Separator, Stands
<1> QED
  BY <1>1, MatchesChar

\* If what follows two stars matches, so do they, whether or not they take a
\* separator with them.
LEMMA DoubleMatches ==
    ASSUME NEW pattern, NEW text, Len(pattern) \in Nat, Len(text) \in Nat,
           NEW i \in 1..Len(pattern), NEW j \in 1..(Len(text) + 1),
           pattern[i] = "*", i < Len(pattern), pattern[i + 1] = "*",
           NEW k \in j..(Len(text) + 1), Matches(pattern, text, i + 2, k)
    PROVE  Matches(pattern, text, i, j)
<1>1. CASE i + 2 <= Len(pattern) /\ pattern[i + 2] = Separator
  <2>1. i + 2 \in 1..Len(pattern) /\ k \in 1..(Len(text) + 1) /\ (i + 2) + 1 = i + 3
    BY <1>1
  <2>2. k <= Len(text) /\ Matches(pattern, text, i + 3, k + 1)
    BY <1>1, <2>1, MatchesSeparator
  <2>3. k + 1 \in j..(Len(text) + 1) /\ AfterDoubleStar(pattern, i) = i + 3
    BY <1>1, <2>1, <2>2 DEF AfterDoubleStar
  <2> QED
    BY <2>2, <2>3, MatchesDouble
<1>2. CASE ~(i + 2 <= Len(pattern) /\ pattern[i + 2] = Separator)
  <2>1. AfterDoubleStar(pattern, i) = i + 2
    BY <1>2 DEF AfterDoubleStar
  <2> QED
    BY <2>1, MatchesDouble
<1> QED
  BY <1>1, <1>2

-----------------------------------------------------------------------------
(* One segment and one name. *)

\* Is s what seq holds after place a?
Spells(seq, a, s) ==
    /\ Len(s) \in Nat /\ a \in Nat /\ a + Len(s) <= Len(seq)
    /\ \A p \in 1..Len(s) : seq[a + p] = s[p]

\* Does seq go on after place a with a separator, if it goes on?
EndsAt(seq, a) == a < Len(seq) => seq[a + 1] = Separator

\* In a monotone list of places, those up to p come first.
LEMMA PlacesSplit ==
    ASSUME NEW K \in Nat, NEW L \in Nat, NEW place \in [1..K -> 1..L], NEW p \in Nat,
           \A i, j \in 1..K : i < j => place[i] <= place[j]
    PROVE  \E y \in 0..K : \A i \in 1..K : place[i] <= p <=> i <= y
<1> DEFINE Later == {i \in 1..K : place[i] > p}
<1>1. CASE Later = {}
  <2>1. \A i \in 1..K : place[i] <= p <=> i <= K
    BY <1>1
  <2> QED
    BY <2>1
<1>2. CASE Later # {}
  <2>1. PICK z \in Later : \A i \in Later : z <= i
    <3>1. Later \subseteq Nat
      OBVIOUS
    <3> HIDE DEF Later
    <3> QED
      BY <1>2, <3>1, LeastExists, Zenon
  <2>2. ASSUME NEW i \in 1..K
        PROVE  place[i] <= p <=> i <= z - 1
    <3>1. CASE i < z
      <4>1. i \notin Later
        BY <2>1, <3>1
      <4> QED
        BY <3>1, <4>1
    <3>2. CASE i = z
      BY <2>1, <3>2
    <3>3. CASE i > z
      <4>1. place[z] <= place[i] /\ place[z] > p
        BY <2>1, <3>3
      <4> QED
        BY <2>1, <3>3, <4>1
    <3> QED
      BY <3>1, <3>2, <3>3
  <2>3. z - 1 \in 0..K
    BY <2>1
  <2> QED
    BY <2>2, <2>3
<1> QED
  BY <1>1, <1>2

\* What stands for a name, character by character, matches where it stands.
LEMMA NameForward ==
    ASSUME NEW pattern, NEW text, Len(pattern) \in Nat, Len(text) \in Nat,
           NEW s, NEW name, NEW a \in Nat, NEW b \in Nat,
           Spells(pattern, a, s), Spells(text, b, name), EndsAt(pattern, a + Len(s)),
           \A i \in 1..Len(name) : name[i] # Separator,
           NameMatches(s, name),
           Matches(pattern, text, a + Len(s) + 1, b + Len(name) + 1)
    PROVE  Matches(pattern, text, a + 1, b + 1)
<1> DEFINE L == Len(s)
           K == Len(name)
<1>1. PICK place \in [1..K -> 1..L] :
           /\ \A i, j \in 1..K : i < j => place[i] <= place[j]
           /\ \A i \in 1..K : s[place[i]] \in {"*", "?", name[i]}
           /\ \A q \in 1..L :
                 s[q] # "*" =>
                    \E i \in 1..K : place[i] = q /\ \A j \in 1..K : place[j] = q => j = i
  BY DEF NameMatches
<1>2. /\ L \in Nat /\ K \in Nat /\ a + L <= Len(pattern) /\ b + K <= Len(text)
      /\ \A p \in 1..L : pattern[a + p] = s[p]
      /\ \A x \in 1..K : text[b + x] = name[x] /\ text[b + x] # Separator
      /\ \A x \in 1..K : place[x] \in 1..L
      /\ EndsAt(pattern, a + L) /\ Matches(pattern, text, a + L + 1, b + K + 1)
  BY DEF Spells
<1> HIDE DEF L, K
<1> DEFINE Cut(p, x) == \A i \in 1..K : place[i] <= p <=> i <= x
           Claim(p) == \A x \in 0..K :
               Cut(p, x) => Matches(pattern, text, a + p + 1, b + x + 1)
           Bad == {u \in 0..L : ~Claim(L - u)}
<1>3. ASSUME NEW p \in Nat
      PROVE  \E y \in 0..K : Cut(p, y)
  <2>1. /\ K \in Nat /\ L \in Nat /\ place \in [1..K -> 1..L]
        /\ \A i, j \in 1..K : i < j => place[i] <= place[j]
    BY <1>1, <1>2
  <2>2. \E y \in 0..K : \A i \in 1..K : place[i] <= p <=> i <= y
    BY <2>1, PlacesSplit
  <2> QED
    BY <2>2
<1>4. Bad = {}
  <2> SUFFICES ASSUME Bad # {} PROVE FALSE
    OBVIOUS
  <2>1. PICK u \in Bad : \A l \in Bad : u <= l
    <3>1. Bad \subseteq Nat
      OBVIOUS
    <3> HIDE DEF Bad
    <3> QED
      BY <3>1, LeastExists, Zenon
  <2> DEFINE p == L - u
  <2>2. u \in 0..L /\ ~Claim(p)
    BY <2>1
  <2>3. p \in 0..L
    BY <1>2, <2>2
  <2>4. ASSUME NEW r \in (p + 1)..L
        PROVE  Claim(r)
    <3>1. L - r \in 0..L /\ ~(u <= L - r) /\ L - (L - r) = r
      BY <1>2, <2>2, <2>3, <2>4
    <3>2. L - r \notin Bad
      BY <2>1, <3>1
    <3>3. Claim(L - (L - r))
      <4> HIDE DEF Claim
      <4> QED
        BY <3>1, <3>2
    <3> HIDE DEF Claim
    <3> QED
      BY <3>1, <3>3
  <2>5. PICK x \in 0..K : Cut(p, x) /\ ~Matches(pattern, text, a + p + 1, b + x + 1)
    <3> HIDE DEF Cut, p
    <3> QED
      BY <2>2
  <2> HIDE DEF p, Bad
  <2>6. CASE p = L
    <3>1. \A i \in 1..K : place[i] <= p
      BY <1>2, <2>6
    <3>2. x = K
      BY <1>2, <2>5, <3>1
    <3> QED
      BY <1>2, <2>5, <2>6, <3>2
  <2>7. CASE p < L
    <3> DEFINE i == a + p + 1
               j == b + x + 1
    <3>1. /\ p + 1 \in 1..L /\ pattern[i] = s[p + 1] /\ i \in 1..Len(pattern)
          /\ j \in 1..(Len(text) + 1) /\ a + (p + 1) + 1 = i + 1 /\ p + 1 \in (p + 1)..L
      BY <1>2, <2>3, <2>7
    <3>2. CASE s[p + 1] # "*"
      <4>1. PICK y \in 1..K :
                 place[y] = p + 1 /\ \A z \in 1..K : place[z] = p + 1 => z = y
        BY <1>1, <3>1, <3>2
      <4>2. y > x
        BY <1>2, <2>3, <2>5, <4>1
      <4>3. x + 1 \in 1..K /\ place[x + 1] > p /\ place[x + 1] <= place[y]
        <5>1. x + 1 \in 1..K /\ (x + 1 < y \/ x + 1 = y) /\ ~(x + 1 <= x)
          <6>1. x \in Int /\ y \in Int /\ K \in Int /\ x >= 0 /\ y <= K
            BY <1>2, <2>5, <4>1
          <6> QED
            BY <4>2, <6>1
        <5>2. ~(place[x + 1] <= p)
          BY <2>5, <5>1
        <5>3. place[x + 1] <= place[y]
          <6>1. CASE x + 1 < y
            BY <1>1, <4>1, <5>1, <6>1
          <6>2. CASE x + 1 = y
            <7>1. place[y] \in Int
              BY <1>2, <4>1
            <7> QED
              BY <6>2, <7>1
          <6> QED
            BY <5>1, <6>1, <6>2
        <5> QED
          BY <1>2, <2>3, <5>1, <5>2, <5>3
      <4>4. y = x + 1
        <5>1. place[x + 1] = p + 1
          BY <2>3, <4>1, <4>3
        <5> QED
          BY <4>1, <4>3, <5>1
      <4>5. Cut(p + 1, x + 1)
        <5> SUFFICES ASSUME NEW z \in 1..K
                     PROVE  place[z] <= p + 1 <=> z <= x + 1
          OBVIOUS
        <5>1. z <= x => place[z] <= p
          BY <2>5
        <5>2. z > x + 1 => place[z] >= p + 1 /\ place[z] # p + 1
          <6> SUFFICES ASSUME z > x + 1
                       PROVE  place[z] >= p + 1 /\ place[z] # p + 1
            OBVIOUS
          <6>1. y < z /\ z # y
            BY <1>2, <4>4
          <6>2. place[y] <= place[z]
            BY <1>1, <6>1
          <6> QED
            BY <1>2, <2>3, <4>1, <6>1, <6>2
        <5> QED
          BY <2>3, <4>1, <4>3, <4>4, <5>1, <5>2
      <4>6. Matches(pattern, text, i + 1, j + 1)
        <5>1. x + 1 \in 0..K /\ b + (x + 1) + 1 = j + 1
          BY <4>3
        <5>2. Claim(p + 1)
          BY <2>4, <3>1
        <5> HIDE DEF Cut
        <5>3. Matches(pattern, text, a + (p + 1) + 1, b + (x + 1) + 1)
          BY <4>5, <5>1, <5>2
        <5> QED
          BY <3>1, <5>1, <5>3
      <4>7. j <= Len(text) /\ text[j] = name[x + 1] /\ text[j] # Separator
        BY <1>2, <4>3
      <4>8. Stands(pattern[i], text[j])
        <5>1. s[p + 1] \in {"*", "?", name[x + 1]}
          BY <1>1, <4>1, <4>3, <4>4
        <5> QED
          BY <3>1, <3>2, <4>7, <5>1 DEF Stands
      <4> HIDE DEF i, j
      <4>9. Matches(pattern, text, i, j)
        BY <3>1, <3>2, <4>6, <4>7, <4>8, MatchesChar
      <4> QED
        BY <2>5, <4>9 DEF i, j
    <3>3. CASE s[p + 1] = "*"
      <4>1. PICK y \in 0..K : Cut(p + 1, y)
        <5>1. p + 1 \in Nat
          BY <2>3
        <5> QED
          BY <1>3, <5>1
      <4>2. x <= y
        <5>1. x = 0 \/ x \in 1..K
          BY <1>2
        <5>2. x \in 1..K => place[x] <= p + 1
          BY <1>2, <2>3, <2>5
        <5> QED
          BY <4>1, <5>1, <5>2
      <4>3. b + y + 1 \in j..(Len(text) + 1)
        BY <1>2, <4>1, <4>2
      <4>4. CASE ~(i < Len(pattern) /\ pattern[i + 1] = "*")
        <5>1. StarReaches(text, j, b + y + 1)
          <6> SUFFICES ASSUME NEW z \in j..((b + y + 1) - 1)
                       PROVE  text[z] # Separator
            BY DEF StarReaches
          <6>1. z - b \in 1..K /\ b + (z - b) = z
            BY <1>2, <4>1, <4>2
          <6> QED
            BY <1>2, <6>1
        <5>2. Matches(pattern, text, i + 1, b + y + 1)
          <6>1. Claim(p + 1)
            BY <2>4, <3>1
          <6> HIDE DEF Cut
          <6>2. Matches(pattern, text, a + (p + 1) + 1, b + y + 1)
            BY <4>1, <6>1
          <6> QED
            BY <3>1, <6>2
        <5> HIDE DEF i, j
        <5>3. Matches(pattern, text, i, j)
          BY <3>1, <3>3, <4>3, <4>4, <5>1, <5>2, MatchesStar
        <5> QED
          BY <2>5, <5>3 DEF i, j
      <4>5. CASE i < Len(pattern) /\ pattern[i + 1] = "*"
        <5>1. p + 2 \in (p + 1)..L
          <6>1. p + 1 = L => a + L = i
            BY <1>2, <2>3
          <6>2. p + 1 # L
            BY <1>2, <4>5, <6>1 DEF EndsAt, Separator
          <6> QED
            BY <1>2, <2>3, <3>1, <6>2
        <5>2. PICK z \in 0..K : Cut(p + 2, z)
          <6>1. p + 2 \in Nat
            BY <2>3
          <6> QED
            BY <1>3, <6>1
        <5>3. x <= z
          <6>1. x = 0 \/ x \in 1..K
            BY <1>2
          <6>2. x \in 1..K => place[x] <= p + 2
            BY <1>2, <2>3, <2>5
          <6> QED
            BY <5>2, <6>1, <6>2
        <5>4. b + z + 1 \in j..(Len(text) + 1) /\ a + (p + 2) + 1 = i + 2
          BY <1>2, <5>2, <5>3, <2>3
        <5>5. Matches(pattern, text, i + 2, b + z + 1)
          <6>1. Claim(p + 2)
            BY <2>4, <5>1
          <6> HIDE DEF Cut
          <6>2. Matches(pattern, text, a + (p + 2) + 1, b + z + 1)
            BY <5>2, <6>1
          <6> QED
            BY <5>4, <6>2
        <5> HIDE DEF i, j
        <5>6. Matches(pattern, text, i, j)
          BY <3>1, <3>3, <4>5, <5>4, <5>5, DoubleMatches
        <5> QED
          BY <2>5, <5>6 DEF i, j
      <4> QED
        BY <4>4, <4>5
    <3> QED
      BY <3>2, <3>3
  <2> QED
    BY <1>2, <2>3, <2>6, <2>7
<1>5. Claim(0)
  <2>1. L \in 0..L /\ L - L = 0
    BY <1>2
  <2>2. Claim(L - L)
    <3> HIDE DEF Claim
    <3> QED
      BY <1>4, <2>1
  <2> HIDE DEF Claim
  <2> QED
    BY <2>1, <2>2
<1>6. Cut(0, 0) /\ 0 \in 0..K /\ a + 0 + 1 = a + 1 /\ b + 0 + 1 = b + 1
  BY <1>2
<1> QED
  BY <1>5, <1>6

\* Does s after its character p stand for name after its character x?
RestMatches(s, name, p, x) ==
    \E place \in [(x + 1)..Len(name) -> (p + 1)..Len(s)] :
        /\ \A i, j \in (x + 1)..Len(name) : i < j => place[i] <= place[j]
        /\ \A i \in (x + 1)..Len(name) : s[place[i]] \in {"*", "?", name[i]}
        /\ \A q \in (p + 1)..Len(s) :
              s[q] # "*" =>
                 \E i \in (x + 1)..Len(name) :
                    place[i] = q /\ \A j \in (x + 1)..Len(name) : place[j] = q => j = i

\* Nothing stands for nothing.
LEMMA NoRest ==
    ASSUME NEW s, NEW name, Len(s) \in Nat, Len(name) \in Nat
    PROVE  RestMatches(s, name, Len(s), Len(name))
<1> DEFINE L == Len(s)
           K == Len(name)
           place == [i \in (K + 1)..K |-> 0]
<1>1. (K + 1)..K = {} /\ (L + 1)..L = {}
  OBVIOUS
<1>2. place \in [(K + 1)..K -> (L + 1)..L]
  BY <1>1
<1> HIDE DEF place
<1> QED
  BY <1>1, <1>2 DEF RestMatches

\* A character stands for one more.
LEMMA RestWithChar ==
    ASSUME NEW s, NEW name, NEW p, NEW x, Len(s) \in Nat, Len(name) \in Nat,
           p \in 0..(Len(s) - 1), x \in 0..(Len(name) - 1),
           s[p + 1] \in {"?", name[x + 1]}, RestMatches(s, name, p + 1, x + 1)
    PROVE  RestMatches(s, name, p, x)
<1> DEFINE L == Len(s)
           K == Len(name)
<1>1. PICK f \in [((x + 1) + 1)..K -> ((p + 1) + 1)..L] :
        /\ \A i, j \in ((x + 1) + 1)..K : i < j => f[i] <= f[j]
        /\ \A i \in ((x + 1) + 1)..K : s[f[i]] \in {"*", "?", name[i]}
        /\ \A q \in ((p + 1) + 1)..L :
              s[q] # "*" =>
                 \E i \in ((x + 1) + 1)..K :
                    f[i] = q /\ \A j \in ((x + 1) + 1)..K : f[j] = q => j = i
  BY DEF RestMatches
<1>2. L \in Nat /\ K \in Nat /\ p \in 0..(L - 1) /\ x \in 0..(K - 1)
  OBVIOUS
<1> HIDE DEF L, K
<1> DEFINE place == [i \in (x + 1)..K |-> IF i = x + 1 THEN p + 1 ELSE f[i]]
<1>3. /\ x + 1 \in (x + 1)..K /\ p + 1 \in (p + 1)..L
      /\ \A i \in (x + 1)..K : i = x + 1 \/ (i \in ((x + 1) + 1)..K /\ i # x + 1)
      /\ \A q \in (p + 1)..L : q = p + 1 \/ (q \in ((p + 1) + 1)..L /\ q # p + 1)
      /\ \A i \in ((x + 1) + 1)..K : i \in (x + 1)..K /\ i # x + 1
      /\ \A q \in ((p + 1) + 1)..L : q \in (p + 1)..L /\ q > p + 1
  BY <1>2
<1>4. /\ place[x + 1] = p + 1
      /\ \A i \in ((x + 1) + 1)..K :
            place[i] = f[i] /\ place[i] \in ((p + 1) + 1)..L /\ place[i] # p + 1
  BY <1>2, <1>3
<1>5. place \in [(x + 1)..K -> (p + 1)..L]
  BY <1>3
<1> HIDE DEF place
<1>6. ASSUME NEW i \in (x + 1)..K, NEW j \in (x + 1)..K, i < j
      PROVE  place[i] <= place[j]
  <2>1. j \in ((x + 1) + 1)..K
    BY <1>2, <1>6
  <2>2. CASE i = x + 1
    <3>1. place[j] \in (p + 1)..L
      BY <1>5
    <3> QED
      BY <1>2, <1>4, <2>2, <3>1
  <2>3. CASE i # x + 1
    <3>1. i \in ((x + 1) + 1)..K
      BY <1>3, <2>3
    <3> QED
      BY <1>1, <1>4, <1>6, <2>1, <3>1
  <2> QED
    BY <2>2, <2>3
<1>7. ASSUME NEW i \in (x + 1)..K
      PROVE  s[place[i]] \in {"*", "?", name[i]}
  BY <1>1, <1>3, <1>4
<1>8. ASSUME NEW q \in (p + 1)..L, s[q] # "*"
      PROVE  \E i \in (x + 1)..K :
                place[i] = q /\ \A j \in (x + 1)..K : place[j] = q => j = i
  <2>1. CASE q = p + 1
    <3>1. \A j \in (x + 1)..K : place[j] = q => j = x + 1
      BY <1>3, <1>4, <2>1
    <3> QED
      BY <1>3, <1>4, <2>1, <3>1
  <2>2. CASE q # p + 1
    <3>1. PICK i \in ((x + 1) + 1)..K :
               f[i] = q /\ \A j \in ((x + 1) + 1)..K : f[j] = q => j = i
      BY <1>1, <1>3, <1>8, <2>2
    <3>2. \A j \in (x + 1)..K : place[j] = q => j = i
      BY <1>3, <1>4, <2>2, <3>1
    <3> QED
      BY <1>3, <1>4, <3>1, <3>2
  <2> QED
    BY <2>1, <2>2
<1> QED
  BY <1>5, <1>6, <1>7, <1>8 DEF RestMatches, L, K

\* A star stands for as many as one likes.
LEMMA RestWithStar ==
    ASSUME NEW s, NEW name, NEW p, NEW x, NEW y, Len(s) \in Nat, Len(name) \in Nat,
           p \in 0..(Len(s) - 1), x \in 0..Len(name), y \in x..Len(name),
           s[p + 1] = "*", RestMatches(s, name, p + 1, y)
    PROVE  RestMatches(s, name, p, x)
<1> DEFINE L == Len(s)
           K == Len(name)
<1>1. PICK f \in [(y + 1)..K -> ((p + 1) + 1)..L] :
        /\ \A i, j \in (y + 1)..K : i < j => f[i] <= f[j]
        /\ \A i \in (y + 1)..K : s[f[i]] \in {"*", "?", name[i]}
        /\ \A q \in ((p + 1) + 1)..L :
              s[q] # "*" =>
                 \E i \in (y + 1)..K :
                    f[i] = q /\ \A j \in (y + 1)..K : f[j] = q => j = i
  BY DEF RestMatches
<1>2. L \in Nat /\ K \in Nat /\ p \in 0..(L - 1) /\ x \in 0..K /\ y \in x..K
  OBVIOUS
<1> HIDE DEF L, K
<1> DEFINE place == [i \in (x + 1)..K |-> IF i <= y THEN p + 1 ELSE f[i]]
<1>3. /\ p + 1 \in (p + 1)..L
      /\ \A i \in (x + 1)..K : i <= y \/ i \in (y + 1)..K
      /\ \A i \in (y + 1)..K : i \in (x + 1)..K /\ ~(i <= y)
      /\ \A q \in (p + 1)..L : q = p + 1 \/ (q \in ((p + 1) + 1)..L /\ q # p + 1)
      /\ \A q \in ((p + 1) + 1)..L : q \in (p + 1)..L /\ q > p + 1
  BY <1>2
<1>4. /\ \A i \in (x + 1)..K : i <= y => place[i] = p + 1
      /\ \A i \in (y + 1)..K :
            place[i] = f[i] /\ place[i] \in ((p + 1) + 1)..L /\ place[i] # p + 1
  BY <1>2, <1>3
<1>5. place \in [(x + 1)..K -> (p + 1)..L]
  BY <1>3
<1> HIDE DEF place
<1>6. ASSUME NEW i \in (x + 1)..K, NEW j \in (x + 1)..K, i < j
      PROVE  place[i] <= place[j]
  <2>1. CASE i <= y
    <3>1. place[j] \in (p + 1)..L
      BY <1>5
    <3> QED
      BY <1>2, <1>4, <2>1, <3>1
  <2>2. CASE ~(i <= y)
    <3>1. i \in (y + 1)..K /\ j \in (y + 1)..K
      BY <1>2, <1>6, <2>2
    <3> QED
      BY <1>1, <1>4, <1>6, <3>1
  <2> QED
    BY <2>1, <2>2
<1>7. ASSUME NEW i \in (x + 1)..K
      PROVE  s[place[i]] \in {"*", "?", name[i]}
  BY <1>1, <1>3, <1>4
<1>8. ASSUME NEW q \in (p + 1)..L, s[q] # "*"
      PROVE  \E i \in (x + 1)..K :
                place[i] = q /\ \A j \in (x + 1)..K : place[j] = q => j = i
  <2>1. q \in ((p + 1) + 1)..L /\ q # p + 1
    BY <1>3, <1>8
  <2>2. PICK i \in (y + 1)..K :
             f[i] = q /\ \A j \in (y + 1)..K : f[j] = q => j = i
    BY <1>1, <1>8, <2>1
  <2>3. \A j \in (x + 1)..K : place[j] = q => j = i
    BY <1>3, <1>4, <2>1, <2>2
  <2> QED
    BY <1>3, <1>4, <2>2, <2>3
<1> QED
  BY <1>5, <1>6, <1>7, <1>8 DEF RestMatches, L, K

\* A match from somewhere in a segment and somewhere in a name goes through the
\* rest of both together.
LEMMA RestReverse ==
    ASSUME NEW pattern, NEW text, Len(pattern) \in Nat, Len(text) \in Nat,
           NEW s, NEW name, NEW a \in Nat, NEW b \in Nat,
           Spells(pattern, a, s), Spells(text, b, name),
           EndsAt(pattern, a + Len(s)), EndsAt(text, b + Len(name)),
           \A i \in 1..Len(name) : name[i] # Separator,
           \A p \in 1..Len(s) : s[p] # Separator,
           \A p \in 1..(Len(s) - 1) : s[p] # "*" \/ s[p + 1] # "*",
           NEW p \in 0..Len(s), NEW x \in 0..Len(name),
           Matches(pattern, text, a + p + 1, b + x + 1)
    PROVE  /\ RestMatches(s, name, p, x)
           /\ Matches(pattern, text, a + Len(s) + 1, b + Len(name) + 1)
<1> DEFINE L == Len(s)
           K == Len(name)
           Ends == Matches(pattern, text, a + L + 1, b + K + 1)
           Rest(r, y) == RestMatches(s, name, r, y)
<1>1. /\ L \in Nat /\ K \in Nat /\ a + L <= Len(pattern) /\ b + K <= Len(text)
      /\ \A r \in 1..L : pattern[a + r] = s[r] /\ pattern[a + r] # Separator
      /\ \A y \in 1..K : text[b + y] = name[y] /\ text[b + y] # Separator
      /\ \A r \in 1..(L - 1) : s[r] # "*" \/ s[r + 1] # "*"
      /\ EndsAt(pattern, a + L) /\ EndsAt(text, b + K)
      /\ p \in 0..L /\ x \in 0..K
  BY DEF Spells
<1>2. /\ Rest(L, K)
      /\ \A r \in 0..(L - 1), y \in 0..(K - 1) :
            s[r + 1] \in {"?", name[y + 1]} /\ Rest(r + 1, y + 1) => Rest(r, y)
      /\ \A r \in 0..(L - 1), y \in 0..K : \A z \in y..K :
            s[r + 1] = "*" /\ Rest(r + 1, z) => Rest(r, y)
  BY <1>1, NoRest, RestWithChar, RestWithStar
<1> HIDE DEF L, K, Rest, Ends
<1> DEFINE Claim(r) == \A y \in 0..K :
               Matches(pattern, text, a + r + 1, b + y + 1) => Rest(r, y) /\ Ends
           Bad == {u \in 0..L : ~Claim(L - u)}
<1>3. Bad = {}
  <2> SUFFICES ASSUME Bad # {} PROVE FALSE
    OBVIOUS
  <2>1. PICK u \in Bad : \A l \in Bad : u <= l
    <3>1. Bad \subseteq Nat
      OBVIOUS
    <3> HIDE DEF Bad
    <3> QED
      BY <3>1, LeastExists, Zenon
  <2> DEFINE r == L - u
  <2>2. u \in 0..L /\ ~Claim(r)
    BY <2>1
  <2>3. r \in 0..L
    BY <1>1, <2>2
  <2>4. r < L => Claim(r + 1)
    <3> SUFFICES ASSUME r < L
                 PROVE  Claim(r + 1)
      OBVIOUS
    <3>1. u - 1 \in 0..L /\ ~(u <= u - 1) /\ L - (u - 1) = r + 1
      BY <1>1, <2>2
    <3>2. u - 1 \notin Bad
      BY <2>1, <3>1
    <3>3. Claim(L - (u - 1))
      <4> HIDE DEF Claim
      <4> QED
        BY <3>1, <3>2
    <3> HIDE DEF Claim
    <3> QED
      BY <3>1, <3>3
  <2>5. PICK y \in 0..K : /\ Matches(pattern, text, a + r + 1, b + y + 1)
                          /\ ~(Rest(r, y) /\ Ends)
    <3> HIDE DEF r
    <3> QED
      BY <2>2
  <2> HIDE DEF r, Bad
  <2> DEFINE i == a + r + 1
             j == b + y + 1
  <2>6. j \in 1..(Len(text) + 1) /\ i \in 1..(Len(pattern) + 1)
    BY <1>1, <2>3, <2>5
  <2>7. CASE r = L
    <3>1. y = K
      <4>1. CASE a + L < Len(pattern)
        <5>1. i \in 1..Len(pattern) /\ pattern[i] = Separator
          BY <1>1, <2>6, <2>7, <4>1 DEF EndsAt
        <5> HIDE DEF i, j
        <5>2. j <= Len(text) /\ text[j] = Separator
          <6>1. Matches(pattern, text, i, j)
            BY <2>5 DEF i, j
          <6> QED
            BY <2>6, <5>1, <6>1, MatchesSeparator
        <5>3. y < K => y + 1 \in 1..K /\ j = b + (y + 1)
          BY <1>1, <2>5 DEF j
        <5>4. ~(y < K)
          BY <1>1, <5>2, <5>3
        <5> QED
          BY <1>1, <2>5, <5>4
      <4>2. CASE ~(a + L < Len(pattern))
        <5>1. i = Len(pattern) + 1
          <6>1. a + L = Len(pattern)
            BY <1>1, <4>2
          <6> QED
            BY <2>7, <6>1
        <5> HIDE DEF i, j
        <5>2. j = Len(text) + 1
          <6>1. Matches(pattern, text, Len(pattern) + 1, j)
            BY <2>5, <5>1 DEF i, j
          <6> QED
            BY <2>6, <6>1, MatchesEnd
        <5> QED
          BY <1>1, <2>5, <5>2 DEF j
      <4> QED
        BY <4>1, <4>2
    <3>2. Rest(r, y) /\ Ends
      BY <1>2, <2>5, <2>7, <3>1 DEF Ends
    <3> QED
      BY <2>5, <3>2
  <2>8. CASE r < L
    <3>1. /\ i \in 1..Len(pattern) /\ r + 1 \in 1..L /\ r \in 0..(L - 1)
          /\ a + (r + 1) = i /\ a + (r + 1) + 1 = i + 1
      BY <1>1, <2>3, <2>8
    <3>2. pattern[i] = s[r + 1] /\ s[r + 1] # Separator
      BY <1>1, <3>1
    <3>3. Claim(r + 1)
      BY <2>4, <2>8
    <3>4. b + K + 1 <= Len(text) => text[b + K + 1] = Separator
      BY <1>1 DEF EndsAt
    <3>5. CASE s[r + 1] # "*"
      <4>1. /\ j <= Len(text) /\ Stands(pattern[i], text[j])
            /\ Matches(pattern, text, i + 1, j + 1)
        <5>1. Matches(pattern, text, i, j)
          BY <2>5
        <5> HIDE DEF i, j
        <5> QED
          BY <2>6, <3>1, <3>2, <3>5, <5>1, MatchesChar
      <4>2. text[j] # Separator
        BY <3>2, <4>1 DEF Stands
      <4>3. y \in 0..(K - 1) /\ y + 1 \in 1..K /\ y + 1 \in 0..K /\ j = b + (y + 1)
            /\ b + (y + 1) + 1 = j + 1
        <5>1. y # K
          BY <3>4, <4>1, <4>2
        <5> QED
          BY <1>1, <2>5, <5>1
      <4>4. s[r + 1] \in {"?", name[y + 1]}
        <5>1. text[j] = name[y + 1]
          BY <1>1, <4>3
        <5> HIDE DEF i, j
        <5> QED
          BY <3>2, <4>1, <5>1 DEF Stands
      <4>5. Rest(r + 1, y + 1) /\ Ends
        <5>1. Matches(pattern, text, a + (r + 1) + 1, b + (y + 1) + 1)
          BY <3>1, <4>1, <4>3
        <5> QED
          BY <3>3, <4>3, <5>1
      <4> QED
        BY <1>2, <2>5, <3>1, <4>3, <4>4, <4>5
    <3>6. CASE s[r + 1] = "*"
      <4>1. ~(i < Len(pattern) /\ pattern[i + 1] = "*")
        <5>1. CASE r + 1 = L
          <6>1. a + L = i
            BY <3>1, <5>1
          <6> QED
            BY <1>1, <6>1 DEF EndsAt, Separator
        <5>2. CASE r + 1 # L
          <6>1. r + 1 \in 1..(L - 1) /\ (r + 1) + 1 \in 1..L /\ a + ((r + 1) + 1) = i + 1
            BY <1>1, <3>1, <5>2
          <6>2. pattern[i + 1] = s[(r + 1) + 1]
            BY <1>1, <6>1
          <6> QED
            BY <1>1, <3>6, <6>1, <6>2
        <5> QED
          BY <5>1, <5>2
      <4>2. PICK k \in j..(Len(text) + 1) :
                 StarReaches(text, j, k) /\ Matches(pattern, text, i + 1, k)
        <5>1. Matches(pattern, text, i, j)
          BY <2>5
        <5> HIDE DEF i, j
        <5> QED
          BY <2>6, <3>1, <3>2, <3>6, <4>1, <5>1, MatchesStar
      <4> DEFINE z == k - b - 1
      <4>3. z \in y..K /\ z \in 0..K /\ b + z + 1 = k
        <5>1. k <= b + K + 1
          <6> SUFFICES ASSUME k > b + K + 1
                       PROVE  FALSE
            BY <1>1, <2>6, <4>2
          <6>1. b + K + 1 \in j..(k - 1) /\ b + K + 1 <= Len(text)
            BY <1>1, <2>5, <2>6, <4>2
          <6>2. text[b + K + 1] # Separator
            BY <4>2, <6>1 DEF StarReaches
          <6> QED
            BY <3>4, <6>1, <6>2
        <5> QED
          BY <1>1, <2>5, <2>6, <4>2, <5>1
      <4>4. Rest(r + 1, z) /\ Ends
        <5>1. Matches(pattern, text, a + (r + 1) + 1, b + z + 1)
          BY <3>1, <4>2, <4>3
        <5> HIDE DEF z
        <5> QED
          BY <3>3, <4>3, <5>1
      <4> HIDE DEF z
      <4> QED
        BY <1>2, <2>5, <3>1, <3>6, <4>3, <4>4
    <3> QED
      BY <3>5, <3>6
  <2> QED
    BY <1>1, <2>3, <2>7, <2>8
<1>4. L - p \in 0..L /\ L - (L - p) = p
  BY <1>1
<1>5. Claim(L - (L - p))
  <2> HIDE DEF Claim
  <2> QED
    BY <1>3, <1>4
<1>6. Claim(p)
  <2> HIDE DEF Claim
  <2> QED
    BY <1>4, <1>5
<1>7. Rest(p, x) /\ Ends
  BY <1>1, <1>6
<1> QED
  BY <1>7 DEF Rest, Ends, L, K

\* Where a star begins the segment, a match that begins within the name is as
\* good as one from the start of it.
LEMMA NameReverse ==
    ASSUME NEW pattern, NEW text, Len(pattern) \in Nat, Len(text) \in Nat,
           NEW s, NEW name, NEW a \in Nat, NEW b \in Nat,
           Spells(pattern, a, s), Spells(text, b, name),
           EndsAt(pattern, a + Len(s)), EndsAt(text, b + Len(name)),
           \A i \in 1..Len(name) : name[i] # Separator,
           \A p \in 1..Len(s) : s[p] # Separator,
           \A p \in 1..(Len(s) - 1) : s[p] # "*" \/ s[p + 1] # "*",
           NEW x \in 0..Len(name), x = 0 \/ (Len(s) > 0 /\ s[1] = "*"),
           Matches(pattern, text, a + 1, b + x + 1)
    PROVE  /\ NameMatches(s, name)
           /\ Matches(pattern, text, a + Len(s) + 1, b + Len(name) + 1)
<1> DEFINE L == Len(s)
           K == Len(name)
<1>1. L \in Nat /\ K \in Nat /\ 0 \in 0..L /\ a + 0 + 1 = a + 1 /\ 0 + 1 = 1
  BY DEF Spells
<1>2. /\ RestMatches(s, name, 0, x)
      /\ Matches(pattern, text, a + L + 1, b + K + 1)
  <2>1. Matches(pattern, text, a + 0 + 1, b + x + 1)
    BY <1>1
  <2> HIDE DEF L, K
  <2> QED
    BY <1>1, <2>1, RestReverse DEF L, K
<1>3. PICK f \in [(x + 1)..K -> 1..L] :
        /\ \A i, j \in (x + 1)..K : i < j => f[i] <= f[j]
        /\ \A i \in (x + 1)..K : s[f[i]] \in {"*", "?", name[i]}
        /\ \A q \in 1..L :
              s[q] # "*" =>
                 \E i \in (x + 1)..K :
                    f[i] = q /\ \A j \in (x + 1)..K : f[j] = q => j = i
  <2> DEFINE one == 0 + 1
  <2>1. one = 1
    OBVIOUS
  <2> HIDE DEF one
  <2>2. \E f \in [(x + 1)..K -> one..L] :
          /\ \A i, j \in (x + 1)..K : i < j => f[i] <= f[j]
          /\ \A i \in (x + 1)..K : s[f[i]] \in {"*", "?", name[i]}
          /\ \A q \in one..L :
                s[q] # "*" =>
                   \E i \in (x + 1)..K :
                      f[i] = q /\ \A j \in (x + 1)..K : f[j] = q => j = i
    BY <1>2, Zenon DEF RestMatches, one
  <2> QED
    BY <2>1, <2>2
<1>4. x \in 0..K /\ (x = 0 \/ (L > 0 /\ s[1] = "*"))
  OBVIOUS
<1> HIDE DEF L, K
<1> DEFINE place == [i \in 1..K |-> IF i <= x THEN 1 ELSE f[i]]
<1>5. /\ \A i \in 1..K : i <= x \/ i \in (x + 1)..K
      /\ \A i \in (x + 1)..K : i \in 1..K /\ ~(i <= x)
      /\ \A i \in 1..K : i <= x => 1 \in 1..L /\ s[1] = "*"
  BY <1>1, <1>4
<1>6. /\ \A i \in 1..K : i <= x => place[i] = 1
      /\ \A i \in (x + 1)..K : place[i] = f[i] /\ place[i] \in 1..L
  BY <1>5
<1>7. place \in [1..K -> 1..L]
  BY <1>5
<1> HIDE DEF place
<1>8. ASSUME NEW i \in 1..K, NEW j \in 1..K, i < j
      PROVE  place[i] <= place[j]
  <2>1. CASE i <= x
    <3>1. place[j] \in 1..L
      BY <1>7
    <3> QED
      BY <1>6, <2>1, <3>1
  <2>2. CASE ~(i <= x)
    <3>1. i \in (x + 1)..K /\ j \in (x + 1)..K
      BY <1>1, <1>4, <1>8, <2>2
    <3> QED
      BY <1>3, <1>6, <1>8, <3>1
  <2> QED
    BY <2>1, <2>2
<1>9. ASSUME NEW i \in 1..K
      PROVE  s[place[i]] \in {"*", "?", name[i]}
  BY <1>3, <1>5, <1>6
<1>10. ASSUME NEW q \in 1..L, s[q] # "*"
       PROVE  \E i \in 1..K :
                 place[i] = q /\ \A j \in 1..K : place[j] = q => j = i
  <2>1. PICK i \in (x + 1)..K :
             f[i] = q /\ \A j \in (x + 1)..K : f[j] = q => j = i
    BY <1>3, <1>10
  <2>2. \A j \in 1..K : place[j] = q => j = i
    <3>1. \A j \in 1..K : j <= x => place[j] # q
      BY <1>5, <1>6, <1>10
    <3> QED
      BY <1>5, <1>6, <2>1, <3>1
  <2> QED
    BY <1>5, <1>6, <2>1, <2>2
<1>11. NameMatches(s, name)
  BY <1>7, <1>8, <1>9, <1>10 DEF NameMatches, L, K
<1> QED
  BY <1>2, <1>11 DEF L, K

-----------------------------------------------------------------------------
(* What is written. *)

\* Is v what w becomes by a separator and s?
Joins(v, w, s) ==
    /\ Len(v) = Len(w) + 1 + Len(s)
    /\ \A i \in 1..Len(w) : v[i] = w[i]
    /\ v[Len(w) + 1] = Separator
    /\ \A p \in 1..Len(s) : v[Len(w) + 1 + p] = s[p]

\* It is what the concatenation is.
LEMMA JoinedIs ==
    ASSUME NEW D, Separator \in D, NEW w \in Seq(D), NEW s \in Seq(D)
    PROVE  /\ w \o <<Separator>> \o s \in Seq(D)
           /\ Joins(w \o <<Separator>> \o s, w, s)
<1> DEFINE u == w \o <<Separator>>
           v == u \o s
<1>1. u \in Seq(D) /\ Len(u) = Len(w) + 1
  OBVIOUS
<1>2. \A i \in 1..Len(w) : u[i] = w[i]
  OBVIOUS
<1>3. u[Len(w) + 1] = Separator
  OBVIOUS
<1> HIDE DEF u
<1>4. v \in Seq(D) /\ Len(v) = Len(u) + Len(s)
  BY <1>1
<1>5. \A i \in 1..Len(u) : v[i] = u[i]
  BY <1>1
<1>6. \A p \in 1..Len(s) : v[Len(u) + p] = s[p]
  BY <1>1
<1>7. Len(w) \in Nat
  OBVIOUS
<1> HIDE DEF v
<1>8. Joins(v, w, s)
  BY <1>1, <1>2, <1>3, <1>4, <1>5, <1>6, <1>7 DEF Joins
<1> QED
  BY <1>4, <1>8 DEF v, u

\* Does v begin with w?
Begins(v, w) == Len(w) <= Len(v) /\ \A i \in 1..Len(w) : v[i] = w[i]

\* What w begins with, v does too.
LEMMA BeginsOn ==
    ASSUME NEW v, NEW w, NEW s, NEW u, Len(w) \in Nat, Len(s) \in Nat, Len(u) \in Nat,
           Joins(v, w, s), Begins(w, u)
    PROVE  Begins(v, u)
  BY DEF Joins, Begins

\* Where the segment is in what begins with v.
LEMMA JoinedSpells ==
    ASSUME NEW v, NEW w, NEW s, NEW text, Len(w) \in Nat, Len(s) \in Nat,
           Len(text) \in Nat, Joins(v, w, s), Begins(text, v)
    PROVE  /\ text[Len(w) + 1] = Separator
           /\ Spells(text, Len(w) + 1, s)
<1> DEFINE l == Len(w)
           m == Len(s)
<1>1. /\ l \in Nat /\ m \in Nat /\ Len(v) = l + 1 + m /\ v[l + 1] = Separator
      /\ \A p \in 1..m : v[l + 1 + p] = s[p]
  BY DEF Joins
<1>2. l + 1 + m <= Len(text) /\ \A i \in 1..(l + 1 + m) : text[i] = v[i]
  BY <1>1 DEF Begins
<1> HIDE DEF l, m
<1>3. text[l + 1] = Separator
  <2>1. l + 1 \in 1..(l + 1 + m)
    BY <1>1
  <2> QED
    BY <1>1, <1>2, <2>1
<1>4. ASSUME NEW p \in 1..m
      PROVE  text[l + 1 + p] = s[p]
  <2>1. l + 1 + p \in 1..(l + 1 + m)
    BY <1>1
  <2> QED
    BY <1>1, <1>2, <2>1
<1>5. l + 1 \in Nat
  BY <1>1
<1> QED
  BY <1>1, <1>2, <1>3, <1>4, <1>5 DEF Spells, l, m

\* Where each segment ends in what is written.
Laid(segs, ends) ==
    /\ ends \in [0..Len(segs) -> Nat]
    /\ ends[0] = 0 /\ ends[Len(segs)] = Len(Written(segs))
    /\ \A q \in 1..Len(segs) :
          /\ ends[q] = ends[q - 1] + 1 + Len(segs[q])
          /\ Written(segs)[ends[q - 1] + 1] = Separator
          /\ Spells(Written(segs), ends[q - 1] + 1, segs[q])
    /\ \A h, q \in 0..Len(segs) : h <= q => ends[h] <= ends[q]

\* What is written of a path grows by a separator and a segment at a time.
LEMMA WrittenSteps ==
    ASSUME NEW C, NEW segs \in Seq(Seq(C))
    PROVE  \E f \in [0..Len(segs) -> Seq(C \cup {Separator})] :
              /\ f[0] = <<>> /\ f[Len(segs)] = Written(segs)
              /\ \A q \in 1..Len(segs) : f[q] = f[q - 1] \o <<Separator>> \o segs[q]
<1> DEFINE n == Len(segs)
           D == C \cup {Separator}
           Joined(w, q) == w \o <<Separator>> \o segs[q]
           Out(f) == f = [q \in 0..n |-> IF q = 0 THEN <<>> ELSE Joined(f[q - 1], q)]
           G == [q \in 1..n |-> [w \in Seq(D) |-> Joined(w, q)]]
           f == CHOOSE h : Out(h)
<1>1. n \in Nat /\ <<>> \in Seq(D) /\ Separator \in D
  OBVIOUS
<1>2. ASSUME NEW q \in 1..n
      PROVE  segs[q] \in Seq(D) /\ Len(segs[q]) \in Nat
  <2>1. segs[q] \in Seq(C) /\ C \subseteq D
    OBVIOUS
  <2> QED
    BY <2>1, SeqMonotonic
<1>3. ASSUME NEW q \in 1..n, NEW w \in Seq(D)
      PROVE  Joined(w, q) \in Seq(D) /\ Joins(Joined(w, q), w, segs[q])
  <2> DEFINE s == segs[q]
             v == w \o <<Separator>> \o s
  <2>1. s \in Seq(D)
    BY <1>2
  <2> HIDE DEF s, D
  <2>2. v \in Seq(D) /\ Joins(v, w, s)
    BY <1>1, <2>1, JoinedIs
  <2> QED
    BY <2>2 DEF s
<1>4. \E h \in [0..n -> Seq(D)] :
         h = [q \in 0..n |-> IF q = 0 THEN <<>> ELSE G[q][h[q - 1]]]
  <2> DEFINE texts == Seq(D)
             empty == <<>>
  <2>1. empty \in texts /\ G \in [1..n -> [texts -> texts]]
    <3> HIDE DEF n, D, Joined
    <3> QED
      BY <1>1, <1>3
  <2> HIDE DEF G, n, D, texts, empty
  <2>2. \E h \in [0..n -> texts] : Recursion(h, n, empty, G)
    BY <1>1, <2>1, RecursionDefines, Zenon
  <2> QED
    BY <2>2 DEF texts, empty, Recursion
<1>5. PICK h \in [0..n -> Seq(D)] :
         h = [q \in 0..n |-> IF q = 0 THEN <<>> ELSE G[q][h[q - 1]]]
  BY <1>4
<1>6. Out(h)
  <2>1. \A q \in 1..n : G[q][h[q - 1]] = Joined(h[q - 1], q)
    <3> SUFFICES ASSUME NEW q \in 1..n
                 PROVE  G[q][h[q - 1]] = Joined(h[q - 1], q)
      OBVIOUS
    <3>1. q - 1 \in 0..n
      BY <1>1
    <3>2. h[q - 1] \in Seq(D)
      BY <1>5, <3>1
    <3> HIDE DEF n, D, Joined
    <3> QED
      BY <3>2
  <2> HIDE DEF G, n, Joined
  <2>2. \A q \in 0..n : q # 0 => q \in 1..n
    BY <1>1
  <2>3. h = [q \in 0..n |-> IF q = 0 THEN <<>> ELSE Joined(h[q - 1], q)]
    BY <1>5, <2>1, <2>2
  <2> QED
    BY <2>3 DEF Joined
<1>7. Out(f)
  <2> HIDE DEF Out
  <2> QED
    BY <1>6, Zenon
<1>8. Written(segs) = f[n]
  BY DEF Written
<1> HIDE DEF f
<1>9. f[0] = <<>> /\ \A q \in 1..n : f[q] = Joined(f[q - 1], q)
  <2> HIDE DEF n, Joined
  <2>1. 0 \in 0..n /\ \A q \in 1..n : q \in 0..n /\ q # 0
    BY <1>1
  <2> QED
    BY <1>7, <2>1
<1> HIDE DEF n, D, G, Out
<1>10. ASSUME NEW q \in 0..n
       PROVE  f[q] = h[q]
  <2> DEFINE Same == {k \in 0..n : f[k] = h[k]}
  <2>1. 0 \in Same
    <3>1. 0 \in 0..n
      BY <1>1
    <3>2. h[0] = <<>>
      BY <1>6, <3>1 DEF Out
    <3> QED
      BY <1>9, <3>1, <3>2
  <2>2. ASSUME NEW k \in 1..n, k - 1 \in Same
        PROVE  k \in Same
    <3>1. k \in 0..n /\ k # 0
      BY <1>1
    <3>2. h[k] = Joined(h[k - 1], k)
      <4> HIDE DEF Joined
      <4> QED
        BY <1>6, <3>1 DEF Out
    <3>3. f[k - 1] = h[k - 1]
      BY <2>2
    <3> QED
      BY <1>9, <3>1, <3>2, <3>3
  <2> HIDE DEF Same, Joined
  <2>3. 0..n \subseteq Same
    BY <1>1, <2>1, <2>2, RangeInduction
  <2> QED
    BY <2>3 DEF Same
<1>11. h[0] = <<>> /\ h[n] = Written(segs)
       /\ \A q \in 1..n : h[q] = Joined(h[q - 1], q)
  <2>1. 0 \in 0..n /\ n \in 0..n /\ \A q \in 1..n : q \in 0..n /\ q - 1 \in 0..n
    BY <1>1
  <2> HIDE DEF Joined
  <2> QED
    BY <1>8, <1>9, <1>10, <2>1
<1> QED
  BY <1>5, <1>11 DEF n, D

\* The characters are those of the segments, each behind a separator.
LEMMA LaidOut ==
    ASSUME NEW C, NEW segs \in Seq(Seq(C))
    PROVE  Written(segs) \in Seq(C \cup {Separator}) /\ \E ends : Laid(segs, ends)
<1> DEFINE n == Len(segs)
           D == C \cup {Separator}
           Joined(w, q) == w \o <<Separator>> \o segs[q]
<1>1. n \in Nat /\ <<>> \in Seq(D) /\ Separator \in D
  OBVIOUS
<1>2. ASSUME NEW q \in 1..n
      PROVE  segs[q] \in Seq(D) /\ Len(segs[q]) \in Nat
  <2>1. segs[q] \in Seq(C) /\ C \subseteq D
    OBVIOUS
  <2> QED
    BY <2>1, SeqMonotonic
<1>3. ASSUME NEW q \in 1..n, NEW w \in Seq(D)
      PROVE  Joined(w, q) \in Seq(D) /\ Joins(Joined(w, q), w, segs[q])
  <2> DEFINE s == segs[q]
             v == w \o <<Separator>> \o s
  <2>1. s \in Seq(D)
    BY <1>2
  <2> HIDE DEF s, D
  <2>2. v \in Seq(D) /\ Joins(v, w, s)
    BY <1>1, <2>1, JoinedIs
  <2> QED
    BY <2>2 DEF s
<1>4. PICK f \in [0..n -> Seq(D)] :
         /\ f[0] = <<>> /\ f[n] = Written(segs)
         /\ \A q \in 1..n : f[q] = Joined(f[q - 1], q)
  BY WrittenSteps
<1>8. Written(segs) = f[n]
  BY <1>4
<1>9. f[0] = <<>> /\ \A q \in 1..n : f[q] = Joined(f[q - 1], q)
  BY <1>4
<1> HIDE DEF Joined, D, n
<1> DEFINE Good(q) == f[q] \in Seq(D) /\ \A g \in 0..q : Begins(f[q], f[g])
           Bad == {q \in 0..n : ~Good(q)}
<1>10. Bad = {}
  <2> SUFFICES ASSUME Bad # {} PROVE FALSE
    OBVIOUS
  <2>1. PICK k \in Bad : \A l \in Bad : k <= l
    <3>1. Bad \subseteq Nat
      OBVIOUS
    <3> HIDE DEF Bad
    <3> QED
      BY <3>1, LeastExists, Zenon
  <2>2. k \in 0..n /\ ~Good(k)
    BY <2>1
  <2>3. CASE k = 0
    <3>1. f[0] \in Seq(D) /\ Begins(f[0], f[0]) /\ \A g \in 0..0 : g = 0
      <4>1. Len(f[0]) = 0
        BY <1>9
      <4> QED
        BY <1>1, <1>9, <4>1 DEF Begins
    <3>2. Good(0)
      BY <3>1
    <3> QED
      BY <2>2, <2>3, <3>2
  <2>4. CASE k # 0
    <3>1. k \in 1..n /\ k - 1 \in 0..n /\ ~(k <= k - 1)
      BY <1>1, <2>2, <2>4
    <3>2. Good(k - 1)
      <4>1. k - 1 \notin Bad
        BY <2>1, <3>1
      <4> HIDE DEF Good
      <4> QED
        BY <3>1, <4>1
    <3>3. f[k - 1] \in Seq(D) /\ f[k] = Joined(f[k - 1], k)
      BY <1>9, <3>1, <3>2
    <3>4. /\ f[k] \in Seq(D) /\ Joins(f[k], f[k - 1], segs[k])
          /\ Len(segs[k]) \in Nat /\ Len(f[k - 1]) \in Nat /\ Len(f[k]) \in Nat
      <4>1. /\ Joined(f[k - 1], k) \in Seq(D)
            /\ Joins(Joined(f[k - 1], k), f[k - 1], segs[k])
        BY <1>3, <3>1, <3>3, Zenon
      <4>2. f[k] \in Seq(D) /\ Joins(f[k], f[k - 1], segs[k])
        BY <3>3, <4>1
      <4> QED
        BY <1>2, <3>1, <3>3, <4>2
    <3>5. ASSUME NEW g \in 0..k
          PROVE  Begins(f[k], f[g])
      <4>1. CASE g = k
        BY <3>4, <4>1 DEF Begins
      <4>2. CASE g # k
        <5>1. g \in 0..(k - 1) /\ g \in 0..n /\ ~(k <= g)
          BY <1>1, <3>1, <4>2
        <5>2. Begins(f[k - 1], f[g])
          BY <3>2, <5>1
        <5>3. Good(g)
          <6>1. g \notin Bad
            BY <2>1, <5>1
          <6> HIDE DEF Good
          <6> QED
            BY <5>1, <6>1
        <5>4. Len(f[g]) \in Nat
          <6>1. f[g] \in Seq(D)
            BY <5>3
          <6> QED
            BY <6>1
        <5> QED
          BY <3>4, <5>2, <5>4, BeginsOn
      <4> QED
        BY <4>1, <4>2
    <3>6. Good(k)
      BY <3>4, <3>5
    <3> QED
      BY <2>2, <3>6
  <2> QED
    BY <2>3, <2>4
<1>11. ASSUME NEW q \in 0..n
       PROVE  f[q] \in Seq(D) /\ Len(f[q]) \in Nat /\ \A g \in 0..q : Begins(f[q], f[g])
  <2>1. Good(q)
    <3> HIDE DEF Good
    <3> QED
      BY <1>10
  <2> QED
    BY <2>1
<1> DEFINE ends == [q \in 0..n |-> Len(f[q])]
           W == Written(segs)
<1>12. ends \in [0..n -> Nat] /\ ends[0] = 0 /\ ends[n] = Len(W)
  <2>1. 0 \in 0..n /\ n \in 0..n
    BY <1>1
  <2>2. Len(f[0]) = 0
    BY <1>9
  <2> QED
    BY <1>8, <1>11, <2>1, <2>2
<1>13. ASSUME NEW q \in 1..n
       PROVE  /\ ends[q] = ends[q - 1] + 1 + Len(segs[q])
              /\ W[ends[q - 1] + 1] = Separator
              /\ Spells(W, ends[q - 1] + 1, segs[q])
  <2>1. q \in 0..n /\ q - 1 \in 0..n /\ n \in 0..n /\ q \in 0..n
    BY <1>1
  <2>2. f[q - 1] \in Seq(D) /\ f[q] = Joined(f[q - 1], q) /\ Len(f[q - 1]) \in Nat
    BY <1>9, <1>11, <2>1
  <2>3. Joins(f[q], f[q - 1], segs[q]) /\ Len(segs[q]) \in Nat
    BY <1>2, <1>3, <2>2
  <2>4. Begins(W, f[q]) /\ Len(W) \in Nat
    <3> HIDE DEF W
    <3>1. \A g \in 0..n : Begins(f[n], f[g])
      BY <1>11, <2>1
    <3> QED
      BY <1>8, <1>11, <2>1, <3>1 DEF W
  <2>5. ends[q] = Len(f[q]) /\ ends[q - 1] = Len(f[q - 1])
    BY <2>1
  <2> HIDE DEF ends, W
  <2>6. W[Len(f[q - 1]) + 1] = Separator /\ Spells(W, Len(f[q - 1]) + 1, segs[q])
    BY <2>2, <2>3, <2>4, JoinedSpells
  <2>7. Len(f[q]) = Len(f[q - 1]) + 1 + Len(segs[q])
    BY <2>3 DEF Joins
  <2> QED
    BY <2>5, <2>6, <2>7
<1>14. ASSUME NEW g \in 0..n, NEW q \in 0..n, g <= q
       PROVE  ends[g] <= ends[q]
  <2>1. g \in 0..q
    BY <1>14
  <2>2. Begins(f[q], f[g])
    BY <1>11, <2>1
  <2> QED
    BY <2>2 DEF Begins
<1> HIDE DEF ends, W
<1>15. Laid(segs, ends)
  BY <1>12, <1>13, <1>14 DEF Laid, n, W
<1>16. W \in Seq(D)
  <2>1. n \in 0..n
    BY <1>1
  <2> QED
    BY <1>8, <1>11, <2>1 DEF W
<1> QED
  BY <1>15, <1>16 DEF W, D

\* What is written of two paths in a row is written in a row.
LEMMA WrittenJoined ==
    ASSUME NEW C, NEW a \in Seq(Seq(C)), NEW b \in Seq(Seq(C))
    PROVE  Written(a \o b) = Written(a) \o Written(b)
<1> DEFINE S == Seq(C)
           D == C \cup {Separator}
           T == Seq(D)
           m == Len(a)
           n == Len(b)
           ab == a \o b
           Sep == <<Separator>>
<1>1. /\ m \in Nat /\ n \in Nat
      /\ ab \in Seq(S) /\ Len(ab) = m + n
      /\ \A q \in 1..m : ab[q] = a[q]
      /\ \A q \in 1..n : ab[m + q] = b[q]
  <2>1. a \in Seq(S) /\ b \in Seq(S)
    OBVIOUS
  <2> HIDE DEF S
  <2> QED
    BY <2>1
<1>2. PICK f \in [0..(m + n) -> T] :
         /\ f[0] = <<>> /\ f[m + n] = Written(ab)
         /\ \A q \in 1..(m + n) : f[q] = f[q - 1] \o Sep \o ab[q]
  <2>1. ab \in Seq(Seq(C))
    BY <1>1
  <2> HIDE DEF ab, m, n
  <2>2. \E f \in [0..Len(ab) -> T] :
           /\ f[0] = <<>> /\ f[Len(ab)] = Written(ab)
           /\ \A q \in 1..Len(ab) : f[q] = f[q - 1] \o Sep \o ab[q]
    BY <2>1, WrittenSteps, Zenon
  <2> QED
    BY <1>1, <2>2, Zenon
<1>3. PICK g \in [0..m -> T] :
         /\ g[0] = <<>> /\ g[m] = Written(a)
         /\ \A q \in 1..m : g[q] = g[q - 1] \o Sep \o a[q]
  BY WrittenSteps
<1>4. PICK h \in [0..n -> T] :
         /\ h[0] = <<>> /\ h[n] = Written(b)
         /\ \A q \in 1..n : h[q] = h[q - 1] \o Sep \o b[q]
  BY WrittenSteps
<1>5. Sep \in T /\ <<>> \in T /\ \A q \in 1..n : b[q] \in T
  <2>1. \A q \in 1..n : b[q] \in Seq(C)
    OBVIOUS
  <2>2. C \subseteq D
    OBVIOUS
  <2> QED
    BY <2>1, <2>2, SeqMonotonic
<1> HIDE DEF S, T, D, m, n, ab, Sep
<1>6. f[m] = Written(a)
  <2> DEFINE Same == {q \in 0..m : f[q] = g[q]}
  <2>1. 0 \in Same
    BY <1>1, <1>2, <1>3
  <2>2. ASSUME NEW k \in 1..m, k - 1 \in Same
        PROVE  k \in Same
    <3>1. k \in 0..m /\ k \in 1..(m + n) /\ f[k - 1] = g[k - 1] /\ ab[k] = a[k]
      BY <1>1, <2>2
    <3> QED
      BY <1>2, <1>3, <3>1
  <2> HIDE DEF Same
  <2>3. 0..m \subseteq Same
    BY <1>1, <2>1, <2>2, RangeInduction
  <2>4. m \in Same
    BY <1>1, <2>3
  <2> QED
    BY <1>3, <2>4 DEF Same
<1>7. f[m] \in T /\ \A q \in 0..n : h[q] \in T
  BY <1>1, <1>2, <1>4
<1>8. f[m + n] = f[m] \o h[n]
  <2> DEFINE Same == {q \in 0..n : f[m + q] = f[m] \o h[q]}
  <2>1. 0 \in Same
    <3>1. m + 0 = m /\ 0 \in 0..n
      BY <1>1
    <3>2. f[m] \o <<>> = f[m]
      BY <1>7, ConcatEmptySeq DEF T
    <3> QED
      BY <1>4, <3>1, <3>2
  <2>2. ASSUME NEW k \in 1..n, k - 1 \in Same
        PROVE  k \in Same
    <3> DEFINE j == m + k
               first == f[m]
               mid == h[k - 1]
               last == b[k]
    <3>1. k \in 0..n /\ k - 1 \in 0..n /\ j \in 1..(m + n) /\ j - 1 = m + (k - 1)
      BY <1>1
    <3>2. f[j - 1] = first \o mid
      BY <2>2, <3>1
    <3>3. ab[j] = last
      BY <1>1
    <3>4. h[k] = (mid \o Sep) \o last
      BY <1>4
    <3>5. first \in Seq(D) /\ mid \in Seq(D) /\ last \in Seq(D) /\ Sep \in Seq(D)
      BY <1>5, <1>7, <3>1 DEF T
    <3> HIDE DEF j, first, mid, last
    <3>6. f[j] = (f[j - 1] \o Sep) \o ab[j]
      BY <1>2, <3>1
    <3>7. f[j] = ((first \o mid) \o Sep) \o last
      BY <3>2, <3>3, <3>6
    <3>8. mid \o Sep \in Seq(D)
      BY <3>5, ConcatProperties
    <3>9. (first \o mid) \o Sep = first \o (mid \o Sep)
      BY <3>5, ConcatAssociative
    <3>10. (first \o (mid \o Sep)) \o last = first \o ((mid \o Sep) \o last)
      <4> DEFINE ending == mid \o Sep
      <4>1. ending \in Seq(D)
        BY <3>8
      <4> HIDE DEF ending
      <4>2. (first \o ending) \o last = first \o (ending \o last)
        <5>1. first \in Seq(D) /\ last \in Seq(D)
          BY <3>5
        <5> QED
          BY <4>1, <5>1, ConcatAssociative, SMTT(30)
      <4> QED
        BY <4>2 DEF ending
    <3>11. f[j] = first \o h[k]
      BY <3>4, <3>7, <3>9, <3>10
    <3> QED
      BY <3>1, <3>11 DEF j, first
  <2> HIDE DEF Same
  <2>3. 0..n \subseteq Same
    BY <1>1, <2>1, <2>2, RangeInduction
  <2>4. n \in Same
    BY <1>1, <2>3
  <2> QED
    BY <2>4 DEF Same
<1> QED
  BY <1>2, <1>4, <1>6, <1>8 DEF ab, n

\* What is written of one segment, and of none.
LEMMA WrittenOne ==
    ASSUME NEW C, NEW s \in Seq(C)
    PROVE  Written(<<s>>) = <<Separator>> \o s /\ Written(<<>>) = <<>>
<1> DEFINE S == Seq(C)
           D == C \cup {Separator}
           T == Seq(D)
<1>1. <<s>> \in Seq(S) /\ Len(<<s>>) = 1 /\ <<s>>[1] = s
      /\ <<>> \in Seq(S) /\ Len(<<>>) = 0
  <2> HIDE DEF S
  <2>1. s \in S
    BY DEF S
  <2> QED
    BY <2>1
<1>2. PICK f \in [0..1 -> T] :
         /\ f[0] = <<>> /\ f[1] = Written(<<s>>)
         /\ \A q \in 1..1 : f[q] = f[q - 1] \o <<Separator>> \o <<s>>[q]
  <2> DEFINE segs == <<s>>
  <2>1. segs \in Seq(Seq(C)) /\ Len(segs) = 1
    BY <1>1
  <2> HIDE DEF segs
  <2>2. \E f \in [0..Len(segs) -> T] :
           /\ f[0] = <<>> /\ f[Len(segs)] = Written(segs)
           /\ \A q \in 1..Len(segs) : f[q] = f[q - 1] \o <<Separator>> \o segs[q]
    BY <2>1, WrittenSteps, Zenon
  <2> QED
    BY <2>1, <2>2, Zenon DEF segs
<1>3. PICK g \in [0..0 -> T] : g[0] = <<>> /\ g[0] = Written(<<>>)
  BY <1>1, WrittenSteps
<1>4. f[1] = (<<>> \o <<Separator>>) \o s
  <2>1. 1 \in 1..1 /\ 1 - 1 = 0
    OBVIOUS
  <2> QED
    BY <1>1, <1>2, <2>1
<1>5. <<Separator>> \in T /\ <<>> \o <<Separator>> = <<Separator>>
  BY ConcatEmptySeq
<1> QED
  BY <1>2, <1>3, <1>4, <1>5

-----------------------------------------------------------------------------
(* What is read of a text: its names. *)

\* Names of characters of C.
NamesIn(C) == {chars \in Seq(C) : \A i \in 1..Len(chars) : chars[i] # Separator}

\* One more character: a new name, or one more character of the last.
OneMore(v, c) ==
    IF c = Separator THEN Append(v, <<>>) ELSE [v EXCEPT ![Len(v)] = Append(@, c)]

\* The names stay names.
LEMMA OneMoreIs ==
    ASSUME NEW C, NEW v \in Seq(NamesIn(C)), NEW c \in C
    PROVE  OneMore(v, c) \in Seq(NamesIn(C))
<1> DEFINE N == NamesIn(C)
<1>1. CASE c = Separator
  <2>1. <<>> \in N
    BY DEF NamesIn
  <2> HIDE DEF N
  <2>2. Append(v, <<>>) \in Seq(N)
    BY <2>1 DEF N
  <2> QED
    BY <1>1, <2>2 DEF OneMore, N
<1>2. CASE c # Separator /\ v = <<>>
  <2>1. [v EXCEPT ![Len(v)] = Append(@, c)] = v
    BY <1>2
  <2> QED
    BY <1>2, <2>1 DEF OneMore
<1>3. CASE c # Separator /\ v # <<>>
  <2>1. Len(v) \in 1..Len(v) /\ v[Len(v)] \in N
    <3> HIDE DEF N
    <3>1. v \in Seq(N)
      BY DEF N
    <3> QED
      BY <1>3, <3>1
  <2>2. Append(v[Len(v)], c) \in N
    <3> DEFINE x == v[Len(v)]
               y == Append(x, c)
    <3>1. x \in Seq(C) /\ \A i \in 1..Len(x) : x[i] # Separator
      BY <2>1 DEF NamesIn
    <3> HIDE DEF x
    <3>2. y \in Seq(C) /\ \A i \in 1..Len(y) : y[i] # Separator
      BY <1>3, <3>1
    <3> QED
      BY <3>2 DEF NamesIn, x
  <2> HIDE DEF N
  <2>3. v \in Seq(N)
    BY DEF N
  <2>4. [v EXCEPT ![Len(v)] = Append(v[Len(v)], c)] \in Seq(N)
    BY <2>1, <2>2, <2>3, ExceptSeq
  <2> QED
    BY <1>3, <2>4 DEF OneMore, N
<1> QED
  BY <1>1, <1>2, <1>3

\* What is written of them grows by that character.
LEMMA OneMoreWritten ==
    ASSUME NEW C, NEW v \in Seq(NamesIn(C)), NEW c \in C, c = Separator \/ v # <<>>
    PROVE  OneMore(v, c) # <<>> /\ Written(OneMore(v, c)) = Written(v) \o <<c>>
<1> DEFINE N == NamesIn(C)
           S == Seq(C)
           D == C \cup {Separator}
           T == Seq(D)
<1>1. N \subseteq S
  BY DEF NamesIn
<1>2. v \in Seq(S) /\ v \in Seq(N)
  <2> HIDE DEF N, S
  <2>1. v \in Seq(N)
    BY DEF N
  <2> QED
    BY <1>1, <2>1, SeqMonotonic
<1>3. \A w \in Seq(S) : Written(w) \in T
  BY LaidOut
<1>4. CASE c = Separator
  <2>1. <<>> \in Seq(C)
    OBVIOUS
  <2>2. <<<<>>>> \in Seq(S)
    <3>1. <<>> \in S
      BY <2>1
    <3> HIDE DEF S
    <3> QED
      BY <3>1
  <2>3. OneMore(v, c) = v \o <<<<>>>> /\ OneMore(v, c) # <<>>
    <3> DEFINE e == <<>>
    <3>1. e \in S
      BY <2>1
    <3> HIDE DEF S, e
    <3>2. Append(v, e) = v \o <<e>> /\ Append(v, e) # <<>>
      BY <1>2, <3>1
    <3> QED
      BY <1>4, <3>2 DEF OneMore, e
  <2>4. Written(v \o <<<<>>>>) = Written(v) \o Written(<<<<>>>>)
    BY <1>2, <2>2, WrittenJoined DEF S
  <2>5. Written(<<<<>>>>) = <<Separator>> \o <<>>
    BY <2>1, WrittenOne
  <2>6. <<Separator>> \o <<>> = <<Separator>>
    <3>1. <<Separator>> \in Seq({Separator})
      OBVIOUS
    <3> QED
      BY <3>1, ConcatEmptySeq
  <2> QED
    BY <1>4, <2>3, <2>4, <2>5, <2>6
<1>5. CASE c # Separator
  <2> DEFINE k == Len(v)
             x == v[k]
             front == [i \in 1..(k - 1) |-> v[i]]
             longer == Append(x, c)
  <2>1. k \in Nat /\ k \in 1..k /\ x \in S /\ longer \in S /\ longer = x \o <<c>>
    <3>1. k \in Nat /\ k \in 1..k /\ x \in S
      <4> HIDE DEF S
      <4> QED
        BY <1>2, <1>5
    <3> HIDE DEF x, k
    <3>2. x \in Seq(C)
      BY <3>1
    <3> QED
      BY <3>1, <3>2
  <2>2. /\ front \in Seq(S) /\ Len(front) = k - 1 /\ \A i \in 1..(k - 1) : front[i] = v[i]
    <3> HIDE DEF S, x
    <3>1. v \in Seq(S) /\ k \in Nat /\ k \in 1..k
      BY <1>2, <2>1
    <3> QED
      BY <3>1
  <2>3. v = front \o <<x>>
    <3> HIDE DEF S
    <3>1. <<x>> \in Seq(S) /\ Len(<<x>>) = 1 /\ <<x>>[1] = x
      BY <2>1
    <3> HIDE DEF front, x
    <3>2. /\ front \o <<x>> \in Seq(S) /\ Len(front \o <<x>>) = k
          /\ \A i \in 1..k : (front \o <<x>>)[i] = v[i]
      BY <2>1, <2>2, <3>1 DEF x
    <3> QED
      BY <1>2, <3>2, SeqEqual
  <2>4. OneMore(v, c) = front \o <<longer>>
    <3>1. OneMore(v, c) = [v EXCEPT ![k] = longer]
      BY <1>2, <1>5, <2>1 DEF OneMore
    <3> HIDE DEF S, OneMore
    <3>2. <<longer>> \in Seq(S) /\ Len(<<longer>>) = 1 /\ <<longer>>[1] = longer
      BY <2>1
    <3> HIDE DEF front, longer, x
    <3>3. /\ [v EXCEPT ![k] = longer] \in Seq(S) /\ Len([v EXCEPT ![k] = longer]) = k
          /\ \A j \in 1..k : [v EXCEPT ![k] = longer][j] = IF j = k THEN longer ELSE v[j]
      BY <1>2, <2>1, ExceptSeq
    <3>4. /\ front \o <<longer>> \in Seq(S) /\ Len(front \o <<longer>>) = k
          /\ \A i \in 1..k : (front \o <<longer>>)[i] = IF i = k THEN longer ELSE v[i]
      <4> DEFINE one == <<longer>>
                 l == k - 1
                 both == front \o one
      <4>1. one \in Seq(S) /\ Len(one) = 1 /\ one[1] = longer
        BY <3>2
      <4> HIDE DEF one, k
      <4>2. l \in Nat /\ k = l + 1 /\ front \in Seq(S) /\ Len(front) = l
            /\ \A i \in 1..l : front[i] = v[i]
        BY <2>1, <2>2
      <4> HIDE DEF l
      <4>3. both \in Seq(S) /\ Len(both) = l + 1
        <5>1. one \in Seq(S) /\ front \in Seq(S) /\ Len(front) = l /\ Len(one) = 1
          BY <4>1, <4>2
        <5>2. both \in Seq(S) /\ Len(both) = Len(front) + Len(one)
          <6>1. both \in Seq(S)
            BY <5>1
          <6>2. Len(both) = Len(front) + Len(one)
            BY <5>1, ConcatProperties, Zenon
          <6> QED
            BY <6>1, <6>2
        <5> HIDE DEF both
        <5> QED
          BY <5>1, <5>2
      <4>4. \A i \in 1..(l + 1) : both[i] = IF i <= l THEN front[i] ELSE one[i - l]
        BY <4>1, <4>2, ConcatProperties
      <4> HIDE DEF both
      <4>5. \A i \in 1..k : both[i] = IF i = k THEN longer ELSE v[i]
        <5> SUFFICES ASSUME NEW i \in 1..k
                     PROVE  both[i] = IF i = k THEN longer ELSE v[i]
          OBVIOUS
        <5>1. i \in 1..(l + 1)
          BY <4>2
        <5>2. CASE i = k
          <6>1. ~(i <= l) /\ i - l = 1
            BY <4>2, <5>2
          <6> QED
            BY <4>1, <4>4, <5>1, <5>2, <6>1
        <5>3. CASE i # k
          <6>1. i <= l /\ i \in 1..l
            BY <4>2, <5>1, <5>3
          <6> QED
            BY <4>2, <4>4, <5>1, <5>3, <6>1
        <5> QED
          BY <5>2, <5>3
      <4>6. both \in Seq(S) /\ Len(both) = k
        BY <4>2, <4>3
      <4> QED
        BY <4>5, <4>6 DEF one, both
    <3>5. [v EXCEPT ![k] = longer] = front \o <<longer>>
      BY <3>3, <3>4, SeqEqual
    <3> QED
      BY <3>1, <3>5
  <2>5. /\ Written(v) = Written(front) \o (<<Separator>> \o x)
        /\ Written(OneMore(v, c)) = Written(front) \o (<<Separator>> \o longer)
    <3>1. <<x>> \in Seq(S) /\ <<longer>> \in Seq(S)
      <4> HIDE DEF S
      <4> QED
        BY <2>1
    <3>2. Written(front \o <<x>>) = Written(front) \o Written(<<x>>)
      BY <2>2, <3>1, WrittenJoined DEF S
    <3>3. Written(front \o <<longer>>) = Written(front) \o Written(<<longer>>)
      BY <2>2, <3>1, WrittenJoined DEF S
    <3>4. Written(<<x>>) = <<Separator>> \o x /\ Written(<<longer>>) = <<Separator>> \o longer
      BY <2>1, WrittenOne DEF S
    <3> HIDE DEF front, x, longer
    <3> QED
      BY <2>3, <2>4, <3>2, <3>3, <3>4
  <2>6. /\ Written(front) \in T /\ <<Separator>> \in T /\ x \in T /\ <<c>> \in T
    <3>1. Written(front) \in T
      BY <1>3, <2>2
    <3>2. C \subseteq D
      OBVIOUS
    <3>3. x \in T
      BY <2>1, <3>2, SeqMonotonic DEF S
    <3> QED
      BY <3>1, <3>3
  <2>7. (Written(front) \o (<<Separator>> \o x)) \o <<c>>
           = Written(front) \o (<<Separator>> \o (x \o <<c>>))
    <3> HIDE DEF T, front, x
    <3>1. <<Separator>> \o x \in T
      BY <2>6, ConcatProperties DEF T
    <3>2. (Written(front) \o (<<Separator>> \o x)) \o <<c>>
             = Written(front) \o ((<<Separator>> \o x) \o <<c>>)
      BY <2>6, <3>1, ConcatAssociative DEF T
    <3>3. (<<Separator>> \o x) \o <<c>> = <<Separator>> \o (x \o <<c>>)
      BY <2>6, ConcatAssociative DEF T
    <3> QED
      BY <3>2, <3>3
  <2>8. OneMore(v, c) # <<>>
    <3> HIDE DEF S, OneMore
    <3>1. <<longer>> \in Seq(S) /\ Len(<<longer>>) = 1
      BY <2>1
    <3> HIDE DEF front, longer
    <3>2. Len(front \o <<longer>>) = k
      BY <2>1, <2>2, <3>1
    <3> QED
      BY <2>1, <2>4, <3>2
  <2> HIDE DEF front, x, longer
  <2> QED
    BY <2>1, <2>5, <2>7, <2>8
<1> QED
  BY <1>4, <1>5

\* The names in a text that begins with a separator, if with anything, are names,
\* and what is written of them is the text.
LEMMA NamesRead ==
    ASSUME NEW C, NEW text \in Seq(C), Len(text) > 0 => text[1] = Separator
    PROVE  NamesOf(text) \in Seq(NamesIn(C)) /\ Written(NamesOf(text)) = text
<1> DEFINE n == Len(text)
           N == NamesIn(C)
           S == Seq(N)
           Out(f) == f = [i \in 0..n |-> IF i = 0 THEN <<>> ELSE OneMore(f[i - 1], text[i])]
           G == [i \in 1..n |-> [v \in S |-> OneMore(v, text[i])]]
           f == CHOOSE h : Out(h)
<1>1. n \in Nat /\ <<>> \in S /\ \A i \in 1..n : text[i] \in C
  <2> HIDE DEF N
  <2> QED
    OBVIOUS
<1>2. \A v \in S, i \in 1..n : OneMore(v, text[i]) \in S
  BY <1>1, OneMoreIs
<1>3. PICK h \in [0..n -> S] :
         h = [i \in 0..n |-> IF i = 0 THEN <<>> ELSE G[i][h[i - 1]]]
  <2> DEFINE empty == <<>>
  <2> HIDE DEF n, S, empty
  <2>1. empty \in S /\ G \in [1..n -> [S -> S]]
    BY <1>1, <1>2 DEF empty
  <2> HIDE DEF G
  <2>2. \E h \in [0..n -> S] : Recursion(h, n, empty, G)
    BY <1>1, <2>1, RecursionDefines, Zenon
  <2> QED
    BY <2>2 DEF empty, Recursion
<1> HIDE DEF n, S
<1>4. \A i \in 1..n : i \in 0..n /\ i - 1 \in 0..n /\ h[i] = OneMore(h[i - 1], text[i])
  <2> SUFFICES ASSUME NEW i \in 1..n
               PROVE  i \in 0..n /\ i - 1 \in 0..n /\ h[i] = OneMore(h[i - 1], text[i])
    OBVIOUS
  <2>1. i \in 0..n /\ i - 1 \in 0..n /\ i # 0
    BY <1>1
  <2>2. h[i] = G[i][h[i - 1]]
    <3> HIDE DEF G
    <3> QED
      BY <1>3, <2>1
  <2>3. h[i - 1] \in S
    BY <1>3, <2>1
  <2> QED
    BY <2>1, <2>2, <2>3
<1>5. 0 \in 0..n /\ h[0] = <<>>
  BY <1>1, <1>3
<1>6. Out(h)
  <2> HIDE DEF G
  <2>1. \A i \in 0..n : i # 0 => i \in 1..n
    BY <1>1
  <2>2. \A i \in 0..n : h[i] = IF i = 0 THEN <<>> ELSE OneMore(h[i - 1], text[i])
    BY <1>4, <1>5, <2>1
  <2>3. h = [i \in 0..n |-> h[i]]
    BY <1>3
  <2> QED
    BY <2>2, <2>3
<1>7. Out(f)
  <2> HIDE DEF Out
  <2> QED
    BY <1>6, Zenon
<1>8. NamesOf(text) = f[n]
  BY DEF NamesOf, OneMore, n
<1> HIDE DEF f, G
<1>9. f[0] = <<>> /\ \A i \in 1..n : f[i] = OneMore(f[i - 1], text[i])
  <2>1. \A i \in 1..n : i \in 0..n /\ i # 0
    BY <1>4
  <2> QED
    BY <1>5, <1>7, <2>1
<1> DEFINE Read(i) ==
             /\ f[i] \in S /\ (i > 0 => f[i] # <<>>)
             /\ Written(f[i]) = SubSeq(text, 1, i)
           Good == {i \in 0..n : Read(i)}
<1> HIDE DEF Out
<1>10. 0 \in Good
  <2>1. Written(<<>>) = <<>>
    <3>1. <<>> \in Seq(C)
      OBVIOUS
    <3> QED
      BY <3>1, WrittenOne
  <2>2. SubSeq(text, 1, 0) = <<>>
    BY SubSeqEmpty
  <2> QED
    BY <1>1, <1>5, <1>9, <2>1, <2>2
<1>11. ASSUME NEW k \in 1..n, k - 1 \in Good
       PROVE  k \in Good
  <2> DEFINE v == f[k - 1]
             c == text[k]
  <2>1. /\ v \in S /\ c \in C /\ f[k] = OneMore(v, c) /\ k \in 0..n /\ k \in Nat
        /\ k - 1 > 0 => v # <<>>
        /\ Written(v) = SubSeq(text, 1, k - 1)
    BY <1>1, <1>4, <1>9, <1>11
  <2>2. c = Separator \/ v # <<>>
    BY <1>1, <2>1 DEF n
  <2>3. OneMore(v, c) \in S
    BY <1>1, <1>2, <2>1
  <2>4. OneMore(v, c) # <<>> /\ Written(OneMore(v, c)) = Written(v) \o <<c>>
    <3>1. v \in Seq(NamesIn(C))
      BY <2>1 DEF S
    <3> HIDE DEF v, c
    <3> QED
      BY <2>1, <2>2, <3>1, OneMoreWritten
  <2>5. SubSeq(text, 1, k - 1) \o <<c>> = SubSeq(text, 1, k)
    <3>1. 1 \in 1..Len(text) /\ k \in 1..Len(text)
      BY <1>1 DEF n
    <3> QED
      BY <3>1, SubSeqRecursiveSecond
  <2> QED
    BY <2>1, <2>3, <2>4, <2>5
<1> HIDE DEF Good
<1>12. 0..n \subseteq Good
  BY <1>1, <1>10, <1>11, RangeInduction
<1>13. f[n] \in S /\ Written(f[n]) = SubSeq(text, 1, n)
  BY <1>1, <1>12 DEF Good
<1>14. SubSeq(text, 1, n) = text
  BY SubSeqFull DEF n
<1> QED
  BY <1>8, <1>13, <1>14 DEF S

\* The text of a path that is matched begins with a separator, if with anything.
LEMMA PathTextIs ==
    ASSUME NEW C, Separator \in C, NEW path \in Seq(Seq(C))
    PROVE  /\ PathText(path) \in Seq(C)
           /\ Len(PathText(path)) > 0 => PathText(path)[1] = Separator
<1> DEFINE W == Written(path)
<1>1. W \in Seq(C)
  <2>1. C \cup {Separator} = C
    OBVIOUS
  <2> QED
    BY <2>1, LaidOut
<1>2. Len(W) > 0 => W[1] = Separator
  <2>1. PICK ends : Laid(path, ends)
    BY LaidOut
  <2>2. Len(path) \in Nat
    OBVIOUS
  <2>3. Len(path) = 0 => Len(W) = 0
    BY <2>1 DEF Laid
  <2>4. Len(path) # 0 => W[1] = Separator
    <3> SUFFICES ASSUME Len(path) # 0 PROVE W[1] = Separator
      OBVIOUS
    <3>1. 1 \in 1..Len(path) /\ 1 - 1 = 0 /\ 0 + 1 = 1
      BY <2>2
    <3> HIDE DEF W
    <3> QED
      BY <2>1, <3>1 DEF Laid, W
  <2> QED
    BY <2>2, <2>3, <2>4
<1> HIDE DEF W
<1>3. PathText(path) = [i \in 1..Len(W) |-> IF W[i] = Backslash THEN Separator ELSE W[i]]
  BY DEF PathText, Forward, W
<1> QED
  BY <1>1, <1>2, <1>3

-----------------------------------------------------------------------------
(* Where segments and names are. *)

\* Where a segment is, and what is on either side of it.
LEMMA SegmentSite ==
    ASSUME NEW segs, NEW ends, Laid(segs, ends), Len(segs) \in Nat,
           NEW q \in 1..Len(segs)
    PROVE  /\ q \in 0..Len(segs) /\ q - 1 \in 0..Len(segs)
           /\ ends[q - 1] \in Nat /\ ends[q] \in Nat /\ Len(segs[q]) \in Nat
           /\ ends[q] = ends[q - 1] + 1 + Len(segs[q]) /\ ends[q] <= Len(Written(segs))
           /\ ends[q - 1] + 1 \in 1..Len(Written(segs))
           /\ Written(segs)[ends[q - 1] + 1] = Separator
           /\ Spells(Written(segs), ends[q - 1] + 1, segs[q])
           /\ EndsAt(Written(segs), ends[q])
<1> DEFINE n == Len(segs)
           W == Written(segs)
<1>1. /\ n \in Nat /\ q \in 1..n /\ ends \in [0..n -> Nat] /\ ends[n] = Len(W)
      /\ \A p \in 1..n : W[ends[p - 1] + 1] = Separator
      /\ ends[q] = ends[q - 1] + 1 + Len(segs[q]) /\ Spells(W, ends[q - 1] + 1, segs[q])
      /\ \A h, p \in 0..n : h <= p => ends[h] <= ends[p]
  BY DEF Laid
<1> HIDE DEF n, W
<1>2. q \in 0..n /\ q - 1 \in 0..n /\ n \in 0..n /\ q <= n
  BY <1>1
<1>3. /\ ends[q - 1] \in Nat /\ ends[q] \in Nat /\ ends[q] <= ends[n]
      /\ Len(segs[q]) \in Nat
  BY <1>1, <1>2 DEF Spells
<1>4. ends[q - 1] + 1 \in 1..Len(W) /\ ends[q] <= Len(W) /\ W[ends[q - 1] + 1] = Separator
  BY <1>1, <1>3
<1>5. EndsAt(W, ends[q])
  <2>1. CASE q = n
    BY <1>1, <1>3, <2>1 DEF EndsAt
  <2>2. CASE q # n
    <3>1. q + 1 \in 1..n /\ (q + 1) - 1 = q
      BY <1>1, <2>2
    <3>2. W[ends[(q + 1) - 1] + 1] = Separator
      BY <1>1, <3>1
    <3> QED
      BY <3>1, <3>2 DEF EndsAt
  <2> QED
    BY <2>1, <2>2
<1> QED
  BY <1>1, <1>2, <1>3, <1>4, <1>5 DEF n, W

\* Is place j in a segment after the first c, or at the end of one?
Located(segs, ends, c, j) ==
    \E d \in c..(Len(segs) - 1) : \E x \in 0..Len(segs[d + 1]) :
        j = ends[d] + 1 + x + 1

\* A place behind the separator of a segment is in that segment or a later one.
LEMMA LocatedIn ==
    ASSUME NEW segs, NEW ends, Laid(segs, ends), Len(segs) \in Nat,
           NEW c \in 0..(Len(segs) - 1),
           NEW j \in (ends[c] + 2)..(Len(Written(segs)) + 1)
    PROVE  Located(segs, ends, c, j)
<1> DEFINE n == Len(segs)
           Later == {e \in 0..n : j <= ends[e] + 1}
<1>1. /\ n \in Nat /\ ends \in [0..n -> Nat] /\ ends[n] = Len(Written(segs))
      /\ \A q \in 1..n : ends[q] = ends[q - 1] + 1 + Len(segs[q])
      /\ \A h, q \in 0..n : h <= q => ends[h] <= ends[q]
      /\ c \in 0..(n - 1)
  BY DEF Laid
<1> HIDE DEF n
<1>2. c \in 0..n /\ n \in 0..n /\ ends[c] \in Nat /\ ends[n] \in Nat
  BY <1>1
<1>3. j \in Int /\ j >= ends[c] + 2 /\ j <= ends[n] + 1
  BY <1>1, <1>2
<1>4. PICK e \in Later : \A g \in Later : e <= g
  <2>1. Later \subseteq Nat /\ Later # {}
    BY <1>2, <1>3
  <2> HIDE DEF Later
  <2> QED
    BY <2>1, LeastExists, Zenon
<1>5. e \in 0..n /\ j <= ends[e] + 1 /\ ends[e] \in Nat
  BY <1>1, <1>4
<1>6. e > c
  <2> SUFFICES ASSUME ~(e > c) PROVE FALSE
    OBVIOUS
  <2>1. ends[e] <= ends[c]
    BY <1>1, <1>2, <1>5
  <2> QED
    BY <1>2, <1>3, <1>5, <2>1
<1> DEFINE d == e - 1
<1>7. d \in c..(n - 1) /\ d \in 0..n /\ d + 1 = e /\ e \in 1..n /\ ~(e <= d)
  BY <1>1, <1>2, <1>5, <1>6
<1>8. ~(j <= ends[d] + 1) /\ ends[d] \in Nat
  <2>1. d \notin Later
    BY <1>4, <1>7
  <2> HIDE DEF d
  <2> QED
    BY <1>1, <1>7, <2>1
<1>9. ends[e] = ends[d] + 1 + Len(segs[e]) /\ Len(segs[e]) \in Nat
  <2>1. ends[e] = ends[e - 1] + 1 + Len(segs[e])
    BY <1>1, <1>7
  <2>2. Len(segs[e]) \in Nat
    BY <1>7, SegmentSite DEF n
  <2> QED
    BY <2>1, <2>2
<1> HIDE DEF d, Later
<1> DEFINE x == j - ends[d] - 2
<1>10. x \in 0..Len(segs[d + 1]) /\ j = ends[d] + 1 + x + 1
  <2> DEFINE k == Len(segs[e])
             a == ends[d]
  <2>1. /\ k \in Nat /\ a \in Nat /\ j \in Int /\ ~(j <= a + 1)
        /\ j <= a + 1 + k + 1
    BY <1>3, <1>5, <1>8, <1>9
  <2> HIDE DEF k, a
  <2>2. j - a - 2 \in 0..k /\ j = a + 1 + (j - a - 2) + 1
    BY <2>1
  <2> QED
    BY <1>7, <2>2 DEF k, a
<1> QED
  BY <1>7, <1>10 DEF n, Located

-----------------------------------------------------------------------------
(* Segment by segment. *)

\* Can segment q stand for the names after the first c, up to the first d?
Fits(pattern, path, q, c, d) ==
    IF pattern[q] = DoubleStar
    THEN IF q = Len(pattern) THEN c < d ELSE c <= d
    ELSE d = c + 1 /\ NameMatches(pattern[q], path[c + 1])

\* Can the segments from q on stand for the names after the first c?
StandsFrom(pattern, path, q, c) ==
    \E cut \in [1..(Len(pattern) + 1) -> 0..Len(path)] :
        /\ cut[q] = c /\ cut[Len(pattern) + 1] = Len(path)
        /\ \A r \in q..Len(pattern) : Fits(pattern, path, r, cut[r], cut[r + 1])

\* No segments stand for no names.
LEMMA StandsAtEnd ==
    ASSUME NEW pattern, NEW path, Len(pattern) \in Nat, Len(path) \in Nat
    PROVE  StandsFrom(pattern, path, Len(pattern) + 1, Len(path))
<1> DEFINE n == Len(pattern)
           m == Len(path)
           cut == [q \in 1..(n + 1) |-> m]
<1>1. cut \in [1..(n + 1) -> 0..m] /\ cut[n + 1] = m /\ \A r \in (n + 1)..n : FALSE
  OBVIOUS
<1> HIDE DEF cut
<1> QED
  BY <1>1 DEF StandsFrom

\* A segment more.
LEMMA StandsWithOne ==
    ASSUME NEW pattern, NEW path, Len(pattern) \in Nat, Len(path) \in Nat,
           NEW q \in 1..Len(pattern), NEW c \in 0..Len(path), NEW d \in 0..Len(path),
           Fits(pattern, path, q, c, d), StandsFrom(pattern, path, q + 1, d)
    PROVE  StandsFrom(pattern, path, q, c)
<1> DEFINE n == Len(pattern)
           m == Len(path)
<1>1. PICK f \in [1..(n + 1) -> 0..m] :
        /\ f[q + 1] = d /\ f[n + 1] = m
        /\ \A r \in (q + 1)..n : Fits(pattern, path, r, f[r], f[r + 1])
  BY DEF StandsFrom
<1>2. n \in Nat /\ m \in Nat /\ q \in 1..n /\ c \in 0..m
  OBVIOUS
<1> HIDE DEF n, m
<1> DEFINE cut == [r \in 1..(n + 1) |-> IF r = q THEN c ELSE f[r]]
<1>3. cut \in [1..(n + 1) -> 0..m]
  BY <1>2
<1>4. /\ q \in 1..(n + 1) /\ q + 1 \in 1..(n + 1) /\ q + 1 # q /\ n + 1 \in 1..(n + 1)
      /\ n + 1 # q
  BY <1>2
<1>5. cut[q] = c /\ cut[q + 1] = d /\ cut[n + 1] = m
  BY <1>1, <1>4
<1>6. ASSUME NEW r \in q..n
      PROVE  Fits(pattern, path, r, cut[r], cut[r + 1])
  <2>1. CASE r = q
    <3> HIDE DEF cut
    <3> QED
      BY <1>5, <2>1
  <2>2. CASE r # q
    <3>1. r \in (q + 1)..n /\ r \in 1..(n + 1) /\ r + 1 \in 1..(n + 1) /\ r + 1 # q
      BY <1>2, <2>2
    <3>2. cut[r] = f[r] /\ cut[r + 1] = f[r + 1]
      BY <2>2, <3>1
    <3> HIDE DEF cut
    <3> QED
      BY <1>1, <3>1, <3>2
  <2> QED
    BY <2>1, <2>2
<1> HIDE DEF cut
<1> QED
  BY <1>3, <1>5, <1>6 DEF StandsFrom, n, m

\* A segment less.
LEMMA StandsWithoutOne ==
    ASSUME NEW pattern, NEW path, Len(pattern) \in Nat, Len(path) \in Nat,
           NEW q \in 1..Len(pattern), NEW c, StandsFrom(pattern, path, q, c)
    PROVE  \E d \in 0..Len(path) :
              Fits(pattern, path, q, c, d) /\ StandsFrom(pattern, path, q + 1, d)
<1> DEFINE n == Len(pattern)
           m == Len(path)
<1>1. PICK cut \in [1..(n + 1) -> 0..m] :
        /\ cut[q] = c /\ cut[n + 1] = m
        /\ \A r \in q..n : Fits(pattern, path, r, cut[r], cut[r + 1])
  BY DEF StandsFrom
<1>2. n \in Nat /\ m \in Nat /\ q \in 1..n
  OBVIOUS
<1> HIDE DEF n, m
<1>3. q \in q..n /\ q + 1 \in 1..(n + 1) /\ \A r \in (q + 1)..n : r \in q..n
  BY <1>2
<1>4. cut[q + 1] \in 0..m
  BY <1>1, <1>3
<1>5. Fits(pattern, path, q, c, cut[q + 1])
  BY <1>1, <1>3
<1>6. StandsFrom(pattern, path, q + 1, cut[q + 1])
  BY <1>1, <1>3 DEF StandsFrom, n, m
<1> QED
  BY <1>4, <1>5, <1>6 DEF m

\* The reference from its start.
LEMMA StandsForAll ==
    ASSUME NEW pattern, NEW path, Len(pattern) \in Nat
    PROVE  SegmentsMatch(pattern, path) <=> StandsFrom(pattern, path, 1, 0)
  BY DEF SegmentsMatch, StandsFrom, Fits

\* Does the pattern from segment q on match the path after its first c names?
MatchesAt(pattern, path, po, to, q, c) ==
    Matches(Written(pattern), Written(path), po[q - 1] + 1, to[c] + 1)

\* A pattern and a path whose names hold no separator, and where their segments
\* and names end in what is written.
Layout(pattern, path, po, to) ==
    /\ Len(pattern) \in Nat /\ Len(Written(pattern)) \in Nat /\ Laid(pattern, po)
    /\ Len(path) \in Nat /\ Len(Written(path)) \in Nat /\ Laid(path, to)
    /\ \A c \in 1..Len(path) : \A i \in 1..Len(path[c]) : path[c][i] # Separator

\* Where names end is in what is written, and only the last one ends there.
LEMMA NameEnds ==
    ASSUME NEW pattern, NEW path, NEW po, NEW to, Layout(pattern, path, po, to),
           NEW c \in 0..Len(path)
    PROVE  /\ to[c] \in Nat /\ to[c] + 1 \in 1..(Len(Written(path)) + 1)
           /\ c < Len(path) <=> to[c] + 1 <= Len(Written(path))
           /\ to[Len(path)] = Len(Written(path))
<1> DEFINE m == Len(path)
           l == Len(Written(path))
<1>1. /\ m \in Nat /\ l \in Nat /\ c \in 0..m /\ to \in [0..m -> Nat] /\ to[m] = l
      /\ \A h, q \in 0..m : h <= q => to[h] <= to[q]
  BY DEF Layout, Laid
<1>2. c < m => to[c] + 1 <= l
  <2> SUFFICES ASSUME c < m PROVE to[c] + 1 <= l
    OBVIOUS
  <2>1. c + 1 \in 1..m /\ (c + 1) - 1 = c
    BY <1>1
  <2>2. to[(c + 1) - 1] + 1 \in 1..l
    BY <1>1, <2>1, SegmentSite DEF Layout
  <2> QED
    BY <2>1, <2>2
<1> HIDE DEF m, l
<1>3. to[c] \in Nat /\ to[c] <= l
  <2>1. m \in 0..m /\ c <= m
    BY <1>1
  <2> QED
    BY <1>1, <2>1
<1>4. ~(c < m) => to[c] = l
  BY <1>1
<1>5. /\ to[c] + 1 \in 1..(l + 1)
      /\ c < m <=> to[c] + 1 <= l
  BY <1>1, <1>2, <1>3, <1>4
<1> QED
  BY <1>1, <1>3, <1>5 DEF m, l

\* Where the pattern is at the separator of a segment, the path is at that of a
\* name, and behind them they match as well; and conversely.
LEMMA BehindSeparators ==
    ASSUME NEW pattern, NEW path, NEW po, NEW to, Layout(pattern, path, po, to),
           NEW q \in 1..Len(pattern), NEW c \in 0..Len(path)
    PROVE  MatchesAt(pattern, path, po, to, q, c) <=>
              /\ c < Len(path)
              /\ Matches(Written(pattern), Written(path), po[q - 1] + 2, to[c] + 2)
<1> DEFINE P == Written(pattern)
           T == Written(path)
           i == po[q - 1] + 1
           j == to[c] + 1
<1>1. /\ Len(P) \in Nat /\ Len(T) \in Nat /\ i \in 1..Len(P) /\ P[i] = Separator
      /\ i + 1 = po[q - 1] + 2
  <2>1. po[q - 1] \in Nat /\ i \in 1..Len(P) /\ P[i] = Separator
    BY SegmentSite DEF Layout
  <2> QED
    BY <2>1 DEF Layout
<1>2. /\ j \in 1..(Len(T) + 1) /\ (c < Len(path) <=> j <= Len(T)) /\ j + 1 = to[c] + 2
  BY NameEnds
<1>3. c < Len(path) => T[j] = Separator
  <2> SUFFICES ASSUME c < Len(path) PROVE T[j] = Separator
    OBVIOUS
  <2>1. c + 1 \in 1..Len(path) /\ (c + 1) - 1 = c
    BY DEF Layout
  <2>2. T[to[(c + 1) - 1] + 1] = Separator
    BY <2>1, SegmentSite DEF Layout
  <2> QED
    BY <2>1, <2>2
<1> HIDE DEF P, T, i, j
<1>4. Matches(P, T, i, j) <=>
         j <= Len(T) /\ T[j] = Separator /\ Matches(P, T, i + 1, j + 1)
  BY <1>1, <1>2, MatchesSeparator
<1>5. Matches(P, T, i, j) <=> c < Len(path) /\ Matches(P, T, po[q - 1] + 2, to[c] + 2)
  BY <1>1, <1>2, <1>3, <1>4
<1> QED
  BY <1>5 DEF P, T, i, j, MatchesAt

\* Two stars are a segment: where they are, and what they reach.
LEMMA DoubleSite ==
    ASSUME NEW pattern, NEW path, NEW po, NEW to, Layout(pattern, path, po, to),
           NEW q \in 1..Len(pattern), pattern[q] = DoubleStar,
           NEW j \in 1..(Len(Written(path)) + 1)
    PROVE  Matches(Written(pattern), Written(path), po[q - 1] + 2, j) <=>
              IF q = Len(pattern) THEN TRUE
              ELSE \E k \in j..(Len(Written(path)) + 1) :
                      Matches(Written(pattern), Written(path), po[q] + 2, k)
<1> DEFINE P == Written(pattern)
           T == Written(path)
           a == po[q - 1]
           i == a + 2
           n == Len(pattern)
<1>1. Len(DoubleStar) = 2 /\ DoubleStar[1] = "*" /\ DoubleStar[2] = "*"
  BY DEF DoubleStar
<1>2. /\ Len(P) \in Nat /\ Len(T) \in Nat /\ n \in Nat /\ q \in 1..n
      /\ a \in Nat /\ po[q] = a + 1 + 2 /\ po[q] <= Len(P)
      /\ Spells(P, a + 1, DoubleStar) /\ EndsAt(P, po[q])
      /\ po[n] = Len(P)
  BY <1>1, SegmentSite DEF Layout, Laid
<1> HIDE DEF P, T, a, n
<1>3. /\ i \in 1..Len(P) /\ i < Len(P) /\ i = a + 1 + 1 /\ i + 1 = a + 1 + 2
      /\ i + 2 = po[q] + 1 /\ i + 3 = po[q] + 2
  BY <1>2
<1>4. P[i] = "*" /\ P[i + 1] = "*"
  BY <1>1, <1>2, <1>3 DEF Spells
<1> HIDE DEF i
<1>5. Matches(P, T, i, j) <=>
         \E k \in j..(Len(T) + 1) : Matches(P, T, AfterDoubleStar(P, i), k)
  <2>1. j \in 1..(Len(T) + 1)
    BY DEF T
  <2> QED
    BY <1>2, <1>3, <1>4, <2>1, MatchesDouble
<1>6. CASE q = n
  <2>1. i + 2 = Len(P) + 1
    BY <1>2, <1>3, <1>6
  <2>2. AfterDoubleStar(P, i) = Len(P) + 1
    BY <1>2, <2>1 DEF AfterDoubleStar
  <2>3. Len(T) + 1 \in j..(Len(T) + 1) /\ Len(T) + 1 \in 1..(Len(T) + 1)
    BY <1>2 DEF T
  <2>4. Matches(P, T, Len(P) + 1, Len(T) + 1)
    BY <1>2, <2>3, MatchesEnd
  <2>5. Matches(P, T, i, j)
    BY <1>5, <2>2, <2>3, <2>4
  <2> QED
    BY <1>6, <2>5 DEF P, T, i, a, n
<1>7. CASE q # n
  <2>1. i + 2 <= Len(P) /\ P[i + 2] = Separator
    <3>1. q + 1 \in 1..n /\ (q + 1) - 1 = q
      BY <1>2, <1>7
    <3>2. po[(q + 1) - 1] + 1 \in 1..Len(P) /\ P[po[(q + 1) - 1] + 1] = Separator
      BY <3>1, SegmentSite DEF Layout, P, n
    <3>3. po[q] + 1 \in 1..Len(P) /\ P[po[q] + 1] = Separator
      BY <3>1, <3>2
    <3> QED
      BY <1>2, <1>3, <3>3
  <2>2. AfterDoubleStar(P, i) = po[q] + 2
    BY <1>3, <2>1 DEF AfterDoubleStar
  <2>3. Matches(P, T, i, j) <=> \E k \in j..(Len(T) + 1) : Matches(P, T, po[q] + 2, k)
    BY <1>5, <2>2
  <2> QED
    BY <1>7, <2>3 DEF P, T, i, a, n
<1> QED
  BY <1>6, <1>7

\* What a segment can stand for, it matches, if the rest does.
LEMMA ForwardStep ==
    ASSUME NEW pattern, NEW path, NEW po, NEW to, Layout(pattern, path, po, to),
           NEW q \in 1..Len(pattern), NEW c \in 0..Len(path), NEW d \in 0..Len(path),
           Fits(pattern, path, q, c, d), MatchesAt(pattern, path, po, to, q + 1, d)
    PROVE  MatchesAt(pattern, path, po, to, q, c)
<1> DEFINE P == Written(pattern)
           T == Written(path)
           n == Len(pattern)
           m == Len(path)
<1>1. /\ n \in Nat /\ m \in Nat /\ q \in 1..n /\ c \in 0..m /\ d \in 0..m
      /\ Len(P) \in Nat /\ Len(T) \in Nat /\ (q + 1) - 1 = q
  BY DEF Layout
<1>2. Matches(P, T, po[q] + 1, to[d] + 1)
  BY <1>1 DEF MatchesAt
<1>3. to[c] \in Nat /\ (c < m <=> to[c] + 1 <= Len(T)) /\ to[d] \in Nat
  BY NameEnds
<1>4. CASE pattern[q] # DoubleStar
  <2>1. d = c + 1 /\ NameMatches(pattern[q], path[c + 1])
    BY <1>4 DEF Fits
  <2>2. c + 1 \in 1..m /\ (c + 1) - 1 = c /\ c < m
    BY <1>1, <2>1
  <2> DEFINE s == pattern[q]
             name == path[c + 1]
             a == po[q - 1] + 1
             b == to[c] + 1
  <2>3. /\ a \in Nat /\ Spells(P, a, s) /\ EndsAt(P, po[q]) /\ a + Len(s) = po[q]
    <3> DEFINE e == po[q - 1]
    <3>1. /\ e \in Nat /\ Spells(P, e + 1, s) /\ EndsAt(P, po[q])
          /\ po[q] = e + 1 + Len(s)
      BY SegmentSite DEF Layout
    <3> HIDE DEF e
    <3>2. e + 1 \in Nat
      BY <3>1
    <3> QED
      BY <3>1, <3>2 DEF e
  <2>4. /\ b \in Nat /\ Spells(T, b, name) /\ b + Len(name) = to[d]
    <3>1. /\ to[(c + 1) - 1] \in Nat /\ to[c + 1] = to[(c + 1) - 1] + 1 + Len(name)
          /\ Spells(T, to[(c + 1) - 1] + 1, name)
      BY <2>2, SegmentSite DEF Layout
    <3> QED
      BY <2>1, <2>2, <3>1
  <2>5. \A i \in 1..Len(name) : name[i] # Separator
    BY <2>2 DEF Layout
  <2> HIDE DEF P, T, s, name, a, b, n, m
  <2>6. Matches(P, T, a + 1, b + 1)
    <3>1. NameMatches(s, name) /\ EndsAt(P, a + Len(s))
      BY <2>1, <2>3 DEF s, name
    <3>2. Matches(P, T, a + Len(s) + 1, b + Len(name) + 1)
      BY <1>2, <2>3, <2>4
    <3> QED
      BY <1>1, <2>3, <2>4, <2>5, <3>1, <3>2, NameForward
  <2>7. a + 1 = po[q - 1] + 2 /\ b + 1 = to[c] + 2
    <3>1. po[q - 1] \in Nat
      BY SegmentSite DEF Layout
    <3> QED
      BY <1>3, <3>1 DEF a, b
  <2>8. Matches(P, T, po[q - 1] + 2, to[c] + 2)
    BY <2>6, <2>7
  <2> QED
    BY <2>2, <2>8, BehindSeparators DEF P, T, n, m
<1>5. CASE pattern[q] = DoubleStar
  <2>1. /\ q = n => c < d
        /\ q # n => c <= d
    BY <1>5 DEF Fits
  <2>2. c < m /\ Matches(P, T, po[q - 1] + 2, to[c] + 2)
    <3>1. CASE q = n
      <4>1. c < m /\ to[c] + 2 \in 1..(Len(T) + 1)
        BY <1>1, <1>3, <2>1, <3>1
      <4> QED
        BY <1>5, <3>1, <4>1, DoubleSite
    <3>2. CASE q # n
      <4>1. q + 1 \in 1..n
        BY <1>1, <3>2
      <4>2. d < m /\ Matches(P, T, po[(q + 1) - 1] + 2, to[d] + 2)
        BY <4>1, BehindSeparators
      <4>3. c < m
        BY <1>1, <2>1, <3>2, <4>2
      <4>4. to[c] <= to[d] /\ to[d] + 1 <= Len(T)
        <5>1. \A g, h \in 0..m : g <= h => to[g] <= to[h]
          BY DEF Layout, Laid
        <5>2. to[d] + 1 <= Len(T)
          BY <4>2, NameEnds
        <5> QED
          BY <1>1, <2>1, <3>2, <5>1, <5>2
      <4>5. to[c] + 2 \in 1..(Len(T) + 1) /\ to[d] + 2 \in (to[c] + 2)..(Len(T) + 1)
        <5> DEFINE g == to[c]
                   h == to[d]
                   l == Len(T)
        <5>1. g \in Nat /\ h \in Nat /\ l \in Nat /\ g <= h /\ h + 1 <= l
          BY <1>1, <1>3, <4>4
        <5> HIDE DEF g, h, l
        <5>2. g + 2 \in 1..(l + 1) /\ h + 2 \in (g + 2)..(l + 1)
          BY <5>1
        <5> QED
          BY <5>2 DEF g, h, l
      <4>6. Matches(P, T, po[q] + 2, to[d] + 2)
        BY <1>1, <4>2
      <4> QED
        BY <1>5, <3>2, <4>3, <4>5, <4>6, DoubleSite
    <3> QED
      BY <3>1, <3>2
  <2> QED
    BY <2>2, BehindSeparators
<1> QED
  BY <1>4, <1>5

\* Every path that a pattern stands for is matched.
LEMMA StandsMatches ==
    ASSUME NEW pattern, NEW path, NEW po, NEW to, Layout(pattern, path, po, to),
           SegmentsMatch(pattern, path)
    PROVE  GlobMatches(Written(pattern), Written(path))
<1> DEFINE n == Len(pattern)
           m == Len(path)
           P == Written(pattern)
           T == Written(path)
           Stand(q, c) == StandsFrom(pattern, path, q, c)
           Match(q, c) == MatchesAt(pattern, path, po, to, q, c)
           Claim(q) == \A c \in 0..m : Stand(q, c) => Match(q, c)
           Bad == {u \in 0..n : ~Claim(n + 1 - u)}
<1>1. /\ n \in Nat /\ m \in Nat /\ Len(P) \in Nat /\ Len(T) \in Nat
      /\ po[0] = 0 /\ po[n] = Len(P) /\ to[0] = 0 /\ to[m] = Len(T)
  BY DEF Layout, Laid
<1>2. Claim(n + 1)
  <2> SUFFICES ASSUME NEW c \in 0..m, Stand(n + 1, c)
               PROVE  Match(n + 1, c)
    OBVIOUS
  <2>1. c = m
    BY DEF StandsFrom
  <2>2. Matches(P, T, Len(P) + 1, Len(T) + 1)
    BY <1>1, MatchesEnd
  <2>3. (n + 1) - 1 = n
    BY <1>1
  <2> QED
    BY <1>1, <2>1, <2>2, <2>3 DEF MatchesAt
<1>3. ASSUME NEW q \in 1..n, NEW c \in 0..m, Stand(q, c)
      PROVE  \E d \in 0..m : Fits(pattern, path, q, c, d) /\ Stand(q + 1, d)
  BY <1>1, <1>3, StandsWithoutOne
<1>4. ASSUME NEW q \in 1..n, NEW c \in 0..m, NEW d \in 0..m,
             Fits(pattern, path, q, c, d), Match(q + 1, d)
      PROVE  Match(q, c)
  BY <1>4, ForwardStep
<1>5. Stand(1, 0)
  BY <1>1, StandsForAll
<1> HIDE DEF n, m, P, T, Stand, Match
<1>6. Bad = {}
  <2> SUFFICES ASSUME Bad # {} PROVE FALSE
    OBVIOUS
  <2>1. PICK u \in Bad : \A l \in Bad : u <= l
    <3>1. Bad \subseteq Nat
      OBVIOUS
    <3> HIDE DEF Bad
    <3> QED
      BY <3>1, LeastExists, Zenon
  <2>2. u \in 0..n /\ ~Claim(n + 1 - u)
    BY <2>1
  <2>3. CASE u = 0
    <3>1. n + 1 - u = n + 1
      BY <1>1, <2>3
    <3> HIDE DEF Claim
    <3> QED
      BY <1>2, <2>2, <3>1
  <2>4. CASE u # 0
    <3> DEFINE q == n + 1 - u
    <3>1. q \in 1..n /\ u - 1 \in 0..n /\ ~(u <= u - 1) /\ n + 1 - (u - 1) = q + 1
      BY <1>1, <2>2, <2>4
    <3>2. u - 1 \notin Bad
      BY <2>1, <3>1
    <3>3. Claim(n + 1 - (u - 1))
      <4> HIDE DEF Claim
      <4> QED
        BY <3>1, <3>2
    <3>4. Claim(q + 1) /\ ~Claim(q)
      <4> HIDE DEF Claim
      <4> QED
        BY <2>2, <3>1, <3>3
    <3> HIDE DEF q, Bad
    <3> QED
      BY <1>3, <1>4, <3>1, <3>4
  <2> QED
    BY <2>3, <2>4
<1>7. Claim(1)
  <2>1. n \in 0..n /\ n + 1 - n = 1
    BY <1>1
  <2>2. Claim(n + 1 - n)
    <3> HIDE DEF Claim
    <3> QED
      BY <1>6, <2>1
  <2> HIDE DEF Claim
  <2> QED
    BY <2>1, <2>2
<1>8. Match(1, 0)
  BY <1>1, <1>5, <1>7
<1>9. 1 - 1 = 0 /\ po[0] + 1 = 1 /\ to[0] + 1 = 1
  BY <1>1
<1> QED
  BY <1>8, <1>9 DEF Match, P, T, MatchesAt, Matches, GlobMatches

\* A pattern that is read by segments, none of which holds a separator.
Readable(pattern) ==
    /\ \A q \in 1..Len(pattern) : \A p \in 1..Len(pattern[q]) :
          pattern[q][p] # Separator
    /\ \A q \in 1..Len(pattern) :
          pattern[q] # DoubleStar =>
             \A p \in 1..(Len(pattern[q]) - 1) :
                pattern[q][p] # "*" \/ pattern[q][p + 1] # "*"
    /\ \A q \in 1..(Len(pattern) - 1) :
          pattern[q] = DoubleStar =>
             Len(pattern[q + 1]) > 0 /\ pattern[q + 1][1] = "*"

\* A match from a segment and from somewhere in a name that this can skip to is
\* one from the next segment and the next name.
LEMMA NameStep ==
    ASSUME NEW pattern, NEW path, NEW po, NEW to, Layout(pattern, path, po, to),
           Readable(pattern), NEW q \in 1..Len(pattern), pattern[q] # DoubleStar,
           NEW c \in 0..(Len(path) - 1), NEW x \in 0..Len(path[c + 1]),
           x = 0 \/ (Len(pattern[q]) > 0 /\ pattern[q][1] = "*"),
           Matches(Written(pattern), Written(path), po[q - 1] + 2, to[c] + 1 + x + 1)
    PROVE  /\ Fits(pattern, path, q, c, c + 1)
           /\ MatchesAt(pattern, path, po, to, q + 1, c + 1)
<1> DEFINE P == Written(pattern)
           T == Written(path)
           s == pattern[q]
           name == path[c + 1]
           a == po[q - 1] + 1
           b == to[c] + 1
<1>1. /\ Len(pattern) \in Nat /\ Len(path) \in Nat
      /\ Len(P) \in Nat /\ Len(T) \in Nat
      /\ c + 1 \in 1..Len(path) /\ (c + 1) - 1 = c /\ (q + 1) - 1 = q
  BY DEF Layout
<1>2. /\ a \in Nat /\ Spells(P, a, s) /\ EndsAt(P, po[q]) /\ a + Len(s) = po[q]
      /\ a + 1 = po[q - 1] + 2
  <2> DEFINE e == po[q - 1]
  <2>1. /\ e \in Nat /\ Spells(P, e + 1, s) /\ EndsAt(P, po[q])
        /\ po[q] = e + 1 + Len(s)
    BY SegmentSite DEF Layout
  <2> HIDE DEF e
  <2>2. e + 1 \in Nat /\ e + 1 + 1 = e + 2
    BY <2>1
  <2> QED
    BY <2>1, <2>2 DEF e
<1>3. /\ b \in Nat /\ Spells(T, b, name) /\ EndsAt(T, to[c + 1])
      /\ b + Len(name) = to[c + 1]
  <2> DEFINE e == to[(c + 1) - 1]
  <2>1. /\ e \in Nat /\ Spells(T, e + 1, name) /\ EndsAt(T, to[c + 1])
        /\ to[c + 1] = e + 1 + Len(name)
    BY <1>1, SegmentSite DEF Layout
  <2> HIDE DEF e
  <2>2. e + 1 \in Nat
    BY <2>1
  <2> QED
    BY <1>1, <2>1, <2>2 DEF e
<1>4. /\ \A i \in 1..Len(name) : name[i] # Separator
      /\ \A p \in 1..Len(s) : s[p] # Separator
      /\ \A p \in 1..(Len(s) - 1) : s[p] # "*" \/ s[p + 1] # "*"
  BY <1>1 DEF Layout, Readable
<1>5. /\ x \in 0..Len(name) /\ (x = 0 \/ (Len(s) > 0 /\ s[1] = "*"))
      /\ Matches(P, T, a + 1, b + x + 1)
  BY <1>2
<1> HIDE DEF P, T, s, name, a, b
<1>6. /\ NameMatches(s, name)
      /\ Matches(P, T, a + Len(s) + 1, b + Len(name) + 1)
  <2>1. EndsAt(P, a + Len(s)) /\ EndsAt(T, b + Len(name))
    BY <1>2, <1>3
  <2> QED
    BY <1>1, <1>2, <1>3, <1>4, <1>5, <2>1, NameReverse
<1>7. Matches(P, T, po[q] + 1, to[c + 1] + 1)
  BY <1>2, <1>3, <1>6
<1> QED
  BY <1>1, <1>6, <1>7 DEF Fits, MatchesAt, P, T, s, name

\* From segment q on, does what matches stand for the names?
MatchesStand(pattern, path, po, to, q) ==
    \A c \in 0..Len(path) :
        MatchesAt(pattern, path, po, to, q, c) => StandsFrom(pattern, path, q, c)

\* If a star begins segment q, does it stand for the names from some later one
\* on when it matches anywhere behind the separator of a name?
StarStands(pattern, path, po, to, q) ==
    Len(pattern[q]) > 0 /\ pattern[q][1] = "*" =>
        \A c \in 0..(Len(path) - 1) :
            \A j \in (to[c] + 2)..(Len(Written(path)) + 1) :
                Matches(Written(pattern), Written(path), po[q - 1] + 2, j) =>
                    \E d \in c..(Len(path) - 1) : StandsFrom(pattern, path, q, d)

\* `**' stands for the names before those that what follows it stands for.
LEMMA DoubleStep ==
    ASSUME NEW pattern, NEW path, NEW po, NEW to, Layout(pattern, path, po, to),
           Readable(pattern), NEW q \in 1..Len(pattern), pattern[q] = DoubleStar,
           q # Len(pattern) => StarStands(pattern, path, po, to, q + 1),
           NEW c \in 0..(Len(path) - 1),
           NEW j \in (to[c] + 2)..(Len(Written(path)) + 1),
           Matches(Written(pattern), Written(path), po[q - 1] + 2, j)
    PROVE  StandsFrom(pattern, path, q, c)
<1> DEFINE n == Len(pattern)
           m == Len(path)
           P == Written(pattern)
           T == Written(path)
<1>1. /\ n \in Nat /\ m \in Nat /\ q \in 1..n /\ c \in 0..m /\ c < m /\ Len(T) \in Nat
      /\ (q + 1) - 1 = q /\ m \in 0..m
  BY DEF Layout
<1>2. to[c] \in Nat
  BY <1>1, NameEnds
<1>3. j \in 1..(Len(T) + 1)
  BY <1>1, <1>2
<1>4. CASE q = n
  <2>1. Fits(pattern, path, q, c, m)
    BY <1>1, <1>4 DEF Fits
  <2>2. StandsFrom(pattern, path, q + 1, m)
    BY <1>1, <1>4, StandsAtEnd
  <2> QED
    BY <1>1, <2>1, <2>2, StandsWithOne
<1>5. CASE q # n
  <2>1. PICK k \in j..(Len(T) + 1) : Matches(P, T, po[q] + 2, k)
    BY <1>3, <1>5, DoubleSite
  <2>2. k \in (to[c] + 2)..(Len(T) + 1)
    BY <1>1, <1>2
  <2>3. q \in 1..(n - 1)
    BY <1>1, <1>5
  <2>4. Len(pattern[q + 1]) > 0 /\ pattern[q + 1][1] = "*"
    BY <2>3 DEF Readable
  <2>5. PICK d \in c..(m - 1) : StandsFrom(pattern, path, q + 1, d)
    BY <1>1, <1>5, <2>1, <2>2, <2>4 DEF StarStands
  <2>6. d \in 0..m /\ Fits(pattern, path, q, c, d)
    BY <1>1, <1>5 DEF Fits
  <2> QED
    BY <1>1, <2>5, <2>6, StandsWithOne
<1> QED
  BY <1>4, <1>5

\* One segment more of either.
LEMMA ReverseStep ==
    ASSUME NEW pattern, NEW path, NEW po, NEW to, Layout(pattern, path, po, to),
           Readable(pattern), NEW q \in 1..Len(pattern),
           MatchesStand(pattern, path, po, to, q + 1),
           q # Len(pattern) => StarStands(pattern, path, po, to, q + 1)
    PROVE  /\ MatchesStand(pattern, path, po, to, q)
           /\ StarStands(pattern, path, po, to, q)
<1> DEFINE n == Len(pattern)
           m == Len(path)
           P == Written(pattern)
           T == Written(path)
<1>1. /\ n \in Nat /\ m \in Nat /\ q \in 1..n /\ Len(T) \in Nat
  BY DEF Layout
<1>2. ASSUME NEW c \in 0..(m - 1), NEW x \in 0..Len(path[c + 1]),
             pattern[q] # DoubleStar,
             x = 0 \/ (Len(pattern[q]) > 0 /\ pattern[q][1] = "*"),
             Matches(P, T, po[q - 1] + 2, to[c] + 1 + x + 1)
      PROVE  StandsFrom(pattern, path, q, c)
  <2>1. c \in 0..m /\ c + 1 \in 0..m
    BY <1>1
  <2>2. /\ Fits(pattern, path, q, c, c + 1)
        /\ MatchesAt(pattern, path, po, to, q + 1, c + 1)
    BY <1>2, NameStep
  <2>3. StandsFrom(pattern, path, q + 1, c + 1)
    BY <2>1, <2>2 DEF MatchesStand
  <2> QED
    BY <1>1, <2>1, <2>2, <2>3, StandsWithOne
<1>3. ASSUME NEW c \in 0..m, MatchesAt(pattern, path, po, to, q, c)
      PROVE  StandsFrom(pattern, path, q, c)
  <2>1. c < m /\ Matches(P, T, po[q - 1] + 2, to[c] + 2)
    BY <1>3, BehindSeparators
  <2>2. c \in 0..(m - 1) /\ c + 1 \in 1..m /\ (c + 1) - 1 = c
    BY <1>1, <2>1
  <2>3. to[c] \in Nat /\ to[c] + 1 <= Len(T)
    BY <2>1, NameEnds
  <2>4. CASE pattern[q] = DoubleStar
    <3>1. to[c] + 2 \in (to[c] + 2)..(Len(T) + 1)
      BY <1>1, <2>3
    <3> QED
      BY <2>1, <2>2, <2>4, <3>1, DoubleStep
  <2>5. CASE pattern[q] # DoubleStar
    <3>1. 0 \in 0..Len(path[c + 1])
      <4>1. Len(path[c + 1]) \in Nat
        BY <2>2, SegmentSite DEF Layout
      <4> QED
        BY <4>1
    <3>2. to[c] + 1 + 0 + 1 = to[c] + 2
      BY <2>3
    <3>3. Matches(P, T, po[q - 1] + 2, to[c] + 1 + 0 + 1)
      BY <2>1, <3>2
    <3> HIDE DEF P, T, m, n
    <3> QED
      BY <1>2, <2>2, <2>5, <3>1, <3>3
  <2> QED
    BY <2>4, <2>5
<1>4. ASSUME Len(pattern[q]) > 0, pattern[q][1] = "*",
             NEW c \in 0..(m - 1), NEW j \in (to[c] + 2)..(Len(T) + 1),
             Matches(P, T, po[q - 1] + 2, j)
      PROVE  \E d \in c..(m - 1) : StandsFrom(pattern, path, q, d)
  <2>1. CASE pattern[q] = DoubleStar
    <3>1. StandsFrom(pattern, path, q, c) /\ c \in c..(m - 1)
      BY <1>1, <1>4, <2>1, DoubleStep
    <3> QED
      BY <3>1
  <2>2. CASE pattern[q] # DoubleStar
    <3>1. /\ Laid(path, to) /\ Len(path) \in Nat /\ c \in 0..(Len(path) - 1)
          /\ j \in (to[c] + 2)..(Len(Written(path)) + 1)
      BY <1>4 DEF Layout
    <3>2. Located(path, to, c, j)
      BY <3>1, LocatedIn
    <3>3. PICK d \in c..(m - 1) : \E x \in 0..Len(path[d + 1]) : j = to[d] + 1 + x + 1
      BY <3>2 DEF Located
    <3>4. PICK x \in 0..Len(path[d + 1]) : j = to[d] + 1 + x + 1
      BY <3>3
    <3>5. d \in 0..(m - 1)
      BY <1>1
    <3> HIDE DEF P, T, m, n
    <3>6. StandsFrom(pattern, path, q, d)
      BY <1>2, <1>4, <2>2, <3>4, <3>5
    <3> QED
      BY <3>6
  <2> QED
    BY <2>1, <2>2
<1> QED
  BY <1>3, <1>4 DEF MatchesStand, StarStands

\* What matches is stood for, if the pattern is read by segments.
LEMMA MatchesStands ==
    ASSUME NEW pattern, NEW path, NEW po, NEW to, Layout(pattern, path, po, to),
           Readable(pattern), GlobMatches(Written(pattern), Written(path))
    PROVE  SegmentsMatch(pattern, path)
<1> DEFINE n == Len(pattern)
           m == Len(path)
           P == Written(pattern)
           T == Written(path)
           Stand(q) == MatchesStand(pattern, path, po, to, q)
           Star(q) == StarStands(pattern, path, po, to, q)
           Claim(q) == Stand(q) /\ (q # n + 1 => Star(q))
           Bad == {u \in 0..n : ~Claim(n + 1 - u)}
<1>1. /\ n \in Nat /\ m \in Nat /\ Len(P) \in Nat /\ Len(T) \in Nat
      /\ po[0] = 0 /\ po[n] = Len(P) /\ to[0] = 0 /\ to[m] = Len(T)
  BY DEF Layout, Laid
<1>2. Stand(n + 1)
  <2> SUFFICES ASSUME NEW c \in 0..m, MatchesAt(pattern, path, po, to, n + 1, c)
               PROVE  StandsFrom(pattern, path, n + 1, c)
    BY DEF MatchesStand
  <2>1. (n + 1) - 1 = n
    BY <1>1
  <2>2. Matches(P, T, Len(P) + 1, to[c] + 1)
    BY <1>1, <2>1 DEF MatchesAt
  <2>3. to[c] + 1 \in 1..(Len(T) + 1) /\ to[c] \in Nat /\ (c < m <=> to[c] + 1 <= Len(T))
    BY NameEnds
  <2>4. to[c] + 1 = Len(T) + 1
    BY <1>1, <2>2, <2>3, MatchesEnd
  <2>5. c = m
    <3> HIDE DEF m, T
    <3> QED
      BY <1>1, <2>3, <2>4
  <2> QED
    BY <1>1, <2>5, StandsAtEnd
<1>3. ASSUME NEW q \in 1..n, Stand(q + 1), q # n => Star(q + 1)
      PROVE  Stand(q) /\ Star(q)
  BY <1>3, ReverseStep
<1>4. Stand(1) => SegmentsMatch(pattern, path)
  <2> SUFFICES ASSUME Stand(1) PROVE SegmentsMatch(pattern, path)
    OBVIOUS
  <2>1. 0 \in 0..m /\ 1 - 1 = 0 /\ po[0] + 1 = 1 /\ to[0] + 1 = 1
    BY <1>1
  <2>2. MatchesAt(pattern, path, po, to, 1, 0)
    BY <2>1 DEF MatchesAt, Matches, GlobMatches
  <2>3. StandsFrom(pattern, path, 1, 0)
    BY <2>1, <2>2 DEF MatchesStand
  <2> QED
    BY <1>1, <2>3, StandsForAll
<1> HIDE DEF n, m, P, T, Stand, Star
<1>5. Bad = {}
  <2> SUFFICES ASSUME Bad # {} PROVE FALSE
    OBVIOUS
  <2>1. PICK u \in Bad : \A l \in Bad : u <= l
    <3>1. Bad \subseteq Nat
      OBVIOUS
    <3> HIDE DEF Bad
    <3> QED
      BY <3>1, LeastExists, Zenon
  <2>2. u \in 0..n /\ ~Claim(n + 1 - u)
    BY <2>1
  <2>3. CASE u = 0
    <3>1. n + 1 - u = n + 1
      BY <1>1, <2>3
    <3> QED
      BY <1>2, <2>2, <3>1
  <2>4. CASE u # 0
    <3> DEFINE q == n + 1 - u
    <3>1. /\ q \in 1..n /\ u - 1 \in 0..n /\ ~(u <= u - 1)
          /\ n + 1 - (u - 1) = q + 1 /\ (q # n => q + 1 # n + 1)
      BY <1>1, <2>2, <2>4
    <3>2. u - 1 \notin Bad
      BY <2>1, <3>1
    <3>3. Claim(n + 1 - (u - 1))
      <4> HIDE DEF Claim
      <4> QED
        BY <3>1, <3>2
    <3>4. Claim(q + 1) /\ ~Claim(q)
      <4> HIDE DEF Claim
      <4> QED
        BY <2>2, <3>1, <3>3
    <3> HIDE DEF q, Bad
    <3> QED
      BY <1>3, <3>1, <3>4
  <2> QED
    BY <2>3, <2>4
<1>6. n \in 0..n /\ n + 1 - n = 1
  BY <1>1
<1>7. Claim(n + 1 - n)
  <2> HIDE DEF Claim
  <2> QED
    BY <1>5, <1>6
<1>8. Stand(1)
  BY <1>6, <1>7
<1> QED
  BY <1>4, <1>8

\* What glob_matches makes of a pattern and a path is what the pattern says of
\* it, segment by segment, however they are spelt.
LEMMA GlobReads ==
    ASSUME NEW C, NEW pattern \in Seq(Name), NEW path \in Seq(Seq(C)),
           \A c \in 1..Len(path) : \A i \in 1..Len(path[c]) : path[c][i] # Separator
    PROVE  /\ SegmentsMatch(pattern, path) =>
                 GlobMatches(Written(pattern), Written(path))
           /\ GlobMatches(Written(pattern), Written(path)) =>
                 SegmentsMatch(pattern, path) \/ ~ReadsBySegments(pattern)
<1>1. Name \subseteq Seq(STRING)
  BY DEF Name
<1>2. pattern \in Seq(Seq(STRING))
  <2> DEFINE S == Seq(STRING)
  <2>1. Name \subseteq S
    BY <1>1
  <2> HIDE DEF S
  <2>2. pattern \in Seq(S)
    BY <2>1, SeqMonotonic
  <2> QED
    BY <2>2 DEF S
<1>3. PICK po : Laid(pattern, po)
  BY <1>2, LaidOut
<1>4. PICK to : Laid(path, to)
  BY LaidOut
<1>5. Layout(pattern, path, po, to)
  <2>1. Len(Written(pattern)) \in Nat /\ Len(Written(path)) \in Nat
    <3>1. Written(pattern) \in Seq(STRING \cup {Separator})
      BY <1>2, LaidOut
    <3>2. Written(path) \in Seq(C \cup {Separator})
      BY LaidOut
    <3> QED
      BY <3>1, <3>2
  <2>2. Len(pattern) \in Nat /\ Len(path) \in Nat
    OBVIOUS
  <2> QED
    BY <1>3, <1>4, <2>1, <2>2 DEF Layout
<1>6. ReadsBySegments(pattern) => Readable(pattern)
  <2> SUFFICES ASSUME ReadsBySegments(pattern) PROVE Readable(pattern)
    OBVIOUS
  <2>1. ASSUME NEW q \in 1..Len(pattern)
        PROVE  /\ pattern[q] \in Seq(STRING)
               /\ \A p \in 1..Len(pattern[q]) : pattern[q][p] # Separator
    <3>1. pattern[q] \in Name
      OBVIOUS
    <3> QED
      BY <3>1 DEF Name
  <2>2. ASSUME NEW q \in 1..(Len(pattern) - 1), pattern[q] = DoubleStar
        PROVE  Len(pattern[q + 1]) > 0 /\ pattern[q + 1][1] = "*"
    <3>1. pattern[q + 1] # <<>> /\ pattern[q + 1][1] = "*"
      BY <2>2 DEF ReadsBySegments
    <3>2. pattern[q + 1] \in Seq(STRING)
      <4>1. q + 1 \in 1..Len(pattern)
        OBVIOUS
      <4> QED
        BY <2>1, <4>1
    <3> QED
      BY <3>1, <3>2
  <2> QED
    BY <2>1, <2>2 DEF ReadsBySegments, Readable
<1> QED
  BY <1>5, <1>6, StandsMatches, MatchesStands

\* The names of the workspace are names, and what is written of them is its text.
LEMMA WorkspaceText ==
    /\ NamesOf(PathText(Workspace)) \in Seq(Name)
    /\ Written(NamesOf(PathText(Workspace))) = PathText(Workspace)
<1> DEFINE C == STRING \cup {Separator}
           S == Seq(C)
           text == PathText(Workspace)
           names == NamesOf(text)
<1>1. NamesIn(C) \subseteq Name
  <2> SUFFICES ASSUME NEW chars \in NamesIn(C)
               PROVE  chars \in Name
    OBVIOUS
  <2>1. chars \in Seq(C) /\ \A i \in 1..Len(chars) : chars[i] # Separator
    BY DEF NamesIn
  <2>2. \A i \in 1..Len(chars) : chars[i] \in STRING
    BY <2>1
  <2>3. chars \in Seq(STRING)
    BY <2>1, <2>2
  <2> QED
    BY <2>1, <2>3 DEF Name
<1>2. Workspace \in Seq(S)
  <2>1. Name \subseteq S
    <3>1. Seq(STRING) \subseteq Seq(C)
      <4>1. STRING \subseteq C
        OBVIOUS
      <4> QED
        BY <4>1, SeqMonotonic
    <3> QED
      BY <3>1 DEF Name
  <2>2. Workspace \in Seq(Name)
    BY RawPathsAssumption
  <2> HIDE DEF S
  <2> QED
    BY <2>1, <2>2, SeqMonotonic
<1>3. text \in Seq(C) /\ (Len(text) > 0 => text[1] = Separator)
  <2>1. Separator \in C /\ Workspace \in Seq(Seq(C))
    BY <1>2
  <2> HIDE DEF C
  <2> QED
    BY <2>1, PathTextIs
<1> HIDE DEF text
<1>4. names \in Seq(NamesIn(C)) /\ Written(names) = text
  BY <1>3, NamesRead
<1>5. names \in Seq(Name)
  <2> DEFINE N == NamesIn(C)
  <2>1. names \in Seq(N) /\ N \subseteq Name
    BY <1>1, <1>4
  <2> HIDE DEF N, names
  <2> QED
    BY <2>1, SeqMonotonic
<1> QED
  BY <1>4, <1>5 DEF text

\* An absolute pattern is a sequence of segments, and its text is written of them.
LEMMA PatternTextIs ==
    ASSUME NEW pattern \in Pattern
    PROVE  /\ AbsolutePattern(pattern) \in Seq(Name)
           /\ Written(AbsolutePattern(pattern)) = PatternText(pattern)
<1> DEFINE names == NamesOf(PathText(Workspace))
           segs == pattern.segments
           S == Seq(STRING)
<1>1. segs \in Seq(Name)
  BY DEF Pattern
<1>2. CASE pattern.absolute
  BY <1>1, <1>2 DEF AbsolutePattern, PatternText
<1>3. CASE ~pattern.absolute
  <2>1. names \in Seq(Name) /\ Written(names) = PathText(Workspace)
    BY WorkspaceText
  <2> HIDE DEF names, segs
  <2>2. names \o segs \in Seq(Name)
    BY <1>1, <2>1, ConcatProperties
  <2>3. names \in Seq(S) /\ segs \in Seq(S)
    <3>1. Name \subseteq S
      BY DEF Name
    <3> HIDE DEF S
    <3> QED
      BY <1>1, <2>1, <3>1, SeqMonotonic
  <2>4. Written(names \o segs) = Written(names) \o Written(segs)
    BY <2>3, WrittenJoined
  <2> QED
    BY <1>3, <2>1, <2>2, <2>4 DEF AbsolutePattern, PatternText, names, segs
<1> QED
  BY <1>2, <1>3

\* So it is with every rule of the document and the path of every decision.
LEMMA PatternsRead == ConfigInv /\ ResolvedInv => PatternsFollowSegments
<1> SUFFICES ASSUME ConfigInv, ResolvedInv, decision.checked,
                    NEW i \in 1..Len(Document), NEW pattern \in Document[i].resources
             PROVE  LET absolute == AbsolutePattern(pattern)
                        stands == SegmentsMatch(absolute, NamesOf(PathText(decision.path)))
                        matches == GlobMatches(PatternText(pattern), PathText(decision.path))
                    IN /\ stands => matches
                       /\ matches => stands \/ ~ReadsBySegments(absolute)
  BY DEF PatternsFollowSegments
<1> DEFINE path == decision.path
           C == STRING \cup {".", Separator}
           S == Seq(C)
           N == NamesIn(C)
           text == PathText(path)
           names == NamesOf(text)
           absolute == AbsolutePattern(pattern)
<1>1. /\ absolute \in Seq(Name) /\ Written(absolute) = PatternText(pattern)
  <2>1. Document[i] \in Rule
    BY DEF ConfigInv, ServingInv, NoDecision
  <2>2. pattern \in Pattern
    BY <2>1 DEF Rule
  <2> QED
    BY <2>2, PatternTextIs
<1>2. path \in Seq(S)
  <2>1. Component \subseteq S
    <3>1. Seq(STRING) \subseteq S
      <4>1. STRING \subseteq C
        OBVIOUS
      <4> QED
        BY <4>1, SeqMonotonic
    <3>2. DotDot \in Seq(C)
      BY DEF DotDot
    <3> QED
      BY <3>1, <3>2 DEF Component, Name
  <2>2. path \in Seq(Component)
    BY ResolvedType DEF ResolvedInv
  <2> HIDE DEF S, path
  <2> QED
    BY <2>1, <2>2, SeqMonotonic
<1> HIDE DEF path
<1>3. text \in Seq(C) /\ (Len(text) > 0 => text[1] = Separator)
  <2>1. Separator \in C /\ path \in Seq(Seq(C))
    BY <1>2
  <2> HIDE DEF C
  <2> QED
    BY <2>1, PathTextIs
<1> HIDE DEF text, C
<1>4. names \in Seq(N) /\ Written(names) = text
  BY <1>3, NamesRead
<1> HIDE DEF names
<1>5. names \in Seq(S)
  <2>1. N \subseteq S
    BY DEF NamesIn
  <2> HIDE DEF S, N
  <2> QED
    BY <1>4, <2>1, SeqMonotonic
<1>6. \A c \in 1..Len(names) : \A k \in 1..Len(names[c]) : names[c][k] # Separator
  <2> SUFFICES ASSUME NEW c \in 1..Len(names)
               PROVE  \A k \in 1..Len(names[c]) : names[c][k] # Separator
    OBVIOUS
  <2>1. names[c] \in N
    <3> HIDE DEF N
    <3> QED
      BY <1>4
  <2> QED
    BY <2>1 DEF NamesIn
<1>7. /\ SegmentsMatch(absolute, names) => GlobMatches(Written(absolute), Written(names))
      /\ GlobMatches(Written(absolute), Written(names)) =>
             SegmentsMatch(absolute, names) \/ ~ReadsBySegments(absolute)
  <2>1. absolute \in Seq(Name) /\ names \in Seq(Seq(C))
    BY <1>1, <1>5
  <2> HIDE DEF absolute
  <2> QED
    BY <1>6, <2>1, GlobReads
<1>8. /\ SegmentsMatch(absolute, names) => GlobMatches(PatternText(pattern), text)
      /\ GlobMatches(PatternText(pattern), text) =>
             SegmentsMatch(absolute, names) \/ ~ReadsBySegments(absolute)
  <2> HIDE DEF absolute
  <2> QED
    BY <1>1, <1>4, <1>7, Zenon
<1> QED
  BY <1>8 DEF path, text, names

\* Whatever the patterns and the paths, backslashes in them included,
\* glob_matches finds every path that a pattern stands for, segment by segment,
\* and no other unless a `**' may begin or end inside a name: its backtracking
\* loses nothing, and neither the one separator that it skips after `**' nor a
\* `*' lets a name be split.  The segments of the path and of the workspace are
\* those that check_access makes of them, where a backslash ends a name.
THEOREM PatternsMatchAsMeant == ConfigSpec => []PatternsFollowSegments
  BY ConfigInvariant, ResolvedInvariant, PatternsRead, PTL
===============================================================================
