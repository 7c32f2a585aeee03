----------------------------- MODULE PathResolve -----------------------------
(***************************************************************************)
(* From the path a client passes to the path a tool works on (resolve_path *)
(* and normalise_path in src/access.rs), on a system where from_unix_path  *)
(* changes nothing.  A path is the sequence of its components below the    *)
(* root; what the client passes may be relative to the workspace.          *)
(***************************************************************************)
EXTENDS Integers, Sequences, FiniteSets

CONSTANT Workspace   \* the canonical path of the workspace

Dot == <<".">>
DotDot == <<".", ".">>

ASSUME WorkspaceAssumption ==
    /\ Workspace \in Seq(Seq(STRING))
    /\ Workspace # <<>>
    /\ \A i \in 1..Len(Workspace) : Workspace[i] \notin {Dot, DotDot}

\* Pop, or `..' itself when there is nothing to pop; the next `..' pops it.
Pop(path) ==
    IF path = <<>> THEN <<DotDot>> ELSE SubSeq(path, 1, Len(path) - 1)

NormalisePath(path) ==
    LET out[i \in 0..Len(path)] ==
          IF i = 0 THEN <<>>
          ELSE IF path[i] = DotDot THEN Pop(out[i - 1])
          ELSE IF path[i] = Dot THEN out[i - 1]
          ELSE Append(out[i - 1], path[i])
    IN out[Len(path)]

StartsWith(path, prefix) ==
    Len(prefix) <= Len(path) /\ SubSeq(path, 1, Len(prefix)) = prefix

\* raw.absolute: does the string begin with a separator.
Absolute(raw) ==
    IF raw.absolute THEN raw.components ELSE Workspace \o raw.components

ResolvePath(raw) == NormalisePath(Absolute(raw))

\* Mutant of InWorkspace: the path is compared before it is normalised.
InWorkspaceAsWritten(raw) == StartsWith(Absolute(raw), Workspace)

InWorkspace(raw) == StartsWith(ResolvePath(raw), Workspace)

-----------------------------------------------------------------------------
(* The reference: what a path means, without a stack.  A name is taken back  *)
(* by the first `..' that follows it and as many names with their own `..'.  *)

Names(path, i, j) == Cardinality({k \in i..j : path[k] \notin {Dot, DotDot}})

Parents(path, i, j) == Cardinality({k \in i..j : path[k] = DotDot})

Left(path) ==
    {i \in 1..Len(path) :
        /\ path[i] \notin {Dot, DotDot}
        /\ \A j \in i..Len(path) : Names(path, i, j) > Parents(path, i, j)}

\* The path as it is meant, `..' at the root being the root.
Meant(path) ==
    LET nth(k) == CHOOSE i \in Left(path) :
                    Cardinality({j \in Left(path) : j <= i}) = k
    IN [k \in 1..Cardinality(Left(path)) |-> path[nth(k)]]

\* Some `..' is at the root.
LeavesRoot(path) ==
    \E n \in 1..Len(path) :
        \A i \in 1..n : Parents(path, i, n) > Names(path, i, n)
===============================================================================
