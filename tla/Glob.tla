--------------------------------- MODULE Glob ---------------------------------
(***************************************************************************)
(* The resource patterns of policy rules (glob_matches in src/access.rs)   *)
(* and what they are for.  The code compares characters and backtracks;    *)
(* the reading of the documents is by segments: a segment of a pattern     *)
(* stands for one name, and `**' for any number of them.                   *)
(***************************************************************************)
EXTENDS Integers, Sequences

Separator == "/"
Backslash == "\\"

\* A name in a path, or a segment of a pattern: what is between separators.
Name == {chars \in Seq(STRING) : \A i \in 1..Len(chars) : chars[i] # Separator}

\* replace('\\', "/")
Forward(text) ==
    [i \in 1..Len(text) |-> IF text[i] = Backslash THEN Separator ELSE text[i]]

\* `*' stands for text[j] to text[k - 1], which holds no separator.
StarReaches(text, j, k) == \A i \in j..(k - 1) : text[i] # Separator

\* Mutant of AfterDoubleStar: the separator after `**' is not skipped, so that
\* `**' cannot stand for no segment at all.
AfterBothStars(pattern, i) == i + 2

\* `**' is skipped together with a separator that follows it.
AfterDoubleStar(pattern, i) ==
    IF i + 2 <= Len(pattern) /\ pattern[i + 2] = Separator THEN i + 3 ELSE i + 2

\* glob_inner(&pattern[i..], &text[j..]), for each i and j.
GlobInner(pattern, text) ==
    LET ends == Len(text) + 1
        matches[i \in 1..(Len(pattern) + 1)] ==
          [j \in 1..ends |->
             IF i > Len(pattern) THEN j = ends
             ELSE IF pattern[i] = "*" THEN
               IF i < Len(pattern) /\ pattern[i + 1] = "*"
               THEN \E k \in j..ends : matches[AfterDoubleStar(pattern, i)][k]
               ELSE \E k \in j..ends : StarReaches(text, j, k) /\ matches[i + 1][k]
             ELSE /\ j < ends
                  /\ IF pattern[i] = "?" THEN text[j] # Separator ELSE text[j] = pattern[i]
                  /\ matches[i + 1][j + 1]]
    IN matches

GlobMatches(pattern, text) == GlobInner(pattern, text)[1][1]

-----------------------------------------------------------------------------
(* The reference: a path is a sequence of names, a name a sequence of       *)
(* characters, and a pattern a sequence of segments.                        *)

DoubleStar == <<"*", "*">>

\* Each character of the name is in a `*', or in a character of the segment
\* that stands for it alone, in order.
NameMatches(segment, name) ==
    \E place \in [1..Len(name) -> 1..Len(segment)] :
        /\ \A i, j \in 1..Len(name) : i < j => place[i] <= place[j]
        /\ \A i \in 1..Len(name) : segment[place[i]] \in {"*", "?", name[i]}
        /\ \A q \in 1..Len(segment) :
              segment[q] # "*" =>
                 \E i \in 1..Len(name) :
                    place[i] = q /\ \A j \in 1..Len(name) : place[j] = q => j = i

\* The names from the first to the last that segment number q stands for, where
\* cut[q] of them are before it: one name, or as many as one likes for `**', but
\* at least one when it ends the pattern.
SegmentsMatch(pattern, path) ==
    \E cut \in [1..(Len(pattern) + 1) -> 0..Len(path)] :
        /\ cut[1] = 0 /\ cut[Len(pattern) + 1] = Len(path)
        /\ \A q \in 1..Len(pattern) :
              IF pattern[q] = DoubleStar
              THEN IF q = Len(pattern) THEN cut[q] < cut[q + 1] ELSE cut[q] <= cut[q + 1]
              ELSE cut[q + 1] = cut[q] + 1 /\ NameMatches(pattern[q], path[cut[q] + 1])

\* The characters of an absolute path, or of an absolute pattern.
Written(segments) ==
    LET from[q \in 0..Len(segments)] ==
          IF q = 0 THEN <<>> ELSE from[q - 1] \o <<Separator>> \o segments[q]
    IN from[Len(segments)]

\* The names in such a text: a separator begins one.
NamesOf(text) ==
    LET names[n \in 0..Len(text)] ==
          IF n = 0 THEN <<>>
          ELSE IF text[n] = Separator THEN Append(names[n - 1], <<>>)
          ELSE [names[n - 1] EXCEPT ![Len(names[n - 1])] = Append(@, text[n])]
    IN names[Len(text)]

\* Two stars in a row are a segment, and what follows it begins with a `*', if
\* anything follows: then they need not end at the end of a segment for the
\* pattern to be read by segments.
ReadsBySegments(pattern) ==
    /\ \A q \in 1..Len(pattern) :
          pattern[q] # DoubleStar =>
             \A i \in 1..(Len(pattern[q]) - 1) :
                pattern[q][i] # "*" \/ pattern[q][i + 1] # "*"
    /\ \A q \in 1..(Len(pattern) - 1) :
          pattern[q] = DoubleStar =>
             pattern[q + 1] # <<>> /\ pattern[q + 1][1] = "*"
===============================================================================
