------------------------------- MODULE CstFile -------------------------------
(***************************************************************************)
(* The in-memory representation of one source file (src/cst.rs): its text, *)
(* its version counter, and the five edit operations, each of which leaves *)
(* the file alone and returns a new one.                                   *)
(*                                                                         *)
(* A text is abstracted to the set of contributions that can still be read *)
(* in it: one mark for the original content, one for each write by an      *)
(* outside process and one for each call of the client that added text.    *)
(* An edit removes the marks under the node it names and adds its own, so  *)
(* a lost update is a mark that is missing.  A parse tree is a function of *)
(* the text and the path, and is not kept.                                 *)
(***************************************************************************)
EXTENDS Naturals

CONSTANTS
    Paths,           \* paths inside the workspace, resolved
    PlainFiles,      \* the paths whose extension has no grammar
    Requests,        \* the tool calls the client makes, each at most once
    ExternalWrites,  \* what other processes do to the disk, each at most once
    Original,        \* the mark of the content the files start with
    NoVersion        \* expected_version = None

Marks == Requests \cup ExternalWrites \cup {Original}

Text == SUBSET Marks

File == [text : Text, version : Nat]

ParseWithVersion(text, version) == [text |-> text, version |-> version]

\* Mutant of Parse: the version of a file that was never changed is -1.
ParseUnversioned(text) == ParseWithVersion(text, 0 - 1)

Parse(text) == ParseWithVersion(text, 0)

CheckVersion(f, expected) == expected = NoVersion \/ f.version = expected

\* The spans a valid node id can denote: the root's, or one leaf's.
Nodes(text) == {text} \cup {{m} : m \in text}

Splice(text, span, replacement) == (text \ span) \cup replacement

NextVersion(f, text) == ParseWithVersion(text, f.version + 1)

ReplaceNode(f, node, r) == NextVersion(f, Splice(f.text, node, {r}))

\* insert_before, insert_after and insert_into splice at an empty span.
InsertText(f, r) == NextVersion(f, Splice(f.text, {}, {r}))

DeleteNode(f, node) == NextVersion(f, Splice(f.text, node, {}))

\* Every file that an edit tool called as request r can compute from f.
Edits(f, r) ==
    {ReplaceNode(f, n, r) : n \in Nodes(f.text)}
        \cup {DeleteNode(f, n) : n \in Nodes(f.text)}
        \cup {InsertText(f, r)}
=============================================================================
