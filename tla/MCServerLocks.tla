---------------------------- MODULE MCServerLocks ----------------------------
(***************************************************************************)
(* ServerLocks for TLC: two calls at a time, two threads, two files with   *)
(* one or two matches each.                                                *)
(***************************************************************************)
EXTENDS ServerLocks

TwoPaths == {1, 2}
OneOrTwo == {1, 2}

On(tool, path) == [tool |-> tool, path |-> path, max |-> NoLimit]

MCCalls ==
    {On("read", 1), On("edit", 1), On("save", 1), On("track", 2), On("untrack", 2),
     [On("query", 1) EXCEPT !.max = 0], [On("query", 1) EXCEPT !.max = 2]}
===============================================================================
