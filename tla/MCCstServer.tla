----------------------------- MODULE MCCstServer -----------------------------
(***************************************************************************)
(* CstServer for TLC: two files, up to three calls and one outside write.  *)
(***************************************************************************)
EXTENDS CstServer, TLC

CONSTANTS main_rs, lib_rs, call1, call2, call3, write1

OneFile == {main_rs}
TwoFiles == {main_rs, lib_rs}
Plain == {lib_rs}
TwoCalls == {call1, call2}
ThreeCalls == {call1, call2, call3}
OneWrite == {write1}
AllTools ==
    {"track", "untrack", "edit", "create", "delete_file", "save", "read"}
TrackOnly == {"track"}
EditOnly == {"edit"}
SaveAndEdit == {"save", "edit"}
UntrackAndEdit == {"untrack", "edit"}
AllExternalOps == {"write", "remove", "replace"}
WritesOnly == {"write"}
SomeDenied == {<<"delete_file", lib_rs>>}
AnyVersion == {NoVersion, 0, 1}
Unguarded == {NoVersion}
Symmetry == Permutations(Requests)
==============================================================================
