------------------------------ MODULE MCFuseNodes ------------------------------
(***************************************************************************)
(* FuseNodes for TLC. Each mode has the operations that can get into each  *)
(* other's way: open files are removed, names change and come back,        *)
(* directories come and go.                                                *)
(***************************************************************************)
EXTENDS FuseNodesProps, TLC

MCHidden == <<"h1", "h2">>
MCSymmetry == Permutations(Threads) \cup Permutations(Handles)

Mode(kinds, givesUp, remember, hardRemove) ==
  [kinds |-> kinds, givesUp |-> givesUp, remember |-> remember, hardRemove |-> hardRemove]

MCModes == {
  Mode({"create", "unlink", "open", "release"}, {"open"}, FALSE, FALSE),
  Mode({"create", "rename", "open", "release"}, {}, FALSE, FALSE),
  Mode({"mknod", "lookup", "unlink"}, {}, TRUE, FALSE),
  Mode({"mknod", "lookup", "unlink"}, {"lookup", "mknod"}, FALSE, TRUE),
  Mode({"mkdir", "mknod", "rmdir", "unlink"}, {}, FALSE, TRUE),
  Mode({"mknod", "lookup", "rename"}, {}, FALSE, TRUE)}
================================================================================
