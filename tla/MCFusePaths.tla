------------------------------ MODULE MCFusePaths ------------------------------
(***************************************************************************)
(* FusePaths for TLC: /a is directory d, /a/a is directory e, /a/b is f.   *)
(***************************************************************************)
EXTENDS FusePathsProps, TLC


At(dir, name) == [dir |-> dir, name |-> name]
MCPlaces == "d" :> At(Root, "a") @@ "e" :> At("d", "a") @@ "f" :> At("d", "b")

Of(kind, n) == [kind |-> kind, asks |-> <<[dir |-> n, name |-> NoName, write |-> FALSE]>>]
Entry(dir, name, write) == [dir |-> dir, name |-> name, write |-> write]
Unlink(dir, name) == [kind |-> "unlink", asks |-> <<Entry(dir, name, TRUE)>>]
Rename(dir, name, to, as) ==
  [kind |-> "rename", asks |-> <<Entry(dir, name, TRUE), Entry(to, as, TRUE)>>]
Link(n, to, as) ==
  [kind |-> "link", asks |-> <<[dir |-> n, name |-> NoName, write |-> FALSE], Entry(to, as, FALSE)>>]

MCRequests ==
  {Of("path", "f"), Of("path", "e"), Of("open", "f"), Of("forget", "f"), Link("f", "e", "a"),
   Unlink("d", "b"), Unlink(Root, "b"), 
   Rename("d", "b", "e", "b"), Rename("e", "b", "d", "b"), Rename(Root, "a", Root, "b"), 
   Rename("d", "a", Root, "a"), Rename("d", "a", Root, "b")}
===============================================================================
