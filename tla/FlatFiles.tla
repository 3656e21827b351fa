------------------------------ MODULE FlatFiles ------------------------------
(***************************************************************************)
(* What hw4's file system promises its users: a flat directory that maps   *)
(* names to contents, a save of the whole directory now and then, and a    *)
(* mount that gives back the last save. A save that is interrupted may     *)
(* cost everything (the mount finds an empty directory, or refuses), but   *)
(* it never gives back a directory that was not there.                     *)
(***************************************************************************)
EXTENDS Naturals, Functions

CONSTANTS Names, Contents, Empty

VARIABLES
  state,   (* "down", "up", or "refused" when a mount gave up.             *)
  tree,    (* The directory while the system is up.                        *)
  saved,   (* What the last complete save wrote.                           *)
  torn     (* A save was begun and has not been completed.                 *)

vars == <<state, tree, saved, torn>>

NoFiles == [n \in {} |-> Empty]
Trees == UNION {[D -> Contents] : D \in SUBSET Names}

TypeOK == /\ state \in {"down", "up", "refused"}
          /\ tree \in Trees /\ saved \in Trees
          /\ torn \in BOOLEAN

Init == state = "down" /\ tree = NoFiles /\ saved = NoFiles /\ torn = FALSE

Set(n, c) == [m \in DOMAIN tree \cup {n} |-> IF m = n THEN c ELSE tree[m]]
Without(n) == Restrict(tree, DOMAIN tree \ {n})

Edit(t) == /\ state = "up" /\ tree' = t
           /\ UNCHANGED <<state, saved, torn>>

Create(n) == n \notin DOMAIN tree /\ Edit(Set(n, Empty))
Overwrite(n, c) == n \in DOMAIN tree /\ Edit(Set(n, c))

(***************************************************************************)
(* A removal or a renaming begins a save in the same step.                 *)
(***************************************************************************)
BeginSave(t) == /\ state = "up" /\ tree' = t /\ torn' = TRUE
                /\ UNCHANGED <<state, saved>>

Save == BeginSave(tree)
Delete(n) == n \in DOMAIN tree /\ BeginSave(Without(n))
Move(n, m) ==
  /\ n \in DOMAIN tree /\ m \notin DOMAIN tree
  /\ BeginSave([k \in (DOMAIN tree \ {n}) \cup {m} |->
                  IF k = m THEN tree[n] ELSE tree[k]])

EndSave == /\ state = "up" /\ torn
           /\ saved' = tree /\ torn' = FALSE
           /\ UNCHANGED <<state, tree>>

Start ==
  /\ state # "up"
  /\ \/ ~torn /\ state' = "up" /\ tree' = saved
     \/ torn /\ state' = "up" /\ tree' = NoFiles
     \/ torn /\ state' = "refused" /\ tree' = NoFiles
  /\ UNCHANGED <<saved, torn>>

Stop == /\ state = "up" /\ state' = "down" /\ tree' = NoFiles
        /\ UNCHANGED <<saved, torn>>

Next == \/ Save \/ EndSave \/ Start \/ Stop
        \/ \E n \in Names : Create(n) \/ Delete(n)
        \/ \E n, m \in Names : Move(n, m)
        \/ \E n \in Names, c \in Contents : Overwrite(n, c)

Spec == Init /\ [][Next]_vars
=============================================================================
