--------------------------- MODULE MallocInterface ---------------------------
(***************************************************************************)
(* What a caller of malloc relies on, with no heap and no list: the        *)
(* regions it holds never overlap, nothing but its own calls takes one     *)
(* away or moves it, and the process ends at most once.                    *)
(***************************************************************************)
EXTENDS Integers, Functions

CONSTANTS
  Sizes,     (* The sizes that can be asked for.       *)
  Limit      (* No region reaches beyond this address. *)

VARIABLES
  held,      (* The regions the caller holds: start -> size. *)
  up         (* Is the process running normally?             *)

Apart(p, m, q, n) == p # q /\ (p + m <= q \/ q + n <= p)

Init == held = [p \in {} |-> 0] /\ up = TRUE

Alloc(p, n) ==
  /\ up /\ n \in Sizes /\ p + n <= Limit
  /\ \A q \in DOMAIN held : Apart(p, n, q, held[q])
  /\ held' = [q \in DOMAIN held \cup {p} |-> IF q = p THEN n ELSE held[q]]
  /\ UNCHANGED up

Release(p) ==
  /\ up /\ p \in DOMAIN held
  /\ held' = Restrict(held, DOMAIN held \ {p})
  /\ UNCHANGED up

End == up /\ up' = FALSE /\ UNCHANGED held

Next ==
  \/ \E p \in 1 .. Limit, n \in Sizes : Alloc(p, n)
  \/ \E p \in DOMAIN held : Release(p)
  \/ End

Spec == Init /\ [][Next]_<<held, up>>

=============================================================================
