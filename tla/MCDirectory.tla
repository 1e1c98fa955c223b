----------------------------- MODULE MCDirectory -----------------------------
(***************************************************************************)
(* Two organizations for TLC: north with its administrator, and south with *)
(* a single manager, whom the admin site may move; east is yet to be made. *)
(***************************************************************************)
EXTENDS Directory, TLC

CONSTANTS north, south, east, c1, p1, t1, d1, d2, ada, lea, r1, r2, r3

At(o, l) == [org |-> o, link |-> l]

\* South empty, south with everything a chain of links can hold, and south with
\* rows that link to nothing.
Tables ==
  { <<>>,
    (c1 :> At(south, NoLink)) @@ (p1 :> At(south, c1)) @@ (t1 :> At(south, p1)),
    (p1 :> At(south, NoLink)) @@ (t1 :> At(south, NoLink)) @@ (d1 :> At(south, NoLink)) }

Homes == (ada :> north) @@ (lea :> south)

RequestSymmetry == Permutations({r1, r2, r3})
==============================================================================
