----------------------------- MODULE MCSessions -----------------------------
(* Small instances of Sessions: one or two tabs of one browser. *)
EXTENDS Sessions, TLC

CONSTANTS tab1, tab2, c1, c2, c3, c4, c5, c6, ann, bob

CallSymmetry == Permutations(Call) \cup Permutations(Account)

BrowserSymmetry == Permutations(Call) \cup Permutations(Account) \cup Permutations(Tab)
=============================================================================
