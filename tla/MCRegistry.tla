----------------------------- MODULE MCRegistry -----------------------------
(* Instances of Registry. *)
EXTENDS Registry, TLC

CONSTANTS o1, stub, clem, a1, s1, s2, p2

Fr(o, s, p, n) == [org |-> o, session |-> s, pane |-> p, name |-> n]
(* One client declares a name, the other has none of its own *)
MCFrames == {Fr(o1, s1, None, None), Fr(o1, s2, p2, stub)}
ConnSymmetry == Permutations(Conn) \union Permutations(Token)
=============================================================================
