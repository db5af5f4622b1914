--------------------------- MODULE MCAccountServer ---------------------------
(* Instances of AccountServer small enough for TLC.                         *)
EXTENDS AccountServer, TLC

CONSTANTS c1, c2, c3, u1, u2

Conns2 == {c1, c2}
Conns3 == {c1, c2, c3}
\* Each connection with an account of its own.
OwnUser2 == (c1 :> u1) @@ (c2 :> u2)
\* Two connections of one account, as after a client reconnects: they may be
\* exchanged for each other.
Shared3 == (c1 :> u1) @@ (c2 :> u1) @@ (c3 :> u2)
SharedSymmetry == Permutations({c1, c2})
=============================================================================
