------------------------------ MODULE MCKcpuv ------------------------------
(* Small instances of Kcpuv.                                               *)
EXTENDS KcpuvInvariant, TLC

CONSTANTS c1, c2, srv

(* One connection with traffic both ways.                                  *)
One == {c1}
Chat == (c1 :> 2) @@ (srv :> 2)
Greet == (c1 :> 1) @@ (srv :> 1)

(* Two clients that only shake hands; the server may speak first.          *)
Two == {c1, c2}
Handshake == [h \in {c1, c2, srv} |-> 1]

(* Two clients, of which only c1 also sends a message of its own.          *)
OneSender == (c1 :> 2) @@ (c2 :> 1) @@ (srv :> 0)

(* Sound for the safety runs: nothing tells these values apart.            *)
Symmetry ==
  Permutations(Nonces) \cup Permutations(Keys)
  \cup Permutations(Convs \ 0..CONV_RESERVED)

SymmetryOfClients == Symmetry \cup Permutations(Clients)

=============================================================================
