------------------------------- MODULE MCKcp -------------------------------
(* Small instances of Kcp.                                                 *)
EXTENDS KcpInvariant, TLC

CONSTANTS a, b

MCEndpoints == {a, b}

(* One direction: only a's user sends. *)
OneWay == (a :> 3) @@ (b :> 0)

(* Both users send: acknowledgements ride on data. *)
BothWays == (a :> 3) @@ (b :> 1)

=============================================================================
