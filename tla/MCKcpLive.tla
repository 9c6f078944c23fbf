----------------------------- MODULE MCKcpLive -----------------------------
(* A small instance of KcpLive.                                            *)
EXTENDS KcpLive, TLC

CONSTANTS a, b

MCEndpoints == {a, b}

(* One direction: only a's user sends. *)
OneWay == (a :> 2) @@ (b :> 0)

=============================================================================
