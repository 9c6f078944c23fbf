----------------------------- MODULE Fragments -----------------------------
(***************************************************************************)
(* What both the KCP control block and the pipe it implements talk about:  *)
(* the two ends of one conversation and the fragments of user messages.    *)
(*                                                                         *)
(* ikcp_send cuts a user message of `count' segments into fragments with   *)
(* frg = count-1, ..., 1, 0.  Payload bytes are abstracted to the identity *)
(* of the fragment: `id' is the offset in the sender's stream at which the *)
(* message starts, so no two fragments of one sender are equal.            *)
(***************************************************************************)
EXTENDS Integers, Sequences

CONSTANTS
  Endpoints,  \* the two ends of the conversation
  MaxCount    \* largest number of fragments ikcp_send is asked to make

ASSUME EndpointsAssumption ==
  \E a, b \in Endpoints : a # b /\ Endpoints = {a, b}

ASSUME MaxCountAssumption ==
  MaxCount \in Nat \ {0}

Peer(e) == CHOOSE p \in Endpoints : p # e

Fragment == [id : Nat, frg : Nat]

(* Mutant of Message: frg counts from count instead of count - 1.          *)
MessageFrgOffByOne(id, count) ==
  [i \in 1..count |-> [id |-> id, frg |-> count - i + 1]]

(***************************************************************************)
(* The fragments ikcp_send appends for a message of `count' segments that  *)
(* starts at stream offset `id'.                                           *)
(***************************************************************************)
Message(id, count) ==
  [i \in 1..count |-> [id |-> id, frg |-> count - i]]

=============================================================================
