------------------------------- MODULE Buffers ------------------------------
(***************************************************************************)
(* What a control block keeps in memory that it sizes itself, side by      *)
(* side: the buffers and datagrams of KcpPack and, as an instance, the     *)
(* array of acknowledgements of KcpAckList.  They share no field.          *)
(***************************************************************************)
EXTENDS KcpPack

CONSTANTS FirstBlock, Sns, Tss, Junk, MaxAcks

VARIABLES acklist, ackblock, ackcount, answered, heard, asked

Acks == INSTANCE KcpAckList

(* ikcp_ack_push, ikcp_flush: every flush acknowledges exactly what was    *)
(* heard since the last one.                                               *)
Acknowledges == Acks!Acknowledges

=============================================================================
