---------------------------- MODULE MCStructures ----------------------------
(***************************************************************************)
(* The data structures, in one run: the two trees of libuv, the array of   *)
(* acknowledgements and the datagrams of a control block.  They do not     *)
(* touch each other's variables, so `part' names the one that moves and    *)
(* the others stand still: the run is the sum of five, not their product.  *)
(* Init, Next and vars are those of KcpPack.                               *)
(***************************************************************************)
EXTENDS Buffers

CONSTANTS N, DeepN, NULL, Node

VARIABLES
  part,
  tree, last, deep, deep_last, splay, splay_last

(* Elements 1..n of a tree; the last one has the key of the third.         *)
Keys(n) == [e \in 1..n |-> IF e = n THEN 3 ELSE e]

Key == Keys(N)
Nodes == DOMAIN Key
DeepKey == Keys(DeepN)
DeepNodes == DOMAIN DeepKey

RbTree == INSTANCE RbTree
DeepTree == INSTANCE RbTree WITH
  Nodes <- DeepNodes, Key <- DeepKey, tree <- deep, last <- deep_last
SplayTree == INSTANCE SplayTree WITH tree <- splay, last <- splay_last

ASSUME /\ RbTree!NodesAssumption /\ DeepTree!NodesAssumption /\ SplayTree!NodesAssumption
       /\ Acks!AckAssumption /\ PackAssumption

treeVars == <<tree, last>>
deepVars == <<deep, deep_last>>
splayVars == <<splay, splay_last>>
ackVars == <<acklist, ackblock, ackcount, answered, heard, asked>>
packVars == vars
structures == <<part, treeVars, deepVars, splayVars, ackVars, packVars>>

(* A part that stands still needs only one of its initial states.          *)
StructuresInit ==
  /\ part \in {"tree", "deep", "splay", "acklist", "pack"}
  /\ RbTree!RB_INIT /\ DeepTree!RB_INIT /\ SplayTree!SPLAY_INIT
  /\ Acks!Init /\ Init

Only(p) == part = p /\ UNCHANGED part

(* Every operation on small trees, insertion and removal on larger ones.   *)
StructuresNext ==
  \/ /\ Only("tree") /\ RbTree!Next
     /\ UNCHANGED <<deepVars, splayVars, ackVars, packVars>>
  \/ /\ Only("deep") /\ DeepTree!Update
     /\ UNCHANGED <<treeVars, splayVars, ackVars, packVars>>
  \/ /\ Only("splay") /\ SplayTree!Next
     /\ UNCHANGED <<treeVars, deepVars, ackVars, packVars>>
  \/ /\ Only("acklist") /\ Acks!Next
     /\ UNCHANGED <<treeVars, deepVars, splayVars, packVars>>
  \/ /\ Only("pack") /\ Next
     /\ UNCHANGED <<treeVars, deepVars, splayVars, ackVars>>

StructuresSpec == StructuresInit /\ [][StructuresNext]_structures

-----------------------------------------------------------------------------
(* The properties of the parts.                                            *)

(* RB_INSERT, RB_REMOVE and the questions of the red-black tree answer as  *)
(* an ordered set does.                                                    *)
RbImplementsSet ==
  RbTree!Set!SetInit /\ [][part = "tree" => RbTree!Set!SetNext]_treeVars

(* RB_ROTATE, RB_INSERT_COLOR, RB_REMOVE_COLOR: parent and child links     *)
(* agree and the tree stays balanced.                                      *)
RedBlack == part = "deep" => DeepTree!LinksAgree /\ DeepTree!RedBlack

(* SPLAY_INSERT, SPLAY_REMOVE and the questions of the splay tree, each of *)
(* which rebuilds the tree, answer as an ordered set does.                 *)
SplayImplementsSet ==
  SplayTree!Set!SetInit /\ [][part = "splay" => SplayTree!Set!SetNext]_splayVars

(* SPLAY, SPLAY_REMOVE: no element is lost, doubled or misplaced.          *)
InOrder == part = "splay" => SplayTree!InOrder

=============================================================================
