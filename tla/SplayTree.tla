----------------------------- MODULE SplayTree ------------------------------
(***************************************************************************)
(* The splay tree of libuv/inc/tree.h.  A tree is its root and the         *)
(* SPLAY_ENTRY of each element in it.  The top-down splay takes the tree   *)
(* apart into a left and a right tree, both hanging from a header element  *)
(* on the stack (Node), and puts them together again.  Code that the       *)
(* header writes twice, with left and right exchanged, is written once     *)
(* here, for a side d.                                                     *)
(***************************************************************************)
EXTENDS Integers, FiniteSets, Sequences, Functions

CONSTANTS
  Nodes,  \* elements the caller owns
  Key,    \* Key[n] is what the caller's cmp compares
  NULL,
  Node    \* __node: the header of the trees being taken apart

NodesAssumption ==
  NULL \notin Nodes /\ Node \notin Nodes /\ Node # NULL /\ Key \in [Nodes -> Int]

VARIABLES
  tree,  \* [root, at], where at[n] is the SPLAY_ENTRY of element n
  last   \* the last call: operation, argument, answer

vars == <<tree, last>>

Side == {"left", "right"}

Opposite(d) == IF d = "left" THEN "right" ELSE "left"

SPLAY_ENTRY == [left : Nodes \cup {NULL}, right : Nodes \cup {NULL}]

Leaf == [left |-> NULL, right |-> NULL]

Set == INSTANCE OrderedSet WITH contents <- DOMAIN tree.at

(* The caller's cmp(elm, n), as the side elm is on.                        *)
Cmp(elm, n) ==
  IF Key[elm] = Key[n] THEN "equal"
  ELSE IF Key[elm] < Key[n] THEN "left" ELSE "right"

(* SPLAY_ROTATE_RIGHT for d = "left", SPLAY_ROTATE_LEFT for d = "right":   *)
(* the d-child of the root becomes the root.                               *)
SPLAY_ROTATE(t, d) ==
  LET tmp == t.at[t.root][d]
  IN [t EXCEPT !.at[t.root][d] = t.at[tmp][Opposite(d)],
               !.at[tmp][Opposite(d)] = t.root,
               !.root = tmp]

(* SPLAY_LINKLEFT for d = "left" and SPLAY_LINKRIGHT for d = "right": the  *)
(* root goes to the tree whose open end is `end', its d-child is next.     *)
SPLAY_LINK(t, end, d) ==
  [t EXCEPT !.at[end][d] = t.root, !.root = t.at[t.root][d]]

SPLAY_ASSEMBLE(t, left, right) ==
  LET t1 == [t EXCEPT !.at[left].right = t.at[t.root].left,
                      !.at[right].left = t.at[t.root].right]
  IN [t1 EXCEPT !.at[t.root].left = t1.at[Node].right,
                !.at[t.root].right = t1.at[Node].left]

RECURSIVE TakeApart(_, _, _, _)

(* One unfolding is one turn of the loop of SPLAY or SPLAY_MINMAX: comp[n] *)
(* says on which side of n the search goes on.                             *)
TakeApart(t, left, right, comp) ==
  LET d   == comp[t.root]
      tmp == t.at[t.root][d]
      t1  == IF comp[tmp] = d THEN SPLAY_ROTATE(t, d) ELSE t
  IN IF d = "equal" \/ tmp = NULL THEN SPLAY_ASSEMBLE(t, left, right)
     ELSE IF comp[tmp] = d /\ t1.at[t1.root][d] = NULL
     THEN SPLAY_ASSEMBLE(t1, left, right)
     ELSE IF d = "left"
     THEN TakeApart(SPLAY_LINK(t1, right, d), left, t1.root, comp)
     ELSE TakeApart(SPLAY_LINK(t1, left, d), t1.root, right, comp)

Without(f, n) == Restrict(f, DOMAIN f \ {n})

With(f, n, x) == [m \in DOMAIN f \cup {n} |-> IF m = n THEN x ELSE f[m]]

(* The whole of SPLAY or SPLAY_MINMAX: set up the header, take apart.      *)
SplayBy(t, comp) ==
  LET t1 == TakeApart([t EXCEPT !.at = With(@, Node, Leaf)], Node, Node, comp)
  IN [t1 EXCEPT !.at = Without(@, Node)]

SPLAY(t, elm) == SplayBy(t, [n \in Nodes |-> Cmp(elm, n)])

SPLAY_MINMAX(t, d) == SplayBy(t, [n \in Nodes |-> d])

-----------------------------------------------------------------------------

(* elm becomes the root; the old root keeps what is beyond elm on side d.  *)
PutAbove(t, elm, d) ==
  LET at == With(t.at, elm, [Leaf EXCEPT ![d] = t.at[t.root][d],
                                         ![Opposite(d)] = t.root])
  IN [root |-> elm, at |-> [at EXCEPT ![t.root][d] = NULL]]

SPLAY_INSERT(elm) ==
  LET t == SPLAY(tree, elm)
  IN IF tree.root = NULL
     THEN /\ tree' = [root |-> elm, at |-> With(tree.at, elm, Leaf)]
          /\ Set!Answered("INSERT", elm, NULL)
     ELSE IF Cmp(elm, t.root) = "equal"
     THEN tree' = t /\ Set!Answered("INSERT", elm, t.root)
     ELSE /\ tree' = PutAbove(t, elm, Cmp(elm, t.root))
          /\ Set!Answered("INSERT", elm, NULL)

(* Mutant of JoinWithout: the left subtree is not splayed before the right *)
(* one is hung below its root.                                             *)
JoinUnsplayed(t, elm) ==
  LET left  == t.at[t.root].left
      right == t.at[t.root].right
      at    == Without(t.at, t.root)
  IN IF left = NULL THEN [root |-> right, at |-> at]
     ELSE [root |-> left, at |-> [at EXCEPT ![left].right = right]]

(* The root of t leaves: splaying the left subtree brings its greatest     *)
(* element up, below which there is room for the right subtree.            *)
JoinWithout(t, elm) ==
  LET left  == t.at[t.root].left
      right == t.at[t.root].right
      t1    == SPLAY([root |-> left, at |-> Without(t.at, t.root)], elm)
  IN IF left = NULL THEN [root |-> right, at |-> Without(t.at, t.root)]
     ELSE [t1 EXCEPT !.at[t1.root].right = right]

SPLAY_REMOVE(elm) ==
  LET t == SPLAY(tree, elm)
  IN IF tree.root = NULL
     THEN UNCHANGED tree /\ Set!Answered("REMOVE", elm, NULL)
     ELSE IF Cmp(elm, t.root) = "equal"
     THEN tree' = JoinWithout(t, elm) /\ Set!Answered("REMOVE", elm, elm)
     ELSE tree' = t /\ Set!Answered("REMOVE", elm, NULL)

SPLAY_FIND(elm) ==
  LET t == SPLAY(tree, elm)
  IN IF tree.root = NULL
     THEN UNCHANGED tree /\ Set!Answered("FIND", elm, NULL)
     ELSE /\ tree' = t
          /\ Set!Answered("FIND", elm,
               IF Cmp(elm, t.root) = "equal" THEN t.root ELSE NULL)

(* Mutant of Leftmost: the loop of SPLAY_NEXT is left out.                 *)
NotDown(t, n) == n

RECURSIVE Leftmost(_, _)

Leftmost(t, n) == IF t.at[n].left = NULL THEN n ELSE Leftmost(t, t.at[n].left)

(* Of an element that is in the tree.                                      *)
SPLAY_NEXT(elm) ==
  LET t    == SPLAY(tree, elm)
      next == t.at[elm].right
  IN /\ elm \in DOMAIN tree.at
     /\ tree' = t
     /\ Set!Answered("NEXT", elm, IF next = NULL THEN NULL ELSE Leftmost(t, next))

(* SPLAY_MIN for d = "left", SPLAY_MAX for d = "right".                    *)
SPLAY_MIN_MAX(d) ==
  /\ tree' = IF tree.root = NULL THEN tree ELSE SPLAY_MINMAX(tree, d)
  /\ Set!Answered(IF d = "left" THEN "MIN" ELSE "MAX", NULL, tree'.root)

-----------------------------------------------------------------------------

SPLAY_INIT ==
  /\ tree = [root |-> NULL, at |-> [n \in {} |-> Leaf]]
  /\ last = Set!NoAnswer

Next ==
  \/ \E n \in Nodes :
       SPLAY_INSERT(n) \/ SPLAY_REMOVE(n) \/ SPLAY_FIND(n) \/ SPLAY_NEXT(n)
  \/ \E d \in Side : SPLAY_MIN_MAX(d)

Spec == SPLAY_INIT /\ [][Next]_vars

-----------------------------------------------------------------------------
(* Properties.                                                             *)

(* Every operation, each of which rebuilds the tree, answers and changes   *)
(* the contents as the ordered set of OrderedSet does.                     *)
ImplementsSet == Set!SetSpec

RECURSIVE Walk(_)

(* The elements below n from left to right.                                *)
Walk(n) ==
  IF n = NULL THEN <<>>
  ELSE Walk(tree.at[n].left) \o <<n>> \o Walk(tree.at[n].right)

(* Taking the tree apart and assembling it loses, doubles and misplaces    *)
(* nothing: a walk meets every element once, in the order of the keys.     *)
InOrder ==
  LET walk == Walk(tree.root)
  IN /\ \A n \in DOMAIN tree.at : tree.at[n] \in SPLAY_ENTRY
     /\ Len(walk) = Cardinality(DOMAIN tree.at)
     /\ \A i \in 1..(Len(walk) - 1) : Key[walk[i]] < Key[walk[i + 1]]

=============================================================================
