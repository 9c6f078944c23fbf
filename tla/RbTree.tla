------------------------------- MODULE RbTree -------------------------------
(***************************************************************************)
(* The red-black tree of libuv/inc/tree.h (libuv keeps its Windows timers  *)
(* in one).  A tree is its root and the RB_ENTRY of each element in it; an *)
(* element that has been removed is the caller's again, so that following  *)
(* a pointer to it is an error.  Code that the header writes twice, with   *)
(* left and right exchanged, is written once here, for a side d.           *)
(***************************************************************************)
EXTENDS Integers, FiniteSets, Functions

CONSTANTS
  Nodes,  \* elements the caller owns
  Key,    \* Key[n] is what the caller's cmp compares
  NULL

NodesAssumption == NULL \notin Nodes /\ Key \in [Nodes -> Int]

VARIABLES
  tree,  \* [root, at], where at[n] is the RB_ENTRY of element n
  last   \* the last call: operation, argument, answer

vars == <<tree, last>>

Side == {"left", "right"}

Opposite(d) == IF d = "left" THEN "right" ELSE "left"

RB_ENTRY == [left : Nodes \cup {NULL}, right : Nodes \cup {NULL},
             parent : Nodes \cup {NULL}, color : {"RED", "BLACK"}]

Set == INSTANCE OrderedSet WITH contents <- DOMAIN tree.at

(* Where n is, or would go, seen from an element m with another key.       *)
SideOf(n, m) == IF Key[n] < Key[m] THEN "left" ELSE "right"

IsRed(t, n) == n # NULL /\ t.at[n].color = "RED"

(* The side of its parent p that n is on.                                  *)
ChildSide(t, p, n) == IF t.at[p].left = n THEN "left" ELSE "right"

Paint(t, n, c) == [t EXCEPT !.at[n].color = c]

PaintUnlessNull(t, n, c) == IF n = NULL THEN t ELSE Paint(t, n, c)

(* Mutant of RB_SET_BLACKRED: the grandparent is left black.               *)
SetBlackOnly(t, black, red) == Paint(t, black, "BLACK")

RB_SET_BLACKRED(t, black, red) == Paint(Paint(t, black, "BLACK"), red, "RED")

(* What points to `old' from its parent p, or the root, points to `new'.   *)
Relink(t, p, old, new) ==
  IF p = NULL THEN [t EXCEPT !.root = new]
  ELSE [t EXCEPT !.at[p][ChildSide(t, p, old)] = new]

Adopt(t, n, p) == IF n = NULL THEN t ELSE [t EXCEPT !.at[n].parent = p]

(* Mutant of RB_ROTATE: the subtree that changes hands keeps its parent.   *)
RotateNoAdopt(t, elm, d) ==
  LET tmp   == t.at[elm][Opposite(d)]
      inner == t.at[tmp][d]
      p     == t.at[elm].parent
      t1    == [t EXCEPT !.at[elm][Opposite(d)] = inner]
      t2    == Relink([t1 EXCEPT !.at[tmp].parent = p], p, elm, tmp)
  IN [t2 EXCEPT !.at[tmp][d] = elm, !.at[elm].parent = tmp]

(* RB_ROTATE_LEFT for d = "left", RB_ROTATE_RIGHT for d = "right".         *)
RB_ROTATE(t, elm, d) ==
  LET tmp   == t.at[elm][Opposite(d)]
      inner == t.at[tmp][d]
      p     == t.at[elm].parent
      t1    == Adopt([t EXCEPT !.at[elm][Opposite(d)] = inner], inner, elm)
      t2    == Relink([t1 EXCEPT !.at[tmp].parent = p], p, elm, tmp)
  IN [t2 EXCEPT !.at[tmp][d] = elm, !.at[elm].parent = tmp]

-----------------------------------------------------------------------------
(* Insertion.                                                              *)

RECURSIVE RB_INSERT_COLOR(_, _)

(* One unfolding is one turn of the while loop.                            *)
RB_INSERT_COLOR(t, elm) ==
  LET parent  == t.at[elm].parent
      gparent == t.at[parent].parent
      d       == ChildSide(t, gparent, parent)
      uncle   == t.at[gparent][Opposite(d)]
      inside  == t.at[parent][Opposite(d)] = elm
      t1      == IF inside THEN RB_ROTATE(t, parent, d) ELSE t
      upper   == IF inside THEN elm ELSE parent
      lower   == IF inside THEN parent ELSE elm
  IN IF ~IsRed(t, parent) THEN Paint(t, t.root, "BLACK")
     ELSE IF IsRed(t, uncle)
     THEN RB_INSERT_COLOR(
            RB_SET_BLACKRED(Paint(t, uncle, "BLACK"), parent, gparent), gparent)
     ELSE RB_INSERT_COLOR(
            RB_ROTATE(RB_SET_BLACKRED(t1, upper, gparent), gparent, Opposite(d)),
            lower)

RECURSIVE Descend(_, _, _)

(* The descent of RB_INSERT and RB_FIND from tmp: the element with the key *)
(* of n, or NULL, and the last element looked at.                          *)
Descend(n, tmp, parent) ==
  IF tmp = NULL \/ Key[tmp] = Key[n] THEN [found |-> tmp, parent |-> parent]
  ELSE Descend(n, tree.at[tmp][SideOf(n, tmp)], tmp)

(* RB_SET and the link from the parent.                                    *)
Hang(t, elm, parent) ==
  LET entry == [left |-> NULL, right |-> NULL, parent |-> parent, color |-> "RED"]
      t1    == [t EXCEPT !.at = [n \in DOMAIN @ \cup {elm} |->
                                   IF n = elm THEN entry ELSE @[n]]]
  IN IF parent = NULL THEN [t1 EXCEPT !.root = elm]
     ELSE [t1 EXCEPT !.at[parent][SideOf(elm, parent)] = elm]

RB_INSERT(elm) ==
  LET way == Descend(elm, tree.root, NULL)
  IN /\ tree' = IF way.found # NULL THEN tree
                ELSE RB_INSERT_COLOR(Hang(tree, elm, way.parent), elm)
     /\ Set!Answered("INSERT", elm, way.found)

-----------------------------------------------------------------------------
(* Removal.                                                                *)

(* The sibling has no red child: it turns red and the lack of a black      *)
(* element moves up.                                                       *)
Sunk(t, tmp) == ~IsRed(t, t.at[tmp].left) /\ ~IsRed(t, t.at[tmp].right)

RECURSIVE RB_REMOVE_COLOR(_, _, _)

(* elm, which may be NULL, is a child of parent and one black short.       *)
RB_REMOVE_COLOR(t, parent, elm) ==
  LET d    == ChildSide(t, parent, elm)
      far  == Opposite(d)
      s0   == t.at[parent][far]
      t1   == IF IsRed(t, s0)
              THEN RB_ROTATE(RB_SET_BLACKRED(t, s0, parent), parent, d) ELSE t
      s1   == t1.at[parent][far]
      turn == ~IsRed(t1, t1.at[s1][far])
      t2   == IF turn
              THEN RB_ROTATE(Paint(PaintUnlessNull(t1, t1.at[s1][d], "BLACK"),
                                   s1, "RED"), s1, far)
              ELSE t1
      s2   == t2.at[parent][far]
      t3   == Paint(Paint(t2, s2, t2.at[parent].color), parent, "BLACK")
      t4   == RB_ROTATE(PaintUnlessNull(t3, t3.at[s2][far], "BLACK"), parent, d)
  IN IF IsRed(t, elm) \/ elm = t.root THEN PaintUnlessNull(t, elm, "BLACK")
     ELSE IF Sunk(t1, s1)
     THEN RB_REMOVE_COLOR(Paint(t1, s1, "RED"), t1.at[parent].parent, parent)
     ELSE Paint(t4, t4.root, "BLACK")

RECURSIVE Leftmost(_, _)

Leftmost(t, n) == IF t.at[n].left = NULL THEN n ELSE Leftmost(t, t.at[n].left)

(* child takes the place of elm.                                           *)
Splice(t, elm, child) ==
  Relink(Adopt(t, child, t.at[elm].parent), t.at[elm].parent, elm, child)

(* elm takes over the place, links and colour of old.                      *)
Supplant(t, old, elm) ==
  LET t1 == [t EXCEPT !.at[elm] = t.at[old]]
      t2 == Relink(t1, t1.at[old].parent, old, elm)
  IN Adopt(Adopt(t2, t2.at[old].left, elm), t2.at[old].right, elm)

(* Whose child is one black short after elm has left its place; old itself *)
(* is on its way out.                                                      *)
Short(t, old, elm) == IF t.at[elm].parent = old THEN elm ELSE t.at[elm].parent

(* An element with two children changes places with its successor.         *)
RB_REMOVE(old) ==
  LET two    == tree.at[old].left # NULL /\ tree.at[old].right # NULL
      elm    == IF two THEN Leftmost(tree, tree.at[old].right) ELSE old
      child  == IF tree.at[elm].left = NULL THEN tree.at[elm].right
                ELSE tree.at[elm].left
      parent == IF two THEN Short(tree, old, elm) ELSE tree.at[old].parent
      t1     == Splice(tree, elm, child)
      t2     == IF two THEN Supplant(t1, old, elm) ELSE t1
      t3     == IF tree.at[elm].color = "BLACK"
                THEN RB_REMOVE_COLOR(t2, parent, child) ELSE t2
  IN /\ old \in DOMAIN tree.at
     /\ tree' = [t3 EXCEPT !.at = Restrict(@, DOMAIN @ \ {old})]
     /\ Set!Answered("REMOVE", old, old)

-----------------------------------------------------------------------------
(* Questions.                                                              *)

RB_FIND(n) ==
  /\ Set!Answered("FIND", n, Descend(n, tree.root, NULL).found)
  /\ UNCHANGED tree

RECURSIVE FirstAtLeast(_, _, _)

FirstAtLeast(n, tmp, res) ==
  IF tmp = NULL THEN res
  ELSE IF Key[n] = Key[tmp] THEN tmp
  ELSE IF Key[n] < Key[tmp] THEN FirstAtLeast(n, tree.at[tmp].left, tmp)
  ELSE FirstAtLeast(n, tree.at[tmp].right, res)

RB_NFIND(n) ==
  /\ Set!Answered("NFIND", n, FirstAtLeast(n, tree.root, NULL))
  /\ UNCHANGED tree

RECURSIVE Furthest(_, _)

(* Down from n on side d.                                                  *)
Furthest(n, d) ==
  IF tree.at[n][d] = NULL THEN n ELSE Furthest(tree.at[n][d], d)

RECURSIVE ClimbFrom(_, _)

(* Up from n while it is a d-child; then one more.                         *)
ClimbFrom(n, d) ==
  LET p == tree.at[n].parent
  IN IF p # NULL /\ n = tree.at[p][d] THEN ClimbFrom(p, d) ELSE p

(* Mutant of Step: the climb is left out.                                  *)
StepDownOnly(n, d) ==
  IF tree.at[n][d] # NULL THEN Furthest(tree.at[n][d], Opposite(d))
  ELSE tree.at[n].parent

(* RB_NEXT for d = "right", RB_PREV for d = "left".                        *)
Step(n, d) ==
  IF tree.at[n][d] # NULL THEN Furthest(tree.at[n][d], Opposite(d))
  ELSE ClimbFrom(n, d)

RB_NEXT(n) ==
  /\ n \in DOMAIN tree.at
  /\ Set!Answered("NEXT", n, Step(n, "right"))
  /\ UNCHANGED tree

RB_PREV(n) ==
  /\ n \in DOMAIN tree.at
  /\ Set!Answered("PREV", n, Step(n, "left"))
  /\ UNCHANGED tree

(* RB_MIN for d = "left", RB_MAX for d = "right".                          *)
RB_MINMAX(d) ==
  /\ Set!Answered(IF d = "left" THEN "MIN" ELSE "MAX", NULL,
                  IF tree.root = NULL THEN NULL ELSE Furthest(tree.root, d))
  /\ UNCHANGED tree

-----------------------------------------------------------------------------

RB_INIT ==
  /\ tree = [root |-> NULL, at |-> [n \in {} |-> NULL]]
  /\ last = Set!NoAnswer

Update == \E n \in Nodes : RB_INSERT(n) \/ RB_REMOVE(n)

Lookup ==
  \/ \E n \in Nodes : RB_FIND(n) \/ RB_NFIND(n) \/ RB_NEXT(n) \/ RB_PREV(n)
  \/ \E d \in Side : RB_MINMAX(d)

Next == Update \/ Lookup

Spec == RB_INIT /\ [][Next]_vars

-----------------------------------------------------------------------------
(* Properties.                                                             *)

(* Every operation answers, and changes the contents, as the ordered set   *)
(* of OrderedSet does: no element is lost or doubled by a rotation, and    *)
(* the climb of RB_NEXT and RB_PREV over parent links finds the neighbour. *)
ImplementsSet == Set!SetSpec

(* Parent and child links agree (RB_ROTATE, RB_REMOVE's exchange of an     *)
(* element with its successor), the root has no parent, and every element  *)
(* is linked from exactly one place.                                       *)
LinksAgree ==
  LET in == DOMAIN tree.at
  IN /\ tree.root = NULL <=> in = {}
     /\ \A n \in in :
          /\ tree.at[n] \in RB_ENTRY
          /\ \A d \in Side : tree.at[n][d] # NULL =>
               tree.at[n][d] \in in /\ tree.at[tree.at[n][d]].parent = n
          /\ IF tree.at[n].parent = NULL THEN n = tree.root
             ELSE \E d \in Side : tree.at[tree.at[n].parent][d] = n

RECURSIVE BlackHeights(_)

(* The numbers of black elements on the paths from n down.                 *)
BlackHeights(n) ==
  IF n = NULL THEN {0}
  ELSE {h + (IF IsRed(tree, n) THEN 0 ELSE 1) :
          h \in BlackHeights(tree.at[n].left) \cup BlackHeights(tree.at[n].right)}

(* The header's comment: every path from the root to a leaf has the same   *)
(* number of black elements, and a red element has a black parent.         *)
RedBlack ==
  /\ Cardinality(BlackHeights(tree.root)) = 1
  /\ \A n \in DOMAIN tree.at :
       IsRed(tree, n) => tree.at[n].parent # NULL /\ ~IsRed(tree, tree.at[n].parent)

=============================================================================
