----------------------------- MODULE OrderedSet -----------------------------
(***************************************************************************)
(* What the trees of libuv/inc/tree.h promise: a set of elements, at most  *)
(* one of each key, with the answers its operations give.  Elements are    *)
(* the caller's (the trees are intrusive), so two elements may have equal  *)
(* keys; the answer to the last call is part of the state.                 *)
(***************************************************************************)
EXTENDS Integers

CONSTANTS
  Nodes,  \* elements the caller owns
  Key,    \* Key[n] is what the caller's cmp compares
  NULL    \* no element

VARIABLES
  contents,  \* the elements in the set
  last       \* the last call: operation, argument, answer

setVars == <<contents, last>>

Answered(op, arg, ans) == last' = [op |-> op, arg |-> arg, ans |-> ans]

NoAnswer == [op |-> "INIT", arg |-> NULL, ans |-> NULL]

(* The element of S with the least, or the greatest, key; NULL if none.    *)
Least(S) ==
  IF S = {} THEN NULL ELSE CHOOSE n \in S : \A m \in S : Key[n] =< Key[m]

Greatest(S) ==
  IF S = {} THEN NULL ELSE CHOOSE n \in S : \A m \in S : Key[n] >= Key[m]

Equals(n) == {m \in contents : Key[m] = Key[n]}

-----------------------------------------------------------------------------

SetInit == contents = {} /\ last = NoAnswer

(* An element with this key is kept and returned; the new one stays out.   *)
Insert(n) ==
  /\ contents' = IF Equals(n) = {} THEN contents \cup {n} ELSE contents
  /\ Answered("INSERT", n, Least(Equals(n)))

(* Whatever has this key leaves; the caller gets back what it passed in.   *)
Remove(n) ==
  /\ contents' = contents \ Equals(n)
  /\ Answered("REMOVE", n, IF Equals(n) = {} THEN NULL ELSE n)

(* Questions: exact, at or above, strictly above or below, the two ends.   *)
Question(op, n) ==
  CASE op = "FIND"  -> Least(Equals(n))
    [] op = "NFIND" -> Least({m \in contents : Key[m] >= Key[n]})
    [] op = "NEXT"  -> Least({m \in contents : Key[m] > Key[n]})
    [] op = "PREV"  -> Greatest({m \in contents : Key[m] < Key[n]})
    [] op = "MIN"   -> Least(contents)
    [] op = "MAX"   -> Greatest(contents)

Ask(op, n) == UNCHANGED contents /\ Answered(op, n, Question(op, n))

SetNext ==
  \E n \in Nodes :
    \/ Insert(n)
    \/ Remove(n)
    \/ \E op \in {"FIND", "NFIND", "NEXT", "PREV"} : Ask(op, n)
    \/ \E op \in {"MIN", "MAX"} : Ask(op, NULL)

SetSpec == SetInit /\ [][SetNext]_setVars

=============================================================================
