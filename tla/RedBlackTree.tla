----------------------------- MODULE RedBlackTree -----------------------------
(***************************************************************************)
(* The red-black tree of redblacktree_impl.h, without the linked list of   *)
(* leaves (simpleredblacktree.h).  A node stands for its key, since at     *)
(* most one node of a key is linked.  Values and their sums are left out:  *)
(* the program keeps all of them 0.                                        *)
(*                                                                         *)
(* The tree ends in one shared node, Null, whose left child is the root.   *)
(* As in the code, rotations and removals write the parent of Null, too,   *)
(* and its colour may be changed for a while.                              *)
(*                                                                         *)
(* The two mirrored halves of every algorithm are one, with the side as a  *)
(* parameter.                                                              *)
(***************************************************************************)
EXTENDS Naturals, Sequences, FiniteSets, TLC

CONSTANTS
  Null,            \* NullNode
  Compare(_, _)    \* ComparisonFunction(): Compare(x, y) iff x sorts before y

Sides       == {"left", "right"}
Other(side) == IF side = "left" THEN "right" ELSE "left"

-----------------------------------------------------------------------------
(* A tree: the children and parents of its nodes and of Null, the set of   *)
(* the red nodes, and the number of elements.                              *)

New == [child    |-> Null :> [left |-> Null, right |-> Null],
        parent   |-> Null :> Null,
        red      |-> {},
        elements |-> 0]

Linked(t) == DOMAIN t.child \ {Null}
Root(t)   == t.child[Null].left
IsEmpty(t) == Root(t) = Null

\* The side of parent where node is linked.
SideOf(t, parent, node) == IF t.child[parent].left = node THEN "left" ELSE "right"

SideFor(key, where) ==
  IF where = Null \/ Compare(key, where) THEN "left" ELSE "right"

-----------------------------------------------------------------------------
(* Walking and searching.                                                  *)

RECURSIVE Outermost(_, _, _)
Outermost(t, node, side) ==
  IF t.child[node][side] = Null THEN node
  ELSE Outermost(t, t.child[node][side], side)

\* GetFirst() and GetLast(): Null when the tree is empty.
GetFirst(t) == Outermost(t, Root(t), "left")
GetLast(t)  == Outermost(t, Root(t), "right")

\* The nearest ancestor that has the node on its other side.
RECURSIVE Climb(_, _, _)
Climb(t, node, side) ==
  LET parent == t.parent[node] IN
  IF parent # Null /\ node = t.child[parent][side] THEN Climb(t, parent, side)
  ELSE parent

\* InternalFindNext() and InternalFindPrev().
InternalFind(t, node, side) ==
  LET below == t.child[node][side] IN
  IF below # Null THEN Outermost(t, below, Other(side)) ELSE Climb(t, node, side)

GetNext(t, node) == InternalFind(t, node, "right")
GetPrev(t, node) == InternalFind(t, node, "left")

\* The node of the key, or the one below which it is to be linked.
RECURSIVE Descend(_, _, _)
Descend(t, where, key) ==
  LET below == t.child[where][SideFor(key, where)] IN
  IF where = key \/ below = Null THEN where ELSE Descend(t, below, key)

Find(t, key) == IF Descend(t, Null, key) = key THEN key ELSE Null

-----------------------------------------------------------------------------
(* RotateLeft() and RotateRight().                                         *)

Rotate(t, node, side) ==
  LET lower    == t.child[node][Other(side)]
      low      == t.child[lower][side]
      upparent == t.parent[node]
  IN [t EXCEPT !.child[node][Other(side)] = low,
               !.child[upparent][SideOf(t, upparent, node)] = lower,
               !.child[lower][side] = node,
               !.parent = [@ EXCEPT ![low] = node, ![lower] = upparent,
                                    ![node] = lower]]

-----------------------------------------------------------------------------
(* Insert().                                                               *)

Link(t, node) ==
  LET parent == Descend(t, Null, node) IN
  [child    |-> [t.child EXCEPT ![parent][SideFor(node, parent)] = node]
                @@ node :> [left |-> Null, right |-> Null],
   parent   |-> t.parent @@ node :> parent,
   red      |-> t.red \cup {node},
   elements |-> t.elements + 1]

RECURSIVE InsertFixup(_, _)
InsertFixup(t, node) ==
  LET parent  == t.parent[node]
      grandpa == t.parent[parent]
      side    == SideOf(t, grandpa, parent)
      uncle   == t.child[grandpa][Other(side)]
      inner   == node = t.child[parent][Other(side)]
      top     == IF inner THEN node ELSE parent
      turned  == IF inner THEN Rotate(t, parent, side) ELSE t
  IN IF parent \notin t.red THEN t
     ELSE IF uncle \in t.red
     THEN InsertFixup([t EXCEPT !.red = (@ \ {parent, uncle}) \cup {grandpa}],
                      grandpa)
     ELSE Rotate([turned EXCEPT !.red = (@ \ {top}) \cup {grandpa}],
                 grandpa, Other(side))

BlackRoot(t) == [t EXCEPT !.red = @ \ {Root(t)}]

\* Insert() returns the node of that key that is there already, if any.
Insert(t, node) ==
  IF Find(t, node) = node THEN t ELSE BlackRoot(InsertFixup(Link(t, node), node))

-----------------------------------------------------------------------------
(* Remove().                                                               *)

\* The node leaves; child takes the place that got empty.  A node with two
\* children is replaced by the next one, which takes over its colour.
Unlink(t, node) ==
  LET up       == t.parent[node]
      two      == t.child[node].left # Null /\ t.child[node].right # Null
      next     == GetNext(t, node)
      place    == IF two THEN t.parent[next] ELSE up
      child    == IF two THEN t.child[next].right
                  ELSE IF t.child[node].left # Null THEN t.child[node].left
                  ELSE t.child[node].right
      cut      == [t EXCEPT !.parent[child] = place,
                            !.child[place][SideOf(t, place, IF two THEN next ELSE node)]
                               = child]
      below    == cut.child[node]
      replaced == [cut EXCEPT
                     !.child[next] = below,
                     !.child[up][SideOf(cut, up, node)] = next,
                     !.parent = [@ EXCEPT ![next] = up, ![below.left] = next,
                                          ![below.right] = next],
                     !.red = (@ \ {next, node})
                             \cup (IF node \in @ THEN {next} ELSE {})
                             \cup (IF next \in @ THEN {node} ELSE {})]
      result   == IF two THEN replaced ELSE cut
      rest     == DOMAIN t.child \ {node}
  IN [child     |-> child,
      wasBlack  |-> node \notin result.red,
      tree      |-> [child    |-> [n \in rest |-> result.child[n]],
                     parent   |-> [n \in rest |-> result.parent[n]],
                     red      |-> result.red \ {node},
                     elements |-> t.elements - 1]]

\* The loop goes up from child, which lacks a black node; the root is red as
\* long as it runs.
RECURSIVE RemoveFixup(_, _)
RemoveFixup(t, child) ==
  LET parent == t.parent[child]
      side   == SideOf(t, parent, child)
      far    == Other(side)
      first  == t.child[parent][far]
      t1     == IF first \in t.red
                THEN Rotate([t EXCEPT !.red = (@ \ {first}) \cup {parent}],
                            parent, side)
                ELSE t
      second == t1.child[parent][far]
      t2     == IF t1.child[second][far] \in t1.red THEN t1
                ELSE Rotate([t1 EXCEPT !.red = (@ \ {t1.child[second][side]})
                                               \cup {second}],
                            second, far)
      third  == t2.child[parent][far]
  IN IF child \in t.red THEN [t EXCEPT !.red = @ \ {child}]
     ELSE IF {t1.child[second][s] : s \in Sides} \cap t1.red = {}
     THEN RemoveFixup([t1 EXCEPT !.red = @ \cup {second}], parent)
     ELSE LET painted == (t2.red \ {third, parent, t2.child[third][far]})
                         \cup (IF parent \in t2.red THEN {third} ELSE {})
          IN Rotate([t2 EXCEPT !.red = painted], parent, side)

RemoveWithoutFixup(t, node) == BlackRoot(Unlink(t, node).tree)

Remove(t, node) ==
  LET u == Unlink(t, node)
      redRoot == [u.tree EXCEPT !.red = @ \cup {Root(u.tree)}]
  IN IF u.wasBlack THEN BlackRoot(RemoveFixup(redRoot, u.child)) ELSE u.tree

-----------------------------------------------------------------------------
(* Verify().                                                               *)

RECURSIVE BlackHeight(_, _)
BlackHeight(t, node) ==
  IF node = Null THEN 1
  ELSE BlackHeight(t, t.child[node].left) + (IF node \in t.red THEN 0 ELSE 1)

\* The structure is a red-black tree: children know their parent and are on
\* the right side of it, no red node has a red child, all paths have the
\* same number of black nodes, and Null is black.
Verify(t) ==
  /\ Null \notin t.red
  /\ t.elements = Cardinality(Linked(t))
  /\ \A node \in Linked(t) :
       LET left == t.child[node].left  right == t.child[node].right IN
       /\ left # Null => t.parent[left] = node /\ Compare(left, node)
       /\ right # Null => t.parent[right] = node /\ Compare(node, right)
       /\ node \in t.red => {left, right} \cap t.red = {}
       /\ BlackHeight(t, left) = BlackHeight(t, right)

\* The keys in the order of GetFirst() and GetNext().
RECURSIVE Walk(_, _)
Walk(t, node) == IF node = Null THEN <<>> ELSE <<node>> \o Walk(t, GetNext(t, node))

InOrder(t) == Walk(t, GetFirst(t))
===============================================================================
