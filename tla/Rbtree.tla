------------------------------- MODULE Rbtree ------------------------------
(***************************************************************************)
(* base/rbtree.c.  The code for the two sides of a node is written out     *)
(* twice; here the side is a parameter.  An insertion or a deletion links  *)
(* or unlinks its node in one step, and every turn of the loop that        *)
(* restores the colors is a step of its own.  MALLOC does not fail.        *)
(***************************************************************************)
EXTENDS Integers, Sequences, FiniteSets

CONSTANT Keys   \* what is stored, compared by cmp; also the addresses of nodes

VARIABLES
  tree,    \* the root, and the node_t at every address
  call,    \* the call in progress and the local variables of its loop
  stored   \* history: what was inserted and not deleted

vars == <<tree, call, stored>>

Null == 0
Other(side) == IF side = "left" THEN "right" ELSE "left"
Freed == [parent |-> Null, left |-> Null, right |-> Null, color |-> "free", data |-> Null]
Idle == [op |-> "idle", x |-> Null, parent |-> Null, victim |-> Null]

Init ==
  /\ tree = [root |-> Null, node |-> [n \in Keys |-> Freed]]
  /\ call = Idle /\ stored = {}

Red(t, n) == n # Null /\ t.node[n].color = "red"
Painted(t, S, c) ==
  [t EXCEPT !.node = [n \in Keys |-> IF n \in S THEN [t.node[n] EXCEPT !.color = c]
                                                ELSE t.node[n]]]
Free(t, n) == [t EXCEPT !.node[n] = Freed]

(* The last node on the way down to k, and the node that holds k.          *)
Descent(k) ==
  LET Walk[n \in Keys] ==
        LET m == tree.node[n][IF k < tree.node[n].data THEN "left" ELSE "right"]
        IN IF k = tree.node[n].data \/ m = Null THEN n ELSE Walk[m]
  IN Walk[tree.root]

_rbtree_find_node(k) ==
  IF tree.root # Null /\ tree.node[Descent(k)].data = k THEN Descent(k) ELSE Null

_rbtree_min_node(n) ==
  LET Min[m \in Keys] == IF tree.node[m].left = Null THEN m ELSE Min[tree.node[m].left]
  IN Min[n]

(* What rbtree_loop visits, and what rbtree_release frees.                 *)
_rbtree_loop_node ==
  LET Visit[n \in Keys \cup {Null}] ==
        IF n = Null THEN <<>>
        ELSE Visit[tree.node[n].left] \o <<tree.node[n].data>> \o Visit[tree.node[n].right]
  IN Visit[tree.root]

_rbtree_release_node ==
  LET Visit[n \in Keys \cup {Null}] ==
        IF n = Null THEN {}
        ELSE Visit[tree.node[n].left] \cup Visit[tree.node[n].right] \cup {n}
  IN Visit[tree.root]

(* _rbtree_rotl is side "left", _rbtree_rotr side "right": x goes down on  *)
(* that side, its other child y comes up, y's child b changes parent.      *)
Rotated(t, x, side) ==
  LET y == t.node[x][Other(side)]
      b == t.node[y][side]
      p == IF x = t.root THEN Null ELSE t.node[x].parent
      Relinked(n, r) ==
        CASE n = x -> [r EXCEPT !.parent = y, ![Other(side)] = b]
          [] n = y -> [r EXCEPT !.parent = p, ![side] = x]
          [] n = b -> [r EXCEPT !.parent = x]
          [] n = p -> [r EXCEPT ![IF r.left = x THEN "left" ELSE "right"] = y]
          [] OTHER -> r
  IN [root |-> IF x = t.root THEN y ELSE t.root,
      node |-> [n \in Keys |-> Relinked(n, t.node[n])]]

----------------------------------------------------------------------------
(* A new node is red below the node where the descent ended; the first is  *)
(* the black root.  Its address is k where that is free, so that equal     *)
(* trees are mostly equal states.                                          *)
rbtree_insert(k) ==
  LET unused == {n \in Keys : tree.node[n].color = "free"}
      new == IF k \in unused THEN k ELSE CHOOSE n \in unused : \A m \in unused : n <= m
      dest == IF tree.root = Null THEN Null ELSE Descent(k)
      leaf == [Freed EXCEPT !.parent = dest, !.data = k,
                            !.color = IF dest = Null THEN "black" ELSE "red"]
  IN /\ call = Idle /\ _rbtree_find_node(k) = Null
     /\ IF dest = Null
          THEN /\ tree' = [tree EXCEPT !.root = new, !.node[new] = leaf]
               /\ UNCHANGED call
          ELSE /\ tree' = [tree EXCEPT !.node[new] = leaf,
                             !.node[dest][IF k < tree.node[dest].data THEN "left" ELSE "right"] = new]
               /\ call' = [Idle EXCEPT !.op = "insert", !.x = new]
     /\ stored' = stored \cup {k}

(* A turn of the loop: the red parent p of z is its grandparent g's child  *)
(* on the given side.                                                      *)
InsertTurn(t, z, side) ==
  LET p == t.node[z].parent
      g == t.node[p].parent
      uncle == t.node[g][Other(side)]
      bent == z = t.node[p][Other(side)]
      t1 == IF bent THEN Rotated(t, p, side) ELSE t
      z1 == IF bent THEN p ELSE z
      p1 == t1.node[z1].parent
      g1 == t1.node[p1].parent
  IN IF Red(t, uncle)
       THEN [tree |-> Painted(Painted(t, {uncle, p}, "black"), {g}, "red"), x |-> g]
       ELSE [tree |-> Rotated(Painted(Painted(t1, {p1}, "black"), {g1}, "red"), g1, Other(side)),
             x |-> z1]

_rbtree_insert_adjust ==
  LET z == call.x
      p == tree.node[z].parent
      side == IF p = tree.node[tree.node[p].parent].left THEN "left" ELSE "right"
      turn == InsertTurn(tree, z, side)
  IN /\ call.op = "insert"
     /\ IF z # tree.root /\ Red(tree, p)
          THEN tree' = turn.tree /\ call' = [call EXCEPT !.x = turn.x]
          ELSE tree' = Painted(tree, {tree.root}, "black") /\ call' = Idle
     /\ UNCHANGED stored

(* A turn of the loop: the doubly black node is p's child on the given     *)
(* side, w its brother.                                                    *)
DeleteTurn(t, p, side) ==
  LET w0 == t.node[p][Other(side)]
      t1 == IF Red(t, w0) THEN Rotated(Painted(Painted(t, {w0}, "black"), {p}, "red"), p, side) ELSE t
      w == t1.node[p][Other(side)]
      near == t1.node[w][side]
      far == t1.node[w][Other(side)]
      t2 == IF Red(t1, far) THEN t1
            ELSE Rotated(Painted(Painted(t1, {near}, "black"), {w}, "red"), w, Other(side))
      v == t2.node[p][Other(side)]
      t3 == Rotated(Painted(Painted(t2, {v}, t2.node[p].color), {p, t2.node[v][Other(side)]}, "black"),
                    p, side)
  IN IF ~Red(t1, near) /\ ~Red(t1, far)
       THEN [tree |-> Painted(t1, {w}, "red"), x |-> p, parent |-> t1.node[p].parent]
       ELSE [tree |-> t3, x |-> t3.root, parent |-> p]

(* A side applies when x is there and its brother exists; where neither    *)
(* does, the code spins and no step is possible here.                      *)
_rbtree_delete_adjust ==
  LET x == call.x
      p == call.parent
      turning == x # tree.root /\ ~Red(tree, x)
      Applies(side) == x = tree.node[p][side] /\ tree.node[p][Other(side)] # Null
      turn == DeleteTurn(tree, p, IF Applies("left") THEN "left" ELSE "right")
  IN /\ call.op = "delete"
     /\ \/ /\ turning /\ (Applies("left") \/ Applies("right"))
           /\ tree' = turn.tree
           /\ call' = [call EXCEPT !.x = turn.x, !.parent = turn.parent]
        \/ /\ ~turning
           /\ tree' = Free(Painted(tree, {x} \ {Null}, "black"), call.victim)
           /\ call' = Idle
     /\ UNCHANGED stored

(* Fault: the child moves up without learning its new parent.              *)
SplicedOneWay(t, v, ch) ==
  LET p == t.node[v].parent
  IN [t EXCEPT !.node[p][IF t.node[p].right = v THEN "right" ELSE "left"] = ch]

(* v's place below its parent is taken by its only child ch, or by none.   *)
Spliced(t, v, ch) ==
  LET p == t.node[v].parent
      side == IF t.node[p].right = v THEN "right" ELSE "left"
      t1 == [t EXCEPT !.node[p][side] = ch]
  IN IF ch = Null THEN t1 ELSE [t1 EXCEPT !.node[ch].parent = p]

(* The root's only child is copied into the root and freed.                *)
RootReplaced(n, ch) ==
  LET c == tree.node[ch]
      t == [tree EXCEPT !.node = [m \in Keys |->
              CASE m = n -> [c EXCEPT !.parent = Null, !.color = "black"]
                [] m \in {c.left, c.right} -> [tree.node[m] EXCEPT !.parent = n]
                [] OTHER -> tree.node[m]]]
  IN Free(t, ch)

(* The node unlinked is n itself, or its successor when n has two children *)
(* and takes over the successor's data.                                    *)
_rbtree_delete_node(n) ==
  LET r == tree.node[n]
      v == IF r.left # Null /\ r.right # Null THEN _rbtree_min_node(r.right) ELSE n
      ch == IF tree.node[v].left # Null THEN tree.node[v].left ELSE tree.node[v].right
      t == Spliced([tree EXCEPT !.node[n].data = tree.node[v].data], v, ch)
  IN IF v = tree.root
       THEN /\ tree' = IF ch = Null THEN Free([tree EXCEPT !.root = Null], n) ELSE RootReplaced(n, ch)
            /\ UNCHANGED call
     ELSE IF Red(tree, v)
       THEN tree' = Free(t, v) /\ UNCHANGED call
       ELSE /\ tree' = t
            /\ call' = [op |-> "delete", x |-> ch, parent |-> tree.node[v].parent, victim |-> v]

rbtree_delete(k) ==
  /\ call = Idle /\ _rbtree_find_node(k) # Null
  /\ _rbtree_delete_node(_rbtree_find_node(k))
  /\ stored' = stored \ {k}

(* rbtree_release, and the rbtree_create of the next tree.                 *)
rbtree_release ==
  /\ call = Idle /\ tree.root # Null
  /\ tree' = [root |-> Null,
              node |-> [n \in Keys |-> IF n \in _rbtree_release_node THEN Freed ELSE tree.node[n]]]
  /\ stored' = {} /\ UNCHANGED call

Next ==
  \/ \E k \in Keys : rbtree_insert(k) \/ rbtree_delete(k)
  \/ _rbtree_insert_adjust \/ _rbtree_delete_adjust \/ rbtree_release

Spec == Init /\ [][Next]_vars

----------------------------------------------------------------------------
(* Properties *)

Live == {n \in Keys : tree.node[n].color # "free"}

(* n and the nodes above it, following parent links no further than there  *)
(* are nodes; the black ones among them.                                   *)
Above(n) ==
  LET Up[i \in Nat, m \in Keys \cup {Null}] ==
        IF i = 0 \/ m = Null THEN {} ELSE {m} \cup Up[i - 1, tree.node[m].parent]
  IN Up[Cardinality(Keys), n]

Blacks(n) == Cardinality({m \in Above(n) : ~Red(tree, m)})

(* Between calls the five rules at the top of rbtree.c hold: the live      *)
(* nodes form one binary search tree whose links agree in both directions, *)
(* the root is black, no red node has a red child, and every way down      *)
(* meets as many black nodes.  The tree holds what was inserted and not    *)
(* deleted, no node is leaked, rbtree_loop visits the data in order and    *)
(* rbtree_find finds each.                                                 *)
RedBlack ==
  call = Idle =>
    /\ Live = {} <=> tree.root = Null
    /\ \A n \in Live : \A s \in {"left", "right"} :
         tree.node[n][s] # Null => tree.node[n][s] \in Live /\ tree.node[tree.node[n][s]].parent = n
    /\ \A n \in Live : IF n = tree.root THEN tree.node[n].parent = Null
                       ELSE \E s \in {"left", "right"} : tree.node[tree.node[n].parent][s] = n
    /\ \A n \in Live : tree.root \in Above(n)
    /\ \A n \in Live : Red(tree, n) => n # tree.root /\ ~Red(tree, tree.node[n].parent)
    /\ Cardinality({Blacks(n) : n \in {n \in Live : Null \in {tree.node[n].left, tree.node[n].right}}}) <= 1
    /\ LET visited == _rbtree_loop_node
       IN /\ {visited[i] : i \in 1..Len(visited)} = stored
          /\ \A i \in 1..Len(visited) - 1 : visited[i] < visited[i + 1]
    /\ \A k \in Keys : _rbtree_find_node(k) # Null <=> k \in stored
=============================================================================
