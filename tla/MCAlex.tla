-------------------------------- MODULE MCAlex --------------------------------
(* Instances of Alex for TLC.                                              *)
EXTENDS Alex

\* Keys far enough apart that buckets can be halved; the last is outside the
\* key domain of the ones before it.
MCKey == {0, 32, 128}
MCLowest == -1000
MCMax == 1000
MCLoad == {{0, 32}}
\* Keys that stay together when their leaf is split twice.
MCCloseKey == {0, 32, 64, 68, 128, 200}
MCCloseLoad == {{0, 32, 64, 68, 128}}
\* A key in the middle of the others.
MCMiddleKey == {0, 8, 16}
MCMiddleLoad == {MCMiddleKey}
\* A key in the middle, and two that are in the leaf to the right of it.
MCPathKey == {0, 8, 12, 16}
MCPathLoad == {MCPathKey}
\* Inserts only, after the load.
MCAllLoaded == \A keys \in Load : keys \subseteq Keys(tree)
MCDefault == [method |-> 1, upwards |-> FALSE]
MCFanoutTree == [method |-> 2, upwards |-> FALSE]
MCUpwards == [method |-> 1, upwards |-> TRUE]
\* What the default policy does, splits by a fanout tree do as well.
MCPolicies == {MCFanoutTree, MCUpwards}
MCDefaultPolicy == {MCDefault}
MCUpwardsPolicy == {MCUpwards}
MCMinLevel == -1
MCNone == {}
-----------------------------------------------------------------------------
\* Addresses mean nothing in themselves, and trees that differ in them only are
\* taken to be one state: in the view nodes are numbered in key order, then the
\* ones that no pointer leads to.  A pointer to a deleted node stays invalid.
Invalid == -2

Preorder(t, from) ==
    LET order[i \in DOMAIN t.nodes] ==
            LET n == t.nodes[i]
                isNew(b) == /\ n.children_[b] \in DOMAIN t.nodes
                            /\ b = 0 \/ n.children_[b] # n.children_[b - 1]
                below[b \in 0 .. n.num_children_] ==
                    IF b = n.num_children_ THEN << >>
                    ELSE (IF isNew(b) THEN order[n.children_[b]] ELSE << >>) \o below[b + 1]
            IN  <<i>> \o (IF n.is_leaf_ THEN << >> ELSE below[0])
    IN  order[from]

Order(t) ==
    LET placed == <<Superroot>> \o Preorder(t, Root(t))
    IN  placed \o SetToSeq(DOMAIN t.nodes \ Range(placed))

Address(order, i) ==
    IF i = NoNode THEN NoNode
    ELSE IF \E j \in DOMAIN order : order[j] = i
    THEN (CHOOSE j \in DOMAIN order : order[j] = i) - 1
    ELSE Invalid

Renumbered(t, order) ==
    LET moved(n) ==
            IF n.is_leaf_
            THEN [n EXCEPT !.prev_leaf_ = Address(order, @), !.next_leaf_ = Address(order, @)]
            ELSE [n EXCEPT !.children_ = [b \in DOMAIN @ |-> Address(order, @[b])]]
    IN  [t EXCEPT !.nodes = [i \in 0 .. Len(order) - 1 |-> moved(t.nodes[order[i + 1]])],
                  !.fresh = Len(order)]

MCView ==
    LET order == Order(tree)
        moved(path) == [i \in DOMAIN path |-> [path[i] EXCEPT !.node = Address(order, @)]]
    IN  <<Renumbered(tree, order), ret,
          IF op = Idle THEN op
          ELSE [op EXCEPT !.leaf = Address(order, @), !.parent = Address(order, @),
                          !.path = moved(@)]>>
=============================================================================
