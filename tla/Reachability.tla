--------------------------- MODULE Reachability ---------------------------
(***************************************************************************)
(* The part of a tree below a node.  Reachability is stated without        *)
(* recursion, so that it can be reasoned about: the nodes r leads to are   *)
(* those in every set that holds r and the targets of the arcs leaving it. *)
(***************************************************************************)
EXTENDS FlatTree

Closed(T, S) ==
  \A a \in ArcIDs(T) : T.arcs[a].source \in S => T.arcs[a].target \in S

Reach(T, r) ==
  {n \in NodeIDs(T) : \A S \in SUBSET NodeIDs(T) : r \in S /\ Closed(T, S) => n \in S}

\* The nodes at most k arcs away from r.
Within(T, r, k) ==
  LET ball[i \in 0 .. k] ==
        IF i = 0 THEN {r}
        ELSE ball[i - 1] \union
             {T.arcs[a].target : a \in {b \in ArcIDs(T) : T.arcs[b].source \in ball[i - 1]}}
  IN  ball[k]

===========================================================================
