--------------------------- MODULE ThreadedList ---------------------------
(***************************************************************************)
(* The trees of this repository keep every list threaded through the       *)
(* elements of a vector: the owner of the list stores a head, a tail and a *)
(* size, an element stores its successor, and index 0 is the "invalid" id  *)
(* that ends a list.  This module says what such a list has to be for a    *)
(* walk from the head to reach the elements of a set of indices exactly    *)
(* once, in the order in which they were appended (indices grow).          *)
(***************************************************************************)
EXTENDS Integers, FiniteSets, Sequences

\* NodeID::invalid ( ) and ArcID::invalid ( ): the value 0.
invalid == 0

\* The root of every tree, once there is one.
root_node == 1

\* head, tail and size describe a list of the elements of S.
ListEnds(S, head, tail, size) ==
  /\ size = Cardinality(S)
  /\ S = {} => head = invalid /\ tail = invalid
  /\ S # {} => /\ head \in S /\ tail \in S
               /\ \A a \in S : head <= a /\ a <= tail

\* next is the element of S that follows a, or invalid when a is the last.
IsNext(S, a, next) ==
  /\ next = invalid => \A c \in S : c <= a
  /\ next # invalid => /\ next \in S /\ a < next
                       /\ \A c \in S : a < c => next <= c

\* The indices a walk from head delivers, in order; next[a] is the successor
\* of a.
Walk(next, head) ==
  LET from[a \in DOMAIN next \union {invalid}] ==
        IF a = invalid THEN <<>> ELSE <<a>> \o from[next[a]]
  IN  from[head]

===========================================================================
