-------------------------- MODULE AdjacencyGraph --------------------------
(***************************************************************************)
(* What a search tree promises its client, with no threaded lists: a       *)
(* rooted multigraph whose nodes own a sequence of in-arcs and a sequence  *)
(* of out-arcs, both append-only, and an iterator that is a position in    *)
(* one of these sequences.  FlatSearchTree implements it.                  *)
(***************************************************************************)
EXTENDS Naturals, Sequences

VARIABLES ends,      \* ends[a] = <<source, target>> of arc a
          in, out,   \* in[n], out[n]: the arcs of node n, in order
          it         \* the iterator: list [dir, node], position, live

vars == <<ends, in, out, it>>

Nodes == DOMAIN out

List(dir, n) == IF dir = "in" THEN in[n] ELSE out[n]

\* An iterator over a list; an iterator over an empty list is dead at once.
At(dir, n) ==
  [dir |-> dir, node |-> n, pos |-> 0, live |-> List(dir, n) # <<>>]

Init ==
  /\ ends = << <<0, 1>> >>
  /\ in = << <<1>> >>
  /\ out = << <<>> >>
  /\ it = [dir |-> "out", node |-> 1, pos |-> 0, live |-> FALSE]

NewNode ==
  /\ in' = Append(in, <<>>)
  /\ out' = Append(out, <<>>)
  /\ UNCHANGED <<ends, it>>

NewArc ==
  \E s, t \in Nodes :
    /\ ends' = Append(ends, <<s, t>>)
    /\ out' = [out EXCEPT ![s] = Append(@, Len(ends'))]
    /\ in' = [in EXCEPT ![t] = Append(@, Len(ends'))]
    /\ UNCHANGED it

NewIterator ==
  /\ \E dir \in {"in", "out"}, n \in Nodes : it' = At(dir, n)
  /\ UNCHANGED <<ends, in, out>>

\* An iterator dies when it delivers what is the last arc at that moment.
Deliver ==
  /\ it.live
  /\ it' = [it EXCEPT !.pos = @ + 1,
                      !.live = it.pos + 1 < Len(List(it.dir, it.node))]
  /\ UNCHANGED <<ends, in, out>>

Next == NewNode \/ NewArc \/ NewIterator \/ Deliver

Spec == Init /\ [][Next]_vars

===========================================================================
