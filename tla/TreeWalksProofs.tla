-------------------------- MODULE TreeWalksProofs --------------------------
(***************************************************************************)
(* The traversals and the topological sort are right for trees of every    *)
(* size and shape and for every sequence of calls, whatever the calls      *)
(* before have left in the static vectors.  There is an invariant for each *)
(* of the two functions, and at the end their composition.                 *)
(***************************************************************************)
EXTENDS TreeWalks, FlatTreeTheorems

From(n) == ArcsFrom(tree, n, Len(tree.arcs))

\* The client leaves the lists of the tree exact.
LEMMA GrownExact ==
  ASSUME IsTree(tree, {NoData}), Linked(tree), NEW m,
         AddNode \/ AddArc(m) \/ UNCHANGED tree
  PROVE  IsTree(tree', {NoData}) /\ Linked(tree')
<1>1. PICK T, U : T = tree /\ U = tree'
  OBVIOUS
<1>2. IsTree(T, {NoData}) /\ Linked(T) /\ NoData \in {NoData}
  BY <1>1
<1>3. CASE AddNode
  <2>1. U = addNode(T, NoData)
    BY <1>1, <1>3 DEF AddNode
  <2>2. IsTree(U, {NoData}) /\ Linked(U)
    BY ONLY <1>2, <2>1, AddNodeKeepsLists
  <2> QED
    BY <1>1, <2>2
<1>4. CASE AddArc(m)
  <2>1. PICK s, t \in NodeIDs(T) : U = addArc(T, s, t, NoData)
    BY <1>1, <1>4 DEF AddArc
  <2>2. IsTree(U, {NoData}) /\ Linked(U)
    BY ONLY <1>2, <2>1, AddArcKeepsLists
  <2> QED
    BY <1>1, <2>2
<1>5. CASE UNCHANGED tree
  BY <1>1, <1>2, <1>5
<1> QED
  BY <1>3, <1>4, <1>5

(***************************************************************************)
(* The traversals.  The invariant says what the work list stands for: an   *)
(* arc is walked when its source was met, is not on the list, and the      *)
(* for-loop is past the arc.                                               *)
(***************************************************************************)
\* What is there between the calls, in a call, and at its end.
InCall ==
  /\ pc = "client" => nodesHere = <<>> /\ arcsHere = <<>>
  /\ pc # "client" => root \in NodeIDs(tree) /\ DOMAIN visited = NodeIDs(tree)
  /\ pc \in {"client", "returned"} => work = <<>>

VisitedAreMet == pc # "client" => \A n \in NodeIDs(tree) : visited[n] <=> n \in Met

WorkIsMet == NoneTwice(work) /\ (pc # "client" => Entries(work) \subseteq Met)

\* The for-loop stands on an out-arc of parent, which it took off the list.
OnArc == pc = "for" => /\ parent \in Met \ Entries(work)
                       /\ arc = invalid \/ arc \in From(parent)

Walked(a) ==
  /\ tree.arcs[a].source \in Met \ Entries(work)
  /\ pc = "for" /\ tree.arcs[a].source = parent => arc = invalid \/ a < arc

HereAreWalked ==
  pc # "client" => \A a \in ArcIDs(tree) : a \in Entries(arcsHere) <=> Walked(a)

TargetsAreMet == \A a \in Entries(arcsHere) : tree.arcs[a].target \in Met

MetAreReached == pc # "client" => Met \subseteq Reach(tree, root)

Once == NoneTwice(arcsHere) /\ NoneTwice(nodesHere) /\ root \notin Entries(nodesHere)

WalkInv ==
  /\ TraverseTypes /\ Linked(tree) /\ InCall
  /\ VisitedAreMet /\ WorkIsMet /\ OnArc /\ HereAreWalked
  /\ TargetsAreMet /\ MetAreReached /\ Once

---------------------------------------------------------------------------
\* Before a call, only the tree matters.
LEMMA ClientStarts ==
  ASSUME IsTree(tree, {NoData}), Linked(tree), order \in {"breadth", "depth"},
         visited \in Seq(BOOLEAN), pc = "client",
         work = <<>>, nodesHere = <<>>, arcsHere = <<>>
  PROVE  WalkInv
<1>1. TraverseTypes
  BY DEF TraverseTypes
<1>2. Entries(<<>>) = {} /\ NoneTwice(<<>>)
  BY DEF Entries, NoneTwice
<1> QED
  BY <1>1, <1>2
  DEF WalkInv, InCall, VisitedAreMet, WorkIsMet, OnArc, HereAreWalked, TargetsAreMet,
      MetAreReached, Once

\* Before the call nothing is visited.
LEMMA WalkInit == TraverseInit => WalkInv
<1> SUFFICES ASSUME TraverseInit PROVE WalkInv
  OBVIOUS
<1>1. tree = NewTree(NoData, NoData) /\ NoData \in {NoData}
  BY DEF TraverseInit, NewlyMade
<1>2. IsTree(tree, {NoData}) /\ Linked(tree)
  BY <1>1, NewTreeLists
<1>3. /\ order \in {"breadth", "depth"} /\ visited \in Seq(BOOLEAN) /\ pc = "client"
      /\ work = <<>> /\ nodesHere = <<>> /\ arcsHere = <<>>
  BY DEF TraverseInit, NewlyMade
<1> QED
  BY <1>2, <1>3, ClientStarts

\* A node reaches itself, and the target of an arc is reached with its source.
LEMMA ReachSteps ==
  ASSUME NEW T, NEW r \in NodeIDs(T)
  PROVE  /\ r \in Reach(T, r)
         /\ \A a \in ArcIDs(T) :
              T.arcs[a].source \in Reach(T, r) /\ T.arcs[a].target \in NodeIDs(T)
                => T.arcs[a].target \in Reach(T, r)
BY DEF Reach, Closed

\* And no set that is closed is smaller.
LEMMA ReachLeast ==
  ASSUME NEW T, NEW r, NEW S \in SUBSET NodeIDs(T), r \in S, Closed(T, S)
  PROVE  Reach(T, r) \subseteq S
BY DEF Reach

\* The facts of a tree that the steps use.
LEMMA TreeOfWalk ==
  ASSUME TraverseTypes, Linked(tree)
  PROVE  /\ Len(tree.arcs) \in Nat /\ ArcIDs(tree) = 1 .. Len(tree.arcs)
         /\ \A a \in ArcIDs(tree) : /\ a \in Nat \ {0} /\ tree.arcs[a].target \in NodeIDs(tree)
                                    /\ tree.arcs[a].next_out \in Nat
         /\ \A n \in NodeIDs(tree) :
              /\ (From(n) = {} /\ tree.nodes[n].head_out = invalid) \/ tree.nodes[n].head_out \in From(n)
              /\ \A a \in From(n) : /\ a \in ArcIDs(tree) /\ tree.nodes[n].head_out <= a
                                    /\ IsNext(From(n), a, tree.arcs[a].next_out)
         /\ \A a \in ArcIDs(tree) : a \in From(tree.arcs[a].source)
         /\ \A n : \A a \in From(n) : tree.arcs[a].source = n
<1>1. tree \in TreeValue({NoData}) /\ EndsExist(tree)
  BY DEF TraverseTypes, IsTree
<1>2. Len(tree.arcs) \in Nat /\ ArcIDs(tree) = 1 .. Len(tree.arcs)
  BY <1>1, TreeFields DEF ArcIDs
<1>3. \A a \in ArcIDs(tree) : tree.arcs[a].next_out \in Nat
  BY <1>1, TreeFields
<1>4. \A a \in ArcIDs(tree) : a \in Nat \ {0} /\ tree.arcs[a].target \in NodeIDs(tree)
  BY <1>1, <1>2 DEF EndsExist
<1>5. /\ \A a \in ArcIDs(tree) : a \in From(tree.arcs[a].source)
      /\ \A n : \A a \in From(n) : a \in ArcIDs(tree) /\ tree.arcs[a].source = n
  BY <1>2 DEF From, ArcsFrom
<1>6. ASSUME NEW n \in NodeIDs(tree)
      PROVE  /\ (From(n) = {} /\ tree.nodes[n].head_out = invalid) \/ tree.nodes[n].head_out \in From(n)
             /\ \A a \in From(n) : /\ a \in ArcIDs(tree) /\ tree.nodes[n].head_out <= a
                                   /\ IsNext(From(n), a, tree.arcs[a].next_out)
  <2>1. ListEnds(From(n), tree.nodes[n].head_out, tree.nodes[n].tail_out, tree.nodes[n].out_size)
    BY DEF Linked, OutLinked, From
  <2>2. \A a \in 1 .. Len(tree.arcs) :
          IsNext(ArcsFrom(tree, tree.arcs[a].source, Len(tree.arcs)), a, tree.arcs[a].next_out)
    BY DEF Linked, OutLinked
  <2>3. \A a \in From(n) : IsNext(From(n), a, tree.arcs[a].next_out)
    BY <1>2, <1>5, <2>2 DEF From
  <2> QED
    BY <1>5, <2>1, <2>3 DEF ListEnds
<1> QED
  BY <1>2, <1>3, <1>4, <1>5, <1>6

---------------------------------------------------------------------------
\* The call visits and stacks the root of the walk.
LEMMA WalkCall == WalkInv /\ order' = order /\ (\E r \in NodeIDs(tree) : Call(r)) => WalkInv'
<1> SUFFICES ASSUME WalkInv, order' = order, NEW r \in NodeIDs(tree), Call(r) PROVE WalkInv'
  OBVIOUS
<1>1. /\ TraverseTypes /\ Linked(tree) /\ nodesHere = <<>> /\ arcsHere = <<>> /\ order' = order
      /\ tree' = tree /\ work' = <<r>> /\ root' = r /\ pc' = "while"
      /\ nodesHere' = <<>> /\ arcsHere' = <<>>
      /\ visited' = [n \in NodeIDs(tree) |-> n = r]
  BY DEF WalkInv, InCall, Call, newVisited, history
<1>2. Len(tree.nodes) \in Nat /\ NodeIDs(tree) = 1 .. Len(tree.nodes)
  BY <1>1, TreeFields DEF TraverseTypes, IsTree, NodeIDs
<1>3. visited' \in Seq(BOOLEAN) /\ DOMAIN visited' = NodeIDs(tree)
  BY <1>1, <1>2
<1>4. TraverseTypes' /\ InCall' /\ Linked(tree')
  BY <1>1, <1>3 DEF TraverseTypes, InCall, Linked
<1>5. Entries(work') = {r} /\ Entries(<<>>) = {} /\ Met' = {r}
  BY <1>1 DEF Entries, Met, InUse
<1>6. WorkIsMet' /\ Once' /\ TargetsAreMet'
  <2>1. NoneTwice(work') /\ NoneTwice(<<>>)
    <3>1. Len(work') = 1
      BY <1>1
    <3>2. \A i, j \in 1 .. Len(work') : i = j
      BY <3>1
    <3> QED
      BY <3>2 DEF NoneTwice
  <2> QED
    BY <1>1, <1>5, <2>1 DEF WorkIsMet, Once, TargetsAreMet
<1>7. VisitedAreMet' /\ OnArc' /\ HereAreWalked'
  BY <1>1, <1>5 DEF VisitedAreMet, OnArc, HereAreWalked, Walked, NodeIDs
<1>8. MetAreReached'
  <2>1. r \in Reach(tree, r)
    BY ReachSteps
  <2> QED
    BY <1>1, <1>5, <2>1 DEF MetAreReached
<1> QED
  BY <1>4, <1>6, <1>7, <1>8 DEF WalkInv

\* The node that is taken off the stack has passed none of its arcs.
LEMMA WalkPop == WalkInv /\ order' = order /\ Pop => WalkInv'
<1> SUFFICES ASSUME WalkInv, order' = order, Pop PROVE WalkInv'
  OBVIOUS
<1>1. PICK n, rest : n = take(work)[1] /\ rest = take(work)[2]
  OBVIOUS
<1>2. /\ TraverseTypes /\ Linked(tree) /\ InCall /\ VisitedAreMet /\ WorkIsMet /\ HereAreWalked
      /\ TargetsAreMet /\ MetAreReached /\ Once
      /\ pc = "while" /\ work # <<>> /\ work \in Seq(NodeIDs(tree))
      /\ tree' = tree /\ visited' = visited /\ root' = root /\ pc' = "for"
      /\ nodesHere' = nodesHere /\ arcsHere' = arcsHere
      /\ parent' = n /\ work' = rest /\ arc' = tree.nodes[n].head_out
  <2>1. /\ pc = "while" /\ work # <<>> /\ parent' = n /\ work' = rest
        /\ arc' = beginOut(tree, parent') /\ pc' = "for" /\ tree' = tree
        /\ visited' = visited /\ root' = root /\ nodesHere' = nodesHere /\ arcsHere' = arcsHere
    BY <1>1 DEF Pop, history, statics
  <2> QED
    BY <2>1 DEF WalkInv, TraverseTypes, beginOut
<1>3. PICK S : S = NodeIDs(tree)
  OBVIOUS
<1>4. Extends(work, rest, n, S)
  <2>1. work \in Seq(S) /\ work # <<>>
    BY <1>2, <1>3
  <2>2. CASE order = "breadth"
    <3>1. n = Head(work) /\ rest = Tail(work)
      BY <1>1, <2>2 DEF take, first
    <3> QED
      BY ONLY <2>1, <3>1, PoppedFront
  <2>3. CASE order # "breadth"
    <3>1. n = work[Len(work)] /\ rest = SubSeq(work, 1, Len(work) - 1)
      BY <1>1, <2>3 DEF take, last
    <3> QED
      BY ONLY <2>1, <3>1, PoppedBack
  <2> QED
    BY <2>2, <2>3
<1>5. /\ rest \in Seq(NodeIDs(tree)) /\ n \in NodeIDs(tree)
      /\ Entries(work) = Entries(rest) \union {n} /\ NoneTwice(rest) /\ n \notin Entries(rest)
      /\ n \in Met
  BY <1>2, <1>3, <1>4 DEF Extends, WorkIsMet
<1>6. Met' = Met
  BY <1>2 DEF Met
<1>7. /\ ArcIDs(tree) = 1 .. Len(tree.arcs)
      /\ (From(n) = {} /\ tree.nodes[n].head_out = invalid) \/ tree.nodes[n].head_out \in From(n)
      /\ \A a \in From(n) : a \in ArcIDs(tree) /\ tree.nodes[n].head_out <= a
      /\ \A a \in ArcIDs(tree) : a \in Nat \ {0} /\ a \in From(tree.arcs[a].source)
  BY <1>2, <1>5, TreeOfWalk
<1>8. TraverseTypes' /\ InCall' /\ Linked(tree')
  BY <1>2, <1>5, <1>7 DEF TraverseTypes, InCall, Linked
<1>9. VisitedAreMet' /\ WorkIsMet' /\ TargetsAreMet' /\ MetAreReached' /\ Once'
  BY <1>2, <1>5, <1>6 DEF VisitedAreMet, WorkIsMet, TargetsAreMet, MetAreReached, Once
<1>10. OnArc'
  BY <1>2, <1>5, <1>6, <1>7 DEF OnArc, From
<1>11. HereAreWalked'
  <2> SUFFICES ASSUME NEW a \in ArcIDs(tree) PROVE a \in Entries(arcsHere) <=> Walked(a)'
    BY <1>2 DEF HereAreWalked
  <2>1. a \in Entries(arcsHere) <=> tree.arcs[a].source \in Met \ Entries(work)
    BY <1>2 DEF HereAreWalked, Walked
  <2>2. CASE tree.arcs[a].source = n
    <3>1. a \in From(n) /\ a \in Nat
      BY <1>7, <2>2
    <3>2. arc' \in From(n) /\ arc' <= a
      BY <1>2, <1>7, <3>1
    <3>3. arc' # invalid /\ arc' \in Nat
      BY <1>7, <3>2 DEF invalid
    <3> QED
      BY <1>2, <1>5, <1>6, <2>1, <2>2, <3>1, <3>2, <3>3 DEF Walked
  <2>3. CASE tree.arcs[a].source # n
    BY <1>2, <1>5, <1>6, <2>1, <2>3 DEF Walked
  <2> QED
    BY <2>2, <2>3
<1> QED
  BY <1>8, <1>9, <1>10, <1>11 DEF WalkInv

---------------------------------------------------------------------------
\* What the two ways to pass an arc have in common: the arc is walked.
Passes(c) ==
  /\ pc = "for" /\ arc # invalid /\ c = tree.arcs[arc].target
  /\ arcsHere' = Append(arcsHere, arc) /\ arc' = tree.arcs[arc].next_out
  /\ tree' = tree /\ root' = root /\ parent' = parent /\ pc' = pc /\ order' = order

\* The arc that is passed leaves the parent, and the next one does, too.
LEMMA PassedArc ==
  ASSUME WalkInv, NEW c, Passes(c)
  PROVE  /\ ArcIDs(tree) = 1 .. Len(tree.arcs)
         /\ arc \in ArcIDs(tree) /\ c \in NodeIDs(tree)
         /\ tree.arcs[arc].source = parent /\ parent \in Met \ Entries(work)
         /\ parent \in NodeIDs(tree)
         /\ arc' = invalid \/ arc' \in From(parent)
         /\ arc' \in ArcIDs(tree) \union {invalid}
         /\ arcsHere' \in Seq(ArcIDs(tree)) /\ NoneTwice(arcsHere')
         /\ Entries(arcsHere') = Entries(arcsHere) \union {arc}
         /\ \A a \in ArcIDs(tree) :
              a \in Entries(arcsHere') <=>
                /\ tree.arcs[a].source \in Met \ Entries(work)
                /\ tree.arcs[a].source = parent => arc' = invalid \/ a < arc'
<1>1. /\ TraverseTypes /\ Linked(tree) /\ OnArc /\ HereAreWalked /\ Once
      /\ pc = "for" /\ arc # invalid /\ c = tree.arcs[arc].target
      /\ arcsHere' = Append(arcsHere, arc) /\ arc' = tree.arcs[arc].next_out
  BY DEF WalkInv, Passes
<1>2. /\ parent \in Met \ Entries(work) /\ arc \in From(parent) /\ parent \in NodeIDs(tree)
      /\ arcsHere \in Seq(ArcIDs(tree)) /\ NoneTwice(arcsHere)
  BY <1>1 DEF OnArc, TraverseTypes, Once
<1>3. /\ ArcIDs(tree) = 1 .. Len(tree.arcs)
      /\ \A a \in ArcIDs(tree) : /\ a \in Nat \ {0} /\ tree.arcs[a].target \in NodeIDs(tree)
                                 /\ tree.arcs[a].next_out \in Nat
                                 /\ a \in From(tree.arcs[a].source)
      /\ \A a \in From(parent) : /\ a \in ArcIDs(tree) /\ tree.arcs[a].source = parent
                                 /\ IsNext(From(parent), a, tree.arcs[a].next_out)
  BY <1>1, <1>2, TreeOfWalk
<1>4. /\ arc \in ArcIDs(tree) /\ arc \in Nat /\ tree.arcs[arc].source = parent
      /\ c \in NodeIDs(tree) /\ arc' \in Nat /\ IsNext(From(parent), arc, arc')
  BY <1>1, <1>2, <1>3
<1>5. arc' = invalid \/ arc' \in From(parent)
  BY <1>4 DEF IsNext
<1>6. arc \notin Entries(arcsHere)
  <2>1. ~ Walked(arc)
    BY <1>1, <1>4 DEF Walked
  <2> QED
    BY <1>1, <1>4, <2>1 DEF HereAreWalked
<1>7. /\ arcsHere' \in Seq(ArcIDs(tree)) /\ NoneTwice(arcsHere')
      /\ Entries(arcsHere') = Entries(arcsHere) \union {arc}
  <2>1. PICK S : S = ArcIDs(tree)
    OBVIOUS
  <2>2. arcsHere \in Seq(S) /\ arc \in S /\ arcsHere' = Append(arcsHere, arc)
    BY <1>1, <1>2, <1>4, <2>1
  <2>3. Extends(arcsHere', arcsHere, arc, S)
    BY ONLY <2>2, Pushed
  <2> QED
    BY <1>2, <1>6, <2>1, <2>3 DEF Extends
<1>8. ASSUME NEW a \in ArcIDs(tree)
      PROVE  a \in Entries(arcsHere') <=>
               /\ tree.arcs[a].source \in Met \ Entries(work)
               /\ tree.arcs[a].source = parent => arc' = invalid \/ a < arc'
  <2>1. a \in Entries(arcsHere) <=> Walked(a)
    BY <1>1 DEF HereAreWalked
  <2>2. CASE tree.arcs[a].source = parent
    <3>1. a \in From(parent) /\ a \in Nat
      BY <1>3, <2>2
    <3>2. arc' = invalid \/ a < arc' <=> a = arc \/ a < arc
      BY <1>4, <3>1 DEF IsNext
    <3>3. Walked(a) <=> a < arc
      BY <1>1, <1>2, <2>2 DEF Walked
    <3> QED
      BY <1>2, <1>7, <2>1, <2>2, <3>2, <3>3
  <2>3. CASE tree.arcs[a].source # parent
    BY <1>1, <1>4, <1>7, <2>1, <2>3 DEF Walked
  <2> QED
    BY <2>2, <2>3
<1> QED
  BY <1>2, <1>3, <1>4, <1>5, <1>7, <1>8

\* An arc to a node that was visited before.
LEMMA WalkLater == WalkInv /\ order' = order /\ LaterVisit => WalkInv'
<1> SUFFICES ASSUME WalkInv, order' = order, LaterVisit PROVE WalkInv'
  OBVIOUS
<1>1. PICK c : c = tree.arcs[arc].target
  OBVIOUS
<1>2. /\ Passes(c) /\ visited[c] /\ pc = "for"
      /\ visited' = visited /\ work' = work /\ nodesHere' = nodesHere
      /\ arc' = tree.arcs[arc].next_out
      /\ tree' = tree /\ root' = root /\ parent' = parent /\ pc' = pc /\ order' = order
  BY <1>1 DEF LaterVisit, isNew, Child, nextOut, Passes, statics
<1>3. /\ ArcIDs(tree) = 1 .. Len(tree.arcs)
      /\ c \in NodeIDs(tree) /\ parent \in Met \ Entries(work)
      /\ arc' = invalid \/ arc' \in From(parent)
      /\ arc' \in ArcIDs(tree) \union {invalid}
      /\ arcsHere' \in Seq(ArcIDs(tree)) /\ NoneTwice(arcsHere')
      /\ Entries(arcsHere') = Entries(arcsHere) \union {arc}
      /\ \A a \in ArcIDs(tree) :
           a \in Entries(arcsHere') <=>
             /\ tree.arcs[a].source \in Met \ Entries(work)
             /\ tree.arcs[a].source = parent => arc' = invalid \/ a < arc'
  BY <1>2, PassedArc
<1>4. Met' = Met /\ c \in Met
  BY <1>2, <1>3 DEF Met, WalkInv, VisitedAreMet
<1>5. TraverseTypes' /\ InCall' /\ Linked(tree')
  BY <1>2, <1>3 DEF WalkInv, TraverseTypes, InCall, Linked
<1>6. VisitedAreMet' /\ WorkIsMet' /\ MetAreReached' /\ OnArc'
  BY <1>2, <1>3, <1>4 DEF WalkInv, VisitedAreMet, WorkIsMet, MetAreReached, OnArc, From
<1>7. TargetsAreMet' /\ Once'
  BY <1>1, <1>2, <1>3, <1>4 DEF WalkInv, TargetsAreMet, Once
<1>8. HereAreWalked'
  BY <1>2, <1>3, <1>4 DEF HereAreWalked, Walked
<1> QED
  BY <1>5, <1>6, <1>7, <1>8 DEF WalkInv

\* An arc to a node that is visited now.
LEMMA WalkFirst == WalkInv /\ order' = order /\ FirstVisit => WalkInv'
<1> SUFFICES ASSUME WalkInv, order' = order, FirstVisit PROVE WalkInv'
  OBVIOUS
<1>1. PICK c : c = tree.arcs[arc].target
  OBVIOUS
<1>2. /\ Passes(c) /\ ~ visited[c] /\ pc = "for"
      /\ visited' = [visited EXCEPT ![c] = TRUE] /\ work' = Append(work, c)
      /\ nodesHere' = Append(nodesHere, c) /\ arc' = tree.arcs[arc].next_out
      /\ tree' = tree /\ root' = root /\ parent' = parent /\ pc' = pc /\ order' = order
  BY <1>1 DEF FirstVisit, isNew, Child, nextOut, Passes
<1>3. /\ ArcIDs(tree) = 1 .. Len(tree.arcs)
      /\ arc \in ArcIDs(tree) /\ tree.arcs[arc].source = parent
      /\ c \in NodeIDs(tree) /\ parent \in Met \ Entries(work)
      /\ arc' = invalid \/ arc' \in From(parent)
      /\ arc' \in ArcIDs(tree) \union {invalid}
      /\ arcsHere' \in Seq(ArcIDs(tree)) /\ NoneTwice(arcsHere')
      /\ Entries(arcsHere') = Entries(arcsHere) \union {arc}
      /\ \A a \in ArcIDs(tree) :
           a \in Entries(arcsHere') <=>
             /\ tree.arcs[a].source \in Met \ Entries(work)
             /\ tree.arcs[a].source = parent => arc' = invalid \/ a < arc'
  BY <1>2, PassedArc
<1>4. /\ visited \in Seq(BOOLEAN) /\ DOMAIN visited = NodeIDs(tree) /\ root \in NodeIDs(tree)
      /\ work \in Seq(NodeIDs(tree)) /\ nodesHere \in Seq(NodeIDs(tree))
      /\ NoneTwice(work) /\ NoneTwice(nodesHere) /\ root \notin Entries(nodesHere)
      /\ Entries(work) \subseteq Met /\ Met = {root} \union Entries(nodesHere)
      /\ \A n \in NodeIDs(tree) : visited[n] <=> n \in Met
  BY <1>2 DEF WalkInv, TraverseTypes, InCall, WorkIsMet, Once, VisitedAreMet, Met, InUse, Entries
<1>5. c \notin Met /\ c # root /\ c \notin Entries(nodesHere) /\ c \notin Entries(work)
  BY <1>2, <1>3, <1>4
<1>6. /\ work' \in Seq(NodeIDs(tree)) /\ nodesHere' \in Seq(NodeIDs(tree))
      /\ NoneTwice(work') /\ NoneTwice(nodesHere')
      /\ Entries(work') = Entries(work) \union {c}
      /\ Entries(nodesHere') = Entries(nodesHere) \union {c}
  <2>1. PICK S : S = NodeIDs(tree)
    OBVIOUS
  <2>2. work \in Seq(S) /\ c \in S /\ work' = Append(work, c)
    BY <1>2, <1>3, <1>4, <2>1
  <2>3. Extends(work', work, c, S)
    BY ONLY <2>2, Pushed
  <2>4. nodesHere \in Seq(S) /\ c \in S /\ nodesHere' = Append(nodesHere, c)
    BY <1>2, <1>3, <1>4, <2>1
  <2>5. Extends(nodesHere', nodesHere, c, S)
    BY ONLY <2>4, Pushed
  <2> QED
    BY <1>4, <1>5, <2>1, <2>3, <2>5 DEF Extends
<1>7. Met' = Met \union {c} /\ Met' \ Entries(work') = Met \ Entries(work)
  <2>1. Met' = {root} \union Entries(nodesHere')
    BY <1>2 DEF Met, InUse, Entries
  <2> QED
    BY <1>4, <1>5, <1>6, <2>1
<1>8. /\ visited' \in Seq(BOOLEAN) /\ DOMAIN visited' = NodeIDs(tree)
      /\ \A n \in NodeIDs(tree) : visited'[n] <=> n = c \/ visited[n]
  BY <1>2, <1>3, <1>4
<1>9. TraverseTypes' /\ InCall' /\ Linked(tree')
  BY <1>2, <1>3, <1>6, <1>8 DEF WalkInv, TraverseTypes, InCall, Linked
<1>10. VisitedAreMet' /\ WorkIsMet' /\ OnArc' /\ Once'
  BY <1>2, <1>3, <1>4, <1>5, <1>6, <1>7, <1>8 DEF VisitedAreMet, WorkIsMet, OnArc, From, Once
<1>11. HereAreWalked'
  BY <1>2, <1>3, <1>7 DEF HereAreWalked, Walked
<1>12. TargetsAreMet'
  BY <1>1, <1>2, <1>3, <1>7 DEF WalkInv, TargetsAreMet
<1>13. MetAreReached'
  <2>1. parent \in Reach(tree, root)
    BY <1>2, <1>3 DEF WalkInv, MetAreReached
  <2>2. c \in Reach(tree, root)
    BY <1>1, <1>3, <1>4, <2>1, ReachSteps
  <2> QED
    BY <1>2, <1>7, <2>2 DEF WalkInv, MetAreReached
<1> QED
  BY <1>9, <1>10, <1>11, <1>12, <1>13 DEF WalkInv

---------------------------------------------------------------------------
\* The end of the for-loop and the end of a call change the place only.
LEMMA WalkEnds == WalkInv /\ order' = order /\ (EndFor \/ Return) => WalkInv'
<1> SUFFICES ASSUME WalkInv, order' = order, EndFor \/ Return PROVE WalkInv'
  OBVIOUS
<1>1. /\ tree' = tree /\ visited' = visited /\ work' = work /\ root' = root
      /\ parent' = parent /\ arc' = arc /\ nodesHere' = nodesHere /\ arcsHere' = arcsHere
      /\ order' = order /\ pc # "client"
      /\ \/ pc = "for" /\ arc = invalid /\ pc' = "while"
         \/ pc = "while" /\ work = <<>> /\ pc' = "returned"
  BY DEF EndFor, Return, locals, history, statics
<1>2. Met' = Met
  BY <1>1 DEF Met
<1>3. TraverseTypes' /\ InCall' /\ Linked(tree')
  BY <1>1 DEF WalkInv, TraverseTypes, InCall, Linked
<1>4. VisitedAreMet' /\ WorkIsMet' /\ OnArc' /\ TargetsAreMet'
  BY <1>1, <1>2 DEF WalkInv, VisitedAreMet, WorkIsMet, OnArc, TargetsAreMet
<1>5. HereAreWalked'
  BY <1>1, <1>2 DEF WalkInv, HereAreWalked, Walked
<1>6. MetAreReached' /\ Once'
  BY <1>1, <1>2 DEF WalkInv, MetAreReached, Once
<1> QED
  BY <1>3, <1>4, <1>5, <1>6 DEF WalkInv

\* The client grows the tree between two calls.
LEMMA WalkClient ==
  WalkInv /\ order' = order /\ (Grow \/ Resume) => WalkInv'
<1> SUFFICES ASSUME WalkInv, order' = order, Grow \/ Resume PROVE WalkInv'
  OBVIOUS
<1>1. /\ IsTree(tree, {NoData}) /\ Linked(tree) /\ visited \in Seq(BOOLEAN)
      /\ order \in {"breadth", "depth"} /\ NoData \in {NoData}
      /\ pc = "client" => nodesHere = <<>> /\ arcsHere = <<>>
      /\ pc \in {"client", "returned"} => work = <<>>
  BY DEF WalkInv, TraverseTypes, InCall
<1>2. /\ pc' = "client" /\ work' = <<>> /\ nodesHere' = <<>> /\ arcsHere' = <<>>
      /\ visited' = visited /\ order' = order
  BY <1>1 DEF Grow, AddNode, AddArc, Resume, locals, history, statics
<1>3. IsTree(tree', {NoData}) /\ Linked(tree')
  BY <1>1, GrownExact DEF Grow, Resume
<1>4. WalkInv'
  <2>1. TraverseTypes'
    BY <1>1, <1>2, <1>3 DEF TraverseTypes
  <2>2. Entries(<<>>) = {} /\ NoneTwice(<<>>)
    BY DEF Entries, NoneTwice
  <2> QED
    BY <1>2, <1>3, <2>1, <2>2
    DEF WalkInv, InCall, VisitedAreMet, WorkIsMet, OnArc, HereAreWalked, TargetsAreMet,
        MetAreReached, Once
<1> QED
  BY <1>4

\* The invariant reads nothing but these variables.
LEMMA WalkStutters == WalkInv /\ UNCHANGED <<tree, pc, traverseVars>> => WalkInv'
<1> SUFFICES ASSUME WalkInv, UNCHANGED <<tree, pc, traverseVars>> PROVE WalkInv'
  OBVIOUS
<1>1. /\ tree' = tree /\ visited' = visited /\ work' = work /\ root' = root
      /\ parent' = parent /\ arc' = arc /\ nodesHere' = nodesHere /\ arcsHere' = arcsHere
      /\ order' = order /\ pc' = pc
  BY DEF traverseVars, locals, history, statics
<1>2. Met' = Met
  BY <1>1 DEF Met
<1>3. TraverseTypes' /\ InCall' /\ Linked(tree')
  BY <1>1 DEF WalkInv, TraverseTypes, InCall, Linked
<1>4. VisitedAreMet' /\ WorkIsMet' /\ OnArc' /\ TargetsAreMet'
  BY <1>1, <1>2 DEF WalkInv, VisitedAreMet, WorkIsMet, OnArc, From, TargetsAreMet
<1>5. HereAreWalked'
  BY <1>1, <1>2 DEF WalkInv, HereAreWalked, Walked
<1>6. MetAreReached' /\ Once'
  BY <1>1, <1>2 DEF WalkInv, MetAreReached, Once
<1> QED
  BY <1>3, <1>4, <1>5, <1>6 DEF WalkInv

\* Every step of traverse keeps the invariant.
LEMMA WalkKeeps == WalkInv /\ [TraverseNext]_<<tree, pc, traverseVars>> => WalkInv'
BY WalkCall, WalkPop, WalkFirst, WalkLater, WalkEnds, WalkClient, WalkStutters
DEF TraverseNext, Client, Traverse

\* The types, what visited and the work list stand for, and what a walk has met
\* and passed.
LEMMA WalkLoop == WalkInv => TraverseTypes /\ TraverseLoopInv
<1> SUFFICES ASSUME WalkInv PROVE TraverseTypes /\ TraverseLoopInv
  OBVIOUS
<1>1. VisitedIsMet
  <2>1. Met \subseteq NodeIDs(tree) \/ pc = "client"
    BY DEF WalkInv, TraverseTypes, InCall, Met, InUse
  <2> QED
    BY <2>1 DEF WalkInv, VisitedAreMet, VisitedIsMet
<1>2. WorkLeft
  BY DEF WalkInv, WorkIsMet, HereAreWalked, Walked, WorkLeft, NoneTwice, Distinct, Entries, InUse
<1> QED
  BY <1>1, <1>2 DEF WalkInv, TraverseLoopInv

\* What a walk has met when it returns is closed under the arcs.
LEMMA MetAtTheEnd ==
  ASSUME WalkInv, pc = "returned"
  PROVE  /\ Met = Reach(tree, root)
         /\ \A a \in ArcIDs(tree) : a \in InUse(arcsHere) <=> tree.arcs[a].source \in Met
<1>1. /\ root \in NodeIDs(tree) /\ work = <<>> /\ Entries(work) = {}
      /\ Met \subseteq NodeIDs(tree) /\ root \in Met
  BY DEF WalkInv, InCall, TraverseTypes, Met, InUse, Entries
<1>2. \A a \in ArcIDs(tree) : a \in Entries(arcsHere) <=> tree.arcs[a].source \in Met
  BY <1>1 DEF WalkInv, HereAreWalked, Walked
<1>3. Closed(tree, Met)
  BY <1>2 DEF WalkInv, TargetsAreMet, Closed
<1>4. Reach(tree, root) \subseteq Met
  BY <1>1, <1>3, ReachLeast
<1> QED
  BY <1>2, <1>4 DEF WalkInv, MetAreReached, Entries, InUse

\* When the walk is over, it has met what the root reaches.
LEMMA WalkMeetsReach == WalkInv => MeetsReachOnce
BY MetAtTheEnd DEF WalkInv, Once, MeetsReachOnce, NoneTwice, Distinct, Entries, InUse

\* And has passed the arcs below it.
LEMMA WalkPassesArcs == WalkInv => PassesArcsOnce
<1> SUFFICES ASSUME WalkInv PROVE PassesArcsOnce
  OBVIOUS
<1>1. Distinct(arcsHere)
  BY DEF WalkInv, Once, NoneTwice, Distinct
<1>2. InUse(arcsHere) \subseteq ArcIDs(tree)
  BY DEF WalkInv, TraverseTypes, InUse
<1> QED
  BY <1>1, <1>2, MetAtTheEnd DEF PassesArcsOnce

(***************************************************************************)
(* Depth first.  While the node that was met last was met from the node    *)
(* the walk is at, it is on top of the stack.                              *)
(***************************************************************************)
\* The i-th arc that was walked is the first to lead to n.
Leads(n, i) ==
  /\ i \in 1 .. Len(arcsHere) /\ tree.arcs[arcsHere[i]].target = n
  /\ \A j \in 1 .. i - 1 : tree.arcs[arcsHere[j]].target # n

AllWereLedTo == \A n \in Entries(nodesHere) : \E i \in Nat : Leads(n, i)

LatestMet == nodesHere[Len(nodesHere)]

LatestOnTop ==
  order = "depth" /\ pc \in {"while", "for"} /\ nodesHere # <<>> =>
    (MetFrom(LatestMet) = parent => work # <<>> /\ work[Len(work)] = LatestMet)

DeepInv == AllWereLedTo /\ LatestOnTop

\* There is one first arc.
LEMMA LedBy ==
  ASSUME NEW T, NEW arcs, NEW n, NEW i \in 1 .. Len(arcs), T.arcs[arcs[i]].target = n,
         \A j \in 1 .. i - 1 : T.arcs[arcs[j]].target # n
  PROVE  (CHOOSE k \in 1 .. Len(arcs) :
            /\ T.arcs[arcs[k]].target = n
            /\ \A j \in 1 .. k - 1 : T.arcs[arcs[j]].target # n) = i
<1> DEFINE IsFirst(k) == /\ T.arcs[arcs[k]].target = n
                         /\ \A j \in 1 .. k - 1 : T.arcs[arcs[j]].target # n
<1>1. IsFirst(i)
  OBVIOUS
<1>2. ASSUME NEW k \in 1 .. Len(arcs), IsFirst(k) PROVE k = i
  <2>1. ~ (k < i) /\ ~ (i < k)
    BY <1>1, <1>2
  <2> QED
    BY <2>1
<1> HIDE DEF IsFirst
<1>3. (CHOOSE k \in 1 .. Len(arcs) : IsFirst(k)) = i
  BY <1>1, <1>2
<1> QED
  BY <1>3 DEF IsFirst

\* So it is the one MetFrom chooses, before a step and after it.
LEMMA LedFrom ==
  ASSUME NEW n, NEW i \in Nat
  PROVE  /\ Leads(n, i) => MetFrom(n) = tree.arcs[arcsHere[i]].source
         /\ Leads(n, i)' => MetFrom(n)' = tree'.arcs[arcsHere'[i]].source
<1>1. ASSUME NEW T, NEW arcs, i \in 1 .. Len(arcs), T.arcs[arcs[i]].target = n,
             \A j \in 1 .. i - 1 : T.arcs[arcs[j]].target # n
      PROVE  LET led == CHOOSE k \in 1 .. Len(arcs) :
                          /\ T.arcs[arcs[k]].target = n
                          /\ \A j \in 1 .. k - 1 : T.arcs[arcs[j]].target # n
             IN  T.arcs[arcs[led]].source = T.arcs[arcs[i]].source
  <2> DEFINE led == CHOOSE k \in 1 .. Len(arcs) :
                      /\ T.arcs[arcs[k]].target = n
                      /\ \A j \in 1 .. k - 1 : T.arcs[arcs[j]].target # n
  <2>1. led = i
    BY <1>1, LedBy
  <2> QED
    BY <2>1
<1>2. ASSUME Leads(n, i) PROVE MetFrom(n) = tree.arcs[arcsHere[i]].source
  BY <1>1, <1>2 DEF Leads, MetFrom
<1>3. ASSUME Leads(n, i)' PROVE MetFrom(n)' = tree'.arcs[arcsHere'[i]].source
  BY <1>1, <1>3 DEF Leads, MetFrom
<1> QED
  BY <1>2, <1>3

\* What Append puts last.
LEMMA AppendedLast ==
  ASSUME NEW S, NEW q \in Seq(S), NEW x \in S, NEW r, r = Append(q, x)
  PROVE  r # <<>> /\ r[Len(r)] = x
OBVIOUS

\* It stays the first when the walk goes on.
LEMMA LeadsStays ==
  ASSUME NEW n, NEW i \in Nat, Leads(n, i), tree' = tree,
         arcsHere \in Seq(ArcIDs(tree)), arcsHere' = Append(arcsHere, arc)
  PROVE  Leads(n, i)'
<1>1. /\ Len(arcsHere') = Len(arcsHere) + 1 /\ Len(arcsHere) \in Nat
      /\ \A j \in 1 .. Len(arcsHere) : arcsHere'[j] = arcsHere[j]
  OBVIOUS
<1> QED
  BY <1>1 DEF Leads

\* The latest is an entry.
LEMMA LatestEntry ==
  ASSUME nodesHere \in Seq(NodeIDs(tree)), nodesHere # <<>>
  PROVE  LatestMet \in Entries(nodesHere)
BY DEF LatestMet, Entries

\* What is met from a node is met when that node was taken off the list.
LEMMA MetFromTaken ==
  ASSUME WalkInv, AllWereLedTo, pc = "while", NEW n \in Entries(nodesHere)
  PROVE  MetFrom(n) \notin Entries(work)
<1>1. PICK i \in Nat : Leads(n, i)
  BY DEF AllWereLedTo
<1>2. MetFrom(n) = tree.arcs[arcsHere[i]].source
  BY <1>1, LedFrom
<1>3. arcsHere \in Seq(ArcIDs(tree)) /\ i \in 1 .. Len(arcsHere)
  BY <1>1 DEF WalkInv, TraverseTypes, Leads
<1>4. arcsHere[i] \in ArcIDs(tree) /\ arcsHere[i] \in Entries(arcsHere)
  BY <1>3 DEF Entries
<1>5. Walked(arcsHere[i])
  BY <1>4 DEF WalkInv, HereAreWalked
<1> QED
  BY <1>2, <1>5 DEF Walked

\* A walk that leaves the node its latest was met from goes on with the latest.
LEMMA GoesDeeper == WalkInv /\ DeepInv => DeeperStep
<1> SUFFICES ASSUME WalkInv, DeepInv, order = "depth", Pop, nodesHere # <<>>,
                    MetFrom(LatestMet) = parent
             PROVE  parent' = LatestMet
  BY DEF DeeperStep, LatestMet
<1>1. work[Len(work)] = LatestMet
  BY DEF DeepInv, LatestOnTop, Pop
<1>2. parent' = work[Len(work)]
  BY DEF Pop, take, last
<1> QED
  BY <1>1, <1>2

\* Every step of a traversal keeps it.
LEMMA DeepKeeps ==
  WalkInv /\ DeepInv /\ [TraverseNext]_<<tree, pc, traverseVars>> => DeepInv'
<1> SUFFICES ASSUME WalkInv, DeepInv, [TraverseNext]_<<tree, pc, traverseVars>> PROVE DeepInv'
  OBVIOUS
<1>1. /\ nodesHere \in Seq(NodeIDs(tree)) /\ arcsHere \in Seq(ArcIDs(tree))
      /\ work \in Seq(NodeIDs(tree))
  BY DEF WalkInv, TraverseTypes
<1>2. CASE nodesHere' = <<>>
  BY <1>2 DEF DeepInv, AllWereLedTo, LatestOnTop, Entries
<1>3. CASE Pop /\ order' = order
  <2>1. /\ tree' = tree /\ nodesHere' = nodesHere /\ arcsHere' = arcsHere /\ pc = "while"
    BY <1>3 DEF Pop, history
  <2>2. AllWereLedTo'
    BY <2>1 DEF DeepInv, AllWereLedTo, Leads
  <2>3. ASSUME order = "depth", nodesHere # <<>> PROVE MetFrom(LatestMet) # parent'
    <3>1. parent' = work[Len(work)] /\ work # <<>>
      BY <1>3, <2>3 DEF Pop, take, last
    <3>2. parent' \in Entries(work)
      BY <1>1, <3>1 DEF Entries
    <3>3. MetFrom(LatestMet) \notin Entries(work)
      BY <1>1, <2>1, <2>3, LatestEntry, MetFromTaken DEF DeepInv
    <3> QED
      BY <3>2, <3>3
  <2>4. MetFrom(LatestMet)' = MetFrom(LatestMet)
    BY <2>1 DEF MetFrom, LatestMet
  <2> QED
    BY <1>3, <2>1, <2>2, <2>3, <2>4 DEF DeepInv, LatestOnTop
<1>4. CASE FirstVisit
  <2>1. PICK c : c = tree.arcs[arc].target
    OBVIOUS
  <2>2. /\ tree' = tree /\ pc = "for" /\ ~ visited[c] /\ arc # invalid
        /\ work' = Append(work, c) /\ nodesHere' = Append(nodesHere, c)
        /\ arcsHere' = Append(arcsHere, arc)
    BY <1>4, <2>1 DEF FirstVisit, isNew, Child
  <2>3. arc \in ArcIDs(tree) /\ c \in NodeIDs(tree)
    <3>1. arc \in ArcIDs(tree)
      BY <2>2 DEF WalkInv, TraverseTypes
    <3> QED
      BY <2>1, <3>1, TreeOfWalk DEF WalkInv
  <2>4. /\ work' # <<>> /\ work'[Len(work')] = c /\ nodesHere'[Len(nodesHere')] = c
    <3>1. PICK S, q, r : S = NodeIDs(tree) /\ q = work' /\ r = nodesHere'
      OBVIOUS
    <3>2. /\ work \in Seq(S) /\ nodesHere \in Seq(S) /\ c \in S
          /\ q = Append(work, c) /\ r = Append(nodesHere, c)
      BY <1>1, <2>2, <2>3, <3>1
    <3>3. q # <<>> /\ q[Len(q)] = c /\ r[Len(r)] = c
      BY ONLY <3>2, AppendedLast
    <3> QED
      BY <3>1, <3>3
  <2>5. LatestOnTop'
    BY <2>4 DEF LatestOnTop, LatestMet
  <2>6. c \notin Met
    BY <2>2, <2>3 DEF WalkInv, VisitedAreMet
  <2>7. PICK k : k = Len(arcsHere) + 1
    OBVIOUS
  <2>8. k \in Nat /\ Leads(c, k)'
    <3>1. /\ Len(arcsHere') = k /\ k \in Nat \ {0} /\ arcsHere'[k] = arc
          /\ k - 1 = Len(arcsHere)
          /\ \A j \in 1 .. Len(arcsHere) : arcsHere'[j] = arcsHere[j]
      BY <1>1, <2>2, <2>7
    <3>2. \A j \in 1 .. Len(arcsHere) : tree.arcs[arcsHere[j]].target # c
      BY <2>6 DEF WalkInv, TargetsAreMet, Entries
    <3> QED
      BY <2>1, <2>2, <3>1, <3>2 DEF Leads
  <2>9. Entries(nodesHere') = Entries(nodesHere) \union {c}
    <3>1. PICK S : S = NodeIDs(tree)
      OBVIOUS
    <3>2. nodesHere \in Seq(S) /\ c \in S /\ nodesHere' = Append(nodesHere, c)
      BY <1>1, <2>2, <2>3, <3>1
    <3>3. Extends(nodesHere', nodesHere, c, S)
      BY ONLY <3>2, Pushed
    <3> QED
      BY <3>3 DEF Extends
  <2>10. AllWereLedTo'
    <3>1. \A n \in Entries(nodesHere) : \E i \in Nat : Leads(n, i)'
      BY <1>1, <2>2, LeadsStays DEF DeepInv, AllWereLedTo
    <3> QED
      BY <2>8, <2>9, <3>1 DEF AllWereLedTo
  <2> QED
    BY <2>5, <2>10 DEF DeepInv
<1>5. CASE LaterVisit /\ order' = order
  <2>1. /\ tree' = tree /\ pc' = pc /\ work' = work /\ parent' = parent /\ pc = "for"
        /\ nodesHere' = nodesHere /\ arcsHere' = Append(arcsHere, arc)
    BY <1>5 DEF LaterVisit
  <2>2. \A n \in Entries(nodesHere) : \E i \in Nat : Leads(n, i) /\ Leads(n, i)'
    BY <1>1, <2>1, LeadsStays DEF DeepInv, AllWereLedTo
  <2>3. AllWereLedTo'
    BY <2>1, <2>2 DEF AllWereLedTo
  <2>4. ASSUME nodesHere # <<>> PROVE MetFrom(LatestMet)' = MetFrom(LatestMet)
    <3>1. PICK n : n = LatestMet
      OBVIOUS
    <3>2. n \in Entries(nodesHere) /\ LatestMet' = n
      BY <1>1, <2>1, <2>4, <3>1, LatestEntry DEF LatestMet
    <3>3. PICK i \in Nat : Leads(n, i) /\ Leads(n, i)'
      BY <2>2, <3>2
    <3>4. MetFrom(n) = tree.arcs[arcsHere[i]].source
      BY <3>3, LedFrom
    <3>5. MetFrom(n)' = tree'.arcs[arcsHere'[i]].source
      BY <3>3, LedFrom
    <3>6. arcsHere'[i] = arcsHere[i]
      BY <1>1, <2>1, <3>3 DEF Leads
    <3> QED
      BY <2>1, <3>1, <3>2, <3>4, <3>5, <3>6
  <2> QED
    BY <1>5, <2>1, <2>3, <2>4 DEF DeepInv, LatestOnTop, LatestMet
<1>6. CASE (EndFor \/ Return \/ UNCHANGED <<tree, pc, traverseVars>>) /\ order' = order
  <2>1. /\ tree' = tree /\ work' = work /\ parent' = parent /\ nodesHere' = nodesHere
        /\ arcsHere' = arcsHere
        /\ pc' \in {"while", "for"} => pc \in {"while", "for"}
    BY <1>6 DEF EndFor, Return, locals, history, statics, traverseVars
  <2>2. AllWereLedTo'
    BY <2>1 DEF DeepInv, AllWereLedTo, Leads
  <2>3. MetFrom(LatestMet)' = MetFrom(LatestMet)
    BY <2>1 DEF MetFrom, LatestMet
  <2> QED
    BY <1>6, <2>1, <2>2, <2>3 DEF DeepInv, LatestOnTop, LatestMet
<1>7. CASE Client
  <2>1. pc = "client" => nodesHere = <<>>
    BY DEF WalkInv, InCall
  <2>2. nodesHere' = <<>>
    BY <1>7, <2>1 DEF Client, Grow, AddNode, AddArc, Resume, Call, history
  <2> QED
    BY <1>2, <2>2
<1>8. CASE Traverse /\ order' = order
  BY <1>3, <1>4, <1>5, <1>6, <1>8 DEF Traverse
<1> QED
  BY <1>6, <1>7, <1>8 DEF TraverseNext, Traverse, traverseVars

(***************************************************************************)
(* Breadth first.  The queue holds nodes as far from the root as the node  *)
(* the walk is at, and then nodes one arc farther; all nodes that are as   *)
(* near were met.                                                          *)
(***************************************************************************)
Targets(T, S) == {T.arcs[a].target : a \in {b \in ArcIDs(T) : T.arcs[b].source \in S}}

\* ball holds at k what is within k arcs of r, for k up to N.
Balls(ball, T, r, N) ==
  /\ ball[0] = {r}
  /\ \A i \in 1 .. N : ball[i] = ball[i - 1] \union Targets(T, ball[i - 1])
  /\ \A k \in 0 .. N : Within(T, r, k) = ball[k]

\* The recursion of Within has a solution, and it does not depend on where it ends.
LEMMA BallsDefined ==
  ASSUME NEW T, NEW r \in NodeIDs(T), NEW N \in Nat,
         \A a \in ArcIDs(T) : T.arcs[a].target \in NodeIDs(T)
  PROVE  \E ball : Balls(ball, T, r, N)
<1> DEFINE V == SUBSET NodeIDs(T)
           F == [i \in 1 .. N |-> [S \in V |-> S \union Targets(T, S)]]
<1>1. {r} \in V /\ F \in [1 .. N -> [V -> V]]
  BY DEF Targets
<1>2. PICK g : Iterates(g, N, V, {r}, F)
  <2> HIDE DEF V, F
  <2> QED
    BY <1>1, IterationDefined
<1>3. g \in [0 .. N -> V] /\ g[0] = {r}
  BY <1>2 DEF Iterates
<1>4. ASSUME NEW i \in 1 .. N PROVE g[i] = g[i - 1] \union Targets(T, g[i - 1])
  <2>1. g[i] = F[i][g[i - 1]]
    BY <1>2 DEF Iterates
  <2>2. g[i - 1] \in V
    BY <1>3
  <2> QED
    BY <2>1, <2>2
<1>5. ASSUME NEW k \in 0 .. N PROVE Within(T, r, k) = g[k]
  <2> DEFINE Solves(b) == b = [i \in 0 .. k |-> IF i = 0 THEN {r}
                                               ELSE b[i - 1] \union Targets(T, b[i - 1])]
             h == [i \in 0 .. k |-> g[i]]
             ball == CHOOSE b : Solves(b)
  <2>1. Solves(h)
    <3>1. \A i \in 1 .. k : g[i] = g[i - 1] \union Targets(T, g[i - 1]) /\ i # 0
      BY <1>4
    <3>2. \A i \in 1 .. k : h[i] = g[i] /\ h[i - 1] = g[i - 1]
      OBVIOUS
    <3>3. h[0] = {r}
      BY <1>3
    <3> HIDE DEF h
    <3>4. \A i \in 0 .. k : h[i] = IF i = 0 THEN {r} ELSE h[i - 1] \union Targets(T, h[i - 1])
      <4> SUFFICES ASSUME NEW i \in 0 .. k
                   PROVE  h[i] = IF i = 0 THEN {r} ELSE h[i - 1] \union Targets(T, h[i - 1])
        OBVIOUS
      <4>1. CASE i = 0
        BY <3>3, <4>1
      <4>2. CASE i # 0
        <5>1. i \in 1 .. k
          BY <4>2
        <5> QED
          BY <3>1, <3>2, <4>2, <5>1
      <4> QED
        BY <4>1, <4>2
    <3>5. h = [i \in 0 .. k |-> h[i]]
      BY DEF h
    <3> QED
      BY <3>4, <3>5
  <2>2. Solves(ball)
    <3> HIDE DEF h, Solves
    <3> QED
      BY <2>1
  <2>3. Within(T, r, k) = ball[k]
    BY DEF Within, Targets
  <2> HIDE DEF ball, h
  <2>4. /\ ball[0] = {r}
        /\ \A i \in 1 .. k : ball[i] = ball[i - 1] \union Targets(T, ball[i - 1])
    <3>1. PICK b : b = ball
      OBVIOUS
    <3>2. \A i \in 0 .. k : b[i] = IF i = 0 THEN {r} ELSE b[i - 1] \union Targets(T, b[i - 1])
      BY <2>2, <3>1
    <3>3. 0 \in 0 .. k /\ \A i \in 1 .. k : i \in 0 .. k /\ i # 0
      OBVIOUS
    <3> QED
      BY <3>1, <3>2, <3>3
  <2> DEFINE Good == {i \in Nat : ball[i] = g[i]}
  <2>5. 0 \in Good
    BY <1>3, <2>4
  <2>6. \A i \in 1 .. k : i - 1 \in Good => i \in Good
    <3> SUFFICES ASSUME NEW i \in 1 .. k, ball[i - 1] = g[i - 1] PROVE ball[i] = g[i]
      OBVIOUS
    <3>1. ball[i] = ball[i - 1] \union Targets(T, ball[i - 1])
      BY <2>4
    <3>2. g[i] = g[i - 1] \union Targets(T, g[i - 1])
      BY <1>4
    <3> QED
      BY <3>1, <3>2
  <2>7. \A i \in 0 .. k : i \in Good
    <3> HIDE DEF Good
    <3> QED
      BY <2>5, <2>6, SetInduction
  <2> QED
    BY <2>3, <2>7
<1> QED
  BY <1>3, <1>4, <1>5 DEF Balls

\* What is within k + 1 arcs: what is within k, and what its arcs lead to.
LEMMA WithinSteps ==
  ASSUME NEW T, NEW r \in NodeIDs(T), NEW k \in Nat,
         \A a \in ArcIDs(T) : T.arcs[a].target \in NodeIDs(T)
  PROVE  /\ Within(T, r, 0) = {r}
         /\ Within(T, r, k + 1) = Within(T, r, k) \union Targets(T, Within(T, r, k))
         /\ \A i \in 0 .. k : Within(T, r, i) \subseteq Within(T, r, k)
<1>0. PICK N \in Nat : N = k + 1
  OBVIOUS
<1>1. PICK ball : Balls(ball, T, r, N)
  BY BallsDefined
<1>2. Within(T, r, 0) = {r}
  BY <1>0, <1>1 DEF Balls
<1>3. Within(T, r, k + 1) = Within(T, r, k) \union Targets(T, Within(T, r, k))
  BY <1>0, <1>1 DEF Balls
<1> DEFINE Good == {j \in Nat : j <= k => \A i \in 0 .. j : ball[i] \subseteq ball[j]}
<1>4. 0 \in Good
  OBVIOUS
<1>5. \A j \in 1 .. k : j - 1 \in Good => j \in Good
  <2> SUFFICES ASSUME NEW j \in 1 .. k, j - 1 \in Good PROVE j \in Good
    OBVIOUS
  <2>1. ball[j] = ball[j - 1] \union Targets(T, ball[j - 1])
    BY <1>0, <1>1 DEF Balls
  <2> QED
    BY <2>1
<1>6. k \in Good
  <2> HIDE DEF Good
  <2> QED
    BY <1>4, <1>5, SetInduction
<1> QED
  BY <1>0, <1>1, <1>2, <1>3, <1>6 DEF Balls

\* n is k arcs from the root, and not less.
At(n, k) == n \in Within(tree, root, k) /\ \A i \in 0 .. k - 1 : n \notin Within(tree, root, i)

Near(d) == Within(tree, root, d)

\* The queue: m nodes at the distance of parent, and the others one farther.  A
\* node at each of the distances up to theirs was met.
Layers(d, m) ==
  /\ At(parent, d) /\ Near(d) \subseteq Met /\ d <= Len(nodesHere)
  /\ \A i \in 1 .. Len(work) : i <= m => At(work[i], d)
  /\ \A i \in 1 .. Len(work) : i > m => At(work[i], d + 1) /\ d + 1 <= Len(nodesHere)

NearInv ==
  /\ pc = "client" => parent = invalid
  /\ order = "breadth" /\ pc \in {"while", "for"} =>
       IF parent = invalid THEN pc = "while" /\ work = <<root>>
       ELSE \E d \in Nat : \E m \in Nat : Layers(d, m)

\* What the proofs use of the tree that is walked.
LEMMA WalkedTree ==
  ASSUME WalkInv, pc \in {"while", "for"}
  PROVE  /\ root \in NodeIDs(tree)
         /\ \A a \in ArcIDs(tree) : tree.arcs[a].target \in NodeIDs(tree)
<1>1. TraverseTypes /\ Linked(tree) /\ root \in NodeIDs(tree)
  BY DEF WalkInv, InCall
<1> QED
  BY <1>1, TreeOfWalk

\* A sequence with no entry twice is no longer than what its entries are from.
LEMMA NoLonger ==
  ASSUME NEW N \in Nat, NEW q \in Seq(1 .. N), NoneTwice(q)
  PROVE  Len(q) <= N
<1>1. Len(q) \in Nat /\ q \in [1 .. Len(q) -> 1 .. N]
  OBVIOUS
<1>2. q \in Injection(1 .. Len(q), 1 .. N)
  BY <1>1 DEF Injection, IsInjective, NoneTwice
<1>3. IsFiniteSet(1 .. N) /\ Cardinality(1 .. N) = N /\ Cardinality(1 .. Len(q)) = Len(q)
  <2>1. \A j \in Nat : IsFiniteSet(1 .. j) /\ Cardinality(1 .. j) = IF 1 > j THEN 0 ELSE j - 1 + 1
    BY FS_Interval
  <2> QED
    BY <1>1, <2>1
<1> QED
  BY <1>2, <1>3, FS_Injection

\* Then it is the distance, for no node is as many arcs away as there are nodes.
LEMMA DistanceAt ==
  ASSUME NEW n, NEW k \in Nat, At(n, k), k <= Len(tree.nodes), Len(tree.nodes) \in Nat
  PROVE  Distance(n) = k
<1> DEFINE P(j) == /\ n \in Within(tree, root, j)
                   /\ \A i \in 0 .. j - 1 : n \notin Within(tree, root, i)
<1>1. P(k) /\ k \in 0 .. Len(tree.nodes)
  BY DEF At
<1>2. ASSUME NEW j \in 0 .. Len(tree.nodes), P(j) PROVE j = k
  <2>1. ~ (j < k) /\ ~ (k < j)
    BY <1>1, <1>2
  <2> QED
    BY <2>1
<1> HIDE DEF P
<1>3. (CHOOSE j \in 0 .. Len(tree.nodes) : P(j)) = k
  BY <1>1, <1>2
<1> QED
  BY <1>3 DEF Distance, P

\* The walk never goes on from a node to one nearer to its root.
LEMMA GoesFarther == WalkInv /\ NearInv => NearestStep
<1> SUFFICES ASSUME WalkInv, NearInv, order = "breadth", Pop, parent # invalid
             PROVE  Distance(parent) <= Distance(parent')
  BY DEF NearestStep
<1>1. PICK d \in Nat, m \in Nat : Layers(d, m)
  BY DEF NearInv, Pop
<1>2. /\ work \in Seq(NodeIDs(tree)) /\ nodesHere \in Seq(NodeIDs(tree))
      /\ NoneTwice(nodesHere) /\ tree \in TreeValue({NoData})
  BY DEF WalkInv, TraverseTypes, Once, IsTree
<1>3. Len(tree.nodes) \in Nat /\ NodeIDs(tree) = 1 .. Len(tree.nodes)
  BY <1>2, TreeFields DEF NodeIDs
<1>4. Len(nodesHere) <= Len(tree.nodes) /\ Len(nodesHere) \in Nat
  BY <1>2, <1>3, NoLonger
<1>5. parent' = work[1] /\ 1 \in 1 .. Len(work)
  BY <1>2 DEF Pop, take, first
<1>6. Distance(parent) = d
  BY <1>1, <1>3, <1>4, DistanceAt DEF Layers
<1>7. PICK n : n = parent'
  OBVIOUS
<1>8. Distance(n) \in {d, d + 1}
  <2>1. CASE 1 <= m
    <3>1. At(n, d) /\ d <= Len(tree.nodes)
      BY <1>1, <1>3, <1>4, <1>5, <1>7, <2>1 DEF Layers
    <3> QED
      BY <1>3, <3>1, DistanceAt
  <2>2. CASE 1 > m
    <3>1. At(n, d + 1) /\ d + 1 <= Len(tree.nodes)
      BY <1>1, <1>3, <1>4, <1>5, <1>7, <2>2 DEF Layers
    <3> QED
      BY <1>3, <3>1, DistanceAt
  <2> QED
    BY <2>1, <2>2
<1> QED
  BY <1>6, <1>7, <1>8

\* A node that was met is passed when it is not on the queue: then its arcs lead
\* to nodes that were met.
LEMMA NextLayerMet ==
  ASSUME WalkInv, pc = "while", NEW d \in Nat, Near(d) \subseteq Met,
         \A n \in Entries(work) : n \notin Near(d)
  PROVE  Near(d + 1) \subseteq Met
<1>1. Near(d + 1) = Near(d) \union Targets(tree, Near(d))
  BY WalkedTree, WithinSteps DEF Near
<1>2. ASSUME NEW a \in ArcIDs(tree), tree.arcs[a].source \in Near(d)
      PROVE  tree.arcs[a].target \in Met
  <2>1. Walked(a)
    BY <1>2 DEF Walked
  <2>2. a \in Entries(arcsHere)
    BY <2>1 DEF WalkInv, HereAreWalked
  <2> QED
    BY <2>2 DEF WalkInv, TargetsAreMet
<1> QED
  BY <1>1, <1>2 DEF Targets

\* The node that is taken off the queue is of this layer or the first of the next.
LEMMA NearPop == WalkInv /\ NearInv /\ Pop /\ order' = order => NearInv'
<1> SUFFICES ASSUME WalkInv, NearInv, Pop, order' = order, order = "breadth"
             PROVE  parent' # invalid /\ \E d \in Nat : \E m \in Nat : Layers(d, m)'
  BY DEF NearInv, Pop
<1>1. /\ tree' = tree /\ root' = root /\ nodesHere' = nodesHere /\ pc = "while"
      /\ parent' = work[1] /\ work' = Tail(work) /\ work # <<>>
  BY DEF Pop, take, first, history
<1>2. /\ work \in Seq(NodeIDs(tree)) /\ nodesHere \in Seq(NodeIDs(tree))
      /\ Len(tree.nodes) \in Nat /\ NodeIDs(tree) = 1 .. Len(tree.nodes)
  BY TreeFields DEF WalkInv, TraverseTypes, IsTree, NodeIDs
<1>3. /\ Len(work) \in Nat /\ 1 \in 1 .. Len(work) /\ Len(work') = Len(work) - 1
      /\ \A i \in 1 .. Len(work') : i + 1 \in 1 .. Len(work) /\ work'[i] = work[i + 1]
      /\ Len(nodesHere) \in Nat
  BY <1>1, <1>2
<1>4. parent' # invalid
  BY <1>1, <1>2, <1>3 DEF invalid
<1>5. Met' = Met
  BY <1>1 DEF Met
<1>6. \A n, k : At(n, k)' <=> At(n, k)
  BY <1>1 DEF At
<1>7. \A k : Near(k)' = Near(k)
  BY <1>1 DEF Near
<1>8. CASE parent = invalid
  <2>1. work = <<root>>
    BY <1>1, <1>8 DEF NearInv
  <2>2. parent' = root /\ Len(work') = 0
    BY <1>1, <1>3, <2>1
  <2>3. Near(0) = {root}
    BY <1>1, WalkedTree, WithinSteps DEF Near
  <2>4. At(parent, 0)'
    BY <1>1, <2>2, <2>3 DEF At, Near
  <2>5. Layers(0, 0)'
    <3>1. Near(0)' \subseteq Met'
      BY <1>5, <1>7, <2>3 DEF Met
    <3>2. \A i \in 1 .. Len(work') : FALSE
      BY <2>2
    <3> QED
      BY <1>1, <1>3, <2>4, <3>1, <3>2 DEF Layers
  <2> QED
    BY <1>4, <2>5
<1>9. CASE parent # invalid
  <2>1. PICK d \in Nat, m \in Nat : Layers(d, m)
    BY <1>1, <1>9 DEF NearInv
  <2>2. CASE m > 0
    <3>1. Layers(d, m - 1)'
      BY <1>1, <1>3, <1>5, <1>6, <1>7, <2>1, <2>2 DEF Layers
    <3> QED
      BY <1>4, <2>2, <3>1
  <2>3. CASE m = 0
    <3>1. \A i \in 1 .. Len(work) : At(work[i], d + 1) /\ d + 1 <= Len(nodesHere)
      BY <2>1, <2>3 DEF Layers
    <3>2. \A n \in Entries(work) : n \notin Near(d)
      BY <3>1 DEF Entries, At, Near
    <3>3. Near(d + 1) \subseteq Met
      BY <1>1, <2>1, <3>2, NextLayerMet DEF Layers
    <3>4. PICK e \in Nat : e = d + 1
      OBVIOUS
    <3>5. At(parent, e)'
      BY <1>1, <1>3, <1>6, <3>1, <3>4
    <3>6. Layers(e, Len(work))'
      BY <1>1, <1>3, <1>5, <1>6, <1>7, <3>1, <3>3, <3>4, <3>5 DEF Layers
    <3>7. Len(work)' \in Nat
      BY <1>3
    <3> QED
      BY <1>4, <3>4, <3>6, <3>7
  <2> QED
    BY <2>2, <2>3
<1> QED
  BY <1>8, <1>9

\* A node that is met now is one arc farther than the node the walk is at.
LEMMA NearFirst == WalkInv /\ NearInv /\ FirstVisit /\ order' = order => NearInv'
<1> SUFFICES ASSUME WalkInv, NearInv, FirstVisit, order' = order, order = "breadth"
             PROVE  parent # invalid /\ \E d \in Nat : \E m \in Nat : Layers(d, m)'
  BY DEF NearInv, FirstVisit
<1>1. PICK c : c = tree.arcs[arc].target
  OBVIOUS
<1>2. /\ tree' = tree /\ root' = root /\ parent' = parent /\ pc = "for" /\ ~ visited[c]
      /\ arc # invalid /\ work' = Append(work, c) /\ nodesHere' = Append(nodesHere, c)
  BY <1>1 DEF FirstVisit, isNew, Child
<1>3. arc \in ArcIDs(tree) /\ c \in NodeIDs(tree) /\ tree.arcs[arc].source = parent
  <2>1. TraverseTypes /\ Linked(tree) /\ arc \in From(parent)
    BY <1>2 DEF WalkInv, OnArc
  <2>2. arc \in ArcIDs(tree) /\ tree.arcs[arc].source = parent
    BY <1>2, <2>1, TreeOfWalk DEF TraverseTypes
  <2> QED
    BY <1>1, <1>2, <2>2, WalkedTree
<1>4. c \notin Met
  BY <1>2, <1>3 DEF WalkInv, VisitedAreMet
<1>5. parent # invalid
  BY <1>2 DEF NearInv
<1>6. PICK d \in Nat, m \in Nat : Layers(d, m)
  BY <1>2, <1>5 DEF NearInv
<1>7. /\ work \in Seq(NodeIDs(tree)) /\ nodesHere \in Seq(NodeIDs(tree))
  BY DEF WalkInv, TraverseTypes
<1>8. /\ Len(work) \in Nat /\ Len(work') = Len(work) + 1 /\ work'[Len(work) + 1] = c
      /\ \A i \in 1 .. Len(work) : work'[i] = work[i]
      /\ Len(nodesHere) \in Nat /\ Len(nodesHere') = Len(nodesHere) + 1
      /\ \A i \in 1 .. Len(nodesHere) : nodesHere'[i] = nodesHere[i]
  BY <1>2, <1>7
<1>9. Met \subseteq Met'
  BY <1>2, <1>8 DEF Met, InUse
<1>10. \A n, k : At(n, k)' <=> At(n, k)
  BY <1>2 DEF At
<1>11. \A k : Near(k)' = Near(k)
  BY <1>2 DEF Near
<1>12. At(c, d + 1)
  <2>1. Near(d + 1) = Near(d) \union Targets(tree, Near(d))
    BY <1>2, WalkedTree, WithinSteps DEF Near
  <2>2. c \in Near(d + 1)
    BY <1>1, <1>3, <1>6, <2>1 DEF Layers, At, Near, Targets
  <2>3. \A i \in 0 .. d : Near(i) \subseteq Near(d)
    BY <1>2, WalkedTree, WithinSteps DEF Near
  <2>4. \A i \in 0 .. d : c \notin Near(i)
    BY <1>4, <1>6, <2>3 DEF Layers
  <2> QED
    BY <2>2, <2>4 DEF At, Near
<1>13. CASE m <= Len(work)
  <2>1. Layers(d, m)'
    BY <1>2, <1>6, <1>8, <1>9, <1>10, <1>11, <1>12, <1>13 DEF Layers
  <2> QED
    BY <1>5, <2>1
<1>14. CASE m > Len(work)
  <2>1. PICK l \in Nat : l = Len(work)
    BY <1>8
  <2>2. Layers(d, l)'
    BY <1>2, <1>6, <1>8, <1>9, <1>10, <1>11, <1>12, <1>14, <2>1 DEF Layers
  <2> QED
    BY <1>5, <2>2
<1> QED
  <2>1. m <= Len(work) \/ m > Len(work)
    BY <1>6, <1>8
  <2> QED
    BY <1>13, <1>14, <2>1

\* Every step of a traversal keeps it.
LEMMA NearKeeps ==
  WalkInv /\ NearInv /\ [TraverseNext]_<<tree, pc, traverseVars>> => NearInv'
<1> SUFFICES ASSUME WalkInv, NearInv, [TraverseNext]_<<tree, pc, traverseVars>> PROVE NearInv'
  OBVIOUS
<1>1. CASE Pop /\ order' = order
  BY <1>1, NearPop
<1>2. CASE FirstVisit /\ order' = order
  BY <1>2, NearFirst
<1>3. CASE (LaterVisit \/ EndFor \/ Return \/ UNCHANGED <<tree, pc, traverseVars>>) /\ order' = order
  <2>1. /\ tree' = tree /\ root' = root /\ work' = work /\ parent' = parent
        /\ nodesHere' = nodesHere /\ order' = order
        /\ pc' = "client" => pc = "client"
        /\ pc' \in {"while", "for"} => pc \in {"while", "for"}
        /\ pc' = "for" => pc = "for"
    BY <1>3 DEF LaterVisit, EndFor, Return, locals, history, statics, traverseVars
  <2>2. Met' = Met /\ (\A n, k : At(n, k)' <=> At(n, k)) /\ (\A k : Near(k)' = Near(k))
    BY <2>1 DEF Met, At, Near
  <2>3. \A d, m : Layers(d, m) => Layers(d, m)'
    BY <2>1, <2>2 DEF Layers
  <2>4. CASE parent = invalid
    <3>1. pc = "for" => order # "breadth"
      BY <2>4 DEF NearInv
    <3>2. pc' \in {"while", "for"} /\ order = "breadth" => pc = "while" /\ pc' = "while"
      BY <2>1, <3>1
    <3> QED
      BY <2>1, <2>4, <3>2 DEF NearInv
  <2>5. CASE parent # invalid
    BY <2>1, <2>3, <2>5 DEF NearInv
  <2> QED
    BY <2>4, <2>5
<1>4. CASE Client
  <2>1. pc = "client" => parent = invalid
    BY DEF NearInv
  <2>2. parent' = invalid
    BY <1>4, <2>1 DEF Client, Grow, AddNode, AddArc, Resume, Call, locals
  <2>3. pc' = "client" \/ (pc' = "while" /\ work' = <<root'>>)
    <3>1. CASE Grow \/ Resume
      <4>1. Grow => pc = "client" /\ pc' = pc
        BY DEF Grow, AddNode, AddArc
      <4>2. Resume => pc' = "client"
        BY DEF Resume
      <4> QED
        BY <3>1, <4>1, <4>2
    <3>2. CASE \E r \in NodeIDs(tree) : Call(r)
      BY <3>2 DEF Call
    <3> QED
      BY <1>4, <3>1, <3>2 DEF Client
  <2> QED
    BY <2>2, <2>3 DEF NearInv
<1>5. CASE Traverse /\ order' = order
  BY <1>1, <1>2, <1>3, <1>5 DEF Traverse
<1> QED
  BY <1>3, <1>4, <1>5 DEF TraverseNext, Traverse, traverseVars

(***************************************************************************)
(* The sort.  The invariant says what removed_arcs stands for: an arc is   *)
(* removed when its source is sorted and the for-loop is past it, and a    *)
(* node is listed (sorted, or on the stack) when its in-arcs are all       *)
(* removed.                                                                *)
(***************************************************************************)
Last   == sorted[Len(sorted)]
Listed == Sorted \union Entries(stack)
Into(n) == ArcsInto(tree, n, Len(tree.arcs))

\* Between the calls nothing is listed, and a call ends with an empty stack.
Idle ==
  /\ pc = "client" => stack = <<>> /\ sorted = <<>>
  /\ pc = "returned" => stack = <<>>

\* The for-loop stands on an out-arc of the node that was sorted last.
OnOutArc == pc = "for" => sorted # <<>> /\ (out = invalid \/ out \in From(Last))

\* The arcs the loops have taken.
Taken(a) ==
  /\ tree.arcs[a].source \in Sorted
  /\ pc = "for" /\ tree.arcs[a].source = Last => out = invalid \/ a < out

RemovedAreTaken ==
  pc # "client" => \A a \in ArcIDs(tree) : removed_arcs[a] <=> Taken(a)

\* The nodes a removal has listed, and the root.
Free(n) == Into(n) # {} /\ \A a \in Into(n) : removed_arcs[a]

ListedAreFree ==
  pc # "client" => \A n \in NodeIDs(tree) : n \in Listed <=> n = root_node \/ Free(n)

RootFirst ==
  pc # "client" => /\ sorted = <<>> => pc = "while" /\ stack = <<root_node>>
                   /\ sorted # <<>> => sorted[1] = root_node

SourcesFirst ==
  \A a \in ArcIDs(tree) : \A i \in 1 .. Len(sorted) :
    tree.arcs[a].target = sorted[i] /\ i # 1
      => \E j \in 1 .. i - 1 : sorted[j] = tree.arcs[a].source

\* Nothing is listed that need not be.
ReadyClosed(S) == root_node \in S /\ Ready(S) \subseteq S

ListedAreLeast ==
  pc # "client" => \A S \in SUBSET NodeIDs(tree) : ReadyClosed(S) => Listed \subseteq S

Domain == pc # "client" => DOMAIN removed_arcs = ArcIDs(tree)

SortInv ==
  /\ SortTypes /\ Linked(tree) /\ Domain
  /\ Idle /\ OnOutArc /\ RemovedAreTaken /\ ListedAreFree
  /\ SortedOnce /\ RootFirst /\ SourcesFirst /\ ListedAreLeast

---------------------------------------------------------------------------
\* Before the call nothing is sorted.
LEMMA SortStarts == SortInit => SortInv
<1> SUFFICES ASSUME SortInit PROVE SortInv
  OBVIOUS
<1>1. tree = NewTree(NoData, NoData) /\ NoData \in {NoData}
  BY DEF SortInit, NewlyMade
<1>2. IsTree(tree, {NoData}) /\ Linked(tree)
  BY <1>1, NewTreeLists
<1>3. SortTypes
  BY <1>2 DEF SortInit, NewlyMade, SortTypes, sortLocals
<1>4. SortedOnce /\ SourcesFirst
  BY DEF SortInit, NewlyMade, SortedOnce, SourcesFirst
<1> QED
  BY <1>2, <1>3, <1>4
  DEF SortInit, NewlyMade, SortInv, Domain, Idle, OnOutArc, RemovedAreTaken, ListedAreFree, RootFirst,
      ListedAreLeast

\* Before a call, only the tree matters.
LEMMA ClientKeeps ==
  ASSUME IsTree(tree, {NoData}), Linked(tree), removed_arcs \in Seq(BOOLEAN),
         pc = "client", stack = <<>>, sorted = <<>>
  PROVE  SortInv
<1>1. SortTypes
  BY DEF SortTypes
<1>2. SortedOnce /\ SourcesFirst
  BY DEF SortedOnce, SourcesFirst
<1> QED
  BY <1>1, <1>2
  DEF SortInv, Domain, Idle, OnOutArc, RemovedAreTaken, ListedAreFree, RootFirst,
      ListedAreLeast

\* The facts of a tree that the steps use.
LEMMA TreeOfSort ==
  ASSUME SortTypes, Linked(tree)
  PROVE  /\ Len(tree.arcs) \in Nat /\ ArcIDs(tree) = 1 .. Len(tree.arcs)
         /\ root_node \in NodeIDs(tree) /\ root_arc \in Into(root_node)
         /\ tree.arcs[root_arc].source \notin NodeIDs(tree)
         /\ \A a \in ArcIDs(tree) : /\ a \in Nat \ {0} /\ tree.arcs[a].target \in NodeIDs(tree)
                                    /\ tree.arcs[a].next_out \in Nat
         /\ \A n \in NodeIDs(tree) :
              /\ (From(n) = {} /\ tree.nodes[n].head_out = invalid) \/ tree.nodes[n].head_out \in From(n)
              /\ \A a \in From(n) : /\ a \in ArcIDs(tree) /\ tree.nodes[n].head_out <= a
                                    /\ IsNext(From(n), a, tree.arcs[a].next_out)
              /\ Lists(inArcs(tree, n), Into(n))
         /\ Sorted \subseteq NodeIDs(tree)
<1>1. /\ tree \in TreeValue({NoData}) /\ EndsExist(tree) /\ IsTree(tree, {NoData})
      /\ sorted \in Seq(NodeIDs(tree))
  BY DEF SortTypes, IsTree
<1>2. Len(tree.arcs) \in Nat /\ ArcIDs(tree) = 1 .. Len(tree.arcs)
  BY <1>1, TreeFields DEF ArcIDs
<1>3. \A a \in ArcIDs(tree) : tree.arcs[a].next_out \in Nat
  BY <1>1, TreeFields
<1>4. root_node \in NodeIDs(tree) /\ root_arc \in Into(root_node)
  BY <1>1, <1>2 DEF EndsExist, Into, ArcsInto, root_node, root_arc, NodeIDs
<1>5. tree.arcs[root_arc].source \notin NodeIDs(tree)
  BY <1>1 DEF EndsExist, NodeIDs, invalid
<1>6. \A a \in ArcIDs(tree) : a \in Nat \ {0} /\ tree.arcs[a].target \in NodeIDs(tree)
  BY <1>1, <1>2 DEF EndsExist
<1>7. ASSUME NEW n \in NodeIDs(tree)
      PROVE  /\ (From(n) = {} /\ tree.nodes[n].head_out = invalid) \/ tree.nodes[n].head_out \in From(n)
             /\ \A a \in From(n) : /\ a \in ArcIDs(tree) /\ tree.nodes[n].head_out <= a
                                   /\ IsNext(From(n), a, tree.arcs[a].next_out)
  <2>1. ListEnds(From(n), tree.nodes[n].head_out, tree.nodes[n].tail_out, tree.nodes[n].out_size)
    BY DEF Linked, OutLinked, From
  <2>2. \A a \in From(n) : a \in ArcIDs(tree) /\ tree.arcs[a].source = n
    BY <1>2 DEF From, ArcsFrom
  <2>3. \A a \in 1 .. Len(tree.arcs) :
          IsNext(ArcsFrom(tree, tree.arcs[a].source, Len(tree.arcs)), a, tree.arcs[a].next_out)
    BY DEF Linked, OutLinked
  <2>4. \A a \in From(n) : IsNext(From(n), a, tree.arcs[a].next_out)
    BY <1>2, <2>2, <2>3 DEF From
  <2> QED
    BY <2>1, <2>2, <2>4 DEF ListEnds
<1>8. \A n \in NodeIDs(tree) : Lists(inArcs(tree, n), Into(n))
  BY <1>1, IteratorsDeliverLists DEF Into
<1>9. Sorted \subseteq NodeIDs(tree)
  BY <1>1 DEF Sorted
<1> QED
  BY <1>2, <1>3, <1>4, <1>5, <1>6, <1>7, <1>8, <1>9

---------------------------------------------------------------------------
\* The call starts with the root, and no arc removed.
LEMMA CallSorts == SortInv /\ CallSort => SortInv'
<1> SUFFICES ASSUME SortInv, CallSort PROVE SortInv'
  OBVIOUS
<1>1. /\ SortTypes /\ Linked(tree) /\ pc = "client" /\ stack = <<>> /\ sorted = <<>>
      /\ tree' = tree /\ sorted' = <<>> /\ out' = out
      /\ stack' = <<root_node>> /\ pc' = "while"
      /\ removed_arcs' = [a \in ArcIDs(tree) |-> FALSE]
  BY DEF SortInv, Idle, CallSort, newRemoved
<1>2. /\ Len(tree.arcs) \in Nat /\ ArcIDs(tree) = 1 .. Len(tree.arcs)
      /\ root_node \in NodeIDs(tree)
  BY <1>1, TreeOfSort
<1>3. removed_arcs' \in Seq(BOOLEAN) /\ DOMAIN removed_arcs' = ArcIDs(tree)
  BY <1>1, <1>2
<1>4. SortTypes'
  BY <1>1, <1>2, <1>3 DEF SortTypes, ArcIDs, NodeIDs
<1>5. Sorted' = {} /\ Entries(stack)' = {root_node} /\ Listed' = {root_node}
  BY <1>1 DEF Sorted, Entries, Listed
<1>6. SortedOnce' /\ SourcesFirst'
  <2>1. Len(sorted') = 0 /\ Len(stack') = 1
    BY <1>1
  <2>2. \A i, j \in 1 .. Len(stack') : i = j
    BY <2>1
  <2>3. SortedOnce'
    BY <1>5, <2>1, <2>2 DEF SortedOnce
  <2> QED
    BY <2>1, <2>3 DEF SourcesFirst
<1>7. RemovedAreTaken'
  BY <1>1, <1>5 DEF RemovedAreTaken, Taken, ArcIDs
<1>8. ListedAreFree'
  <2>1. \A n \in NodeIDs(tree) : Into(n) \subseteq ArcIDs(tree)
    BY <1>2 DEF Into, ArcsInto
  <2>2. ASSUME NEW n \in NodeIDs(tree) PROVE ~ Free(n)'
    BY <1>1, <2>1, <2>2 DEF Free, Into
  <2> QED
    BY <1>1, <1>5, <2>2 DEF ListedAreFree, NodeIDs
<1>9. ListedAreLeast'
  BY <1>5 DEF ListedAreLeast, ReadyClosed
<1> QED
  BY <1>1, <1>3, <1>4, <1>6, <1>7, <1>8, <1>9
  DEF SortInv, Domain, Idle, OnOutArc, RootFirst, Linked, OutLinked, InLinked, ArcIDs

---------------------------------------------------------------------------
\* The node that is taken off the work list is sorted; what enters it was removed.
LEMMA SortTakes == SortInv /\ PopNode => SortInv'
<1> SUFFICES ASSUME SortInv, PopNode PROVE SortInv'
  OBVIOUS
<1> PICK n : n = stack[Len(stack)]
  OBVIOUS
<1>1. /\ SortTypes /\ Linked(tree) /\ pc = "while" /\ stack # <<>>
      /\ SortedOnce /\ Domain /\ RemovedAreTaken /\ ListedAreFree /\ RootFirst
      /\ SourcesFirst /\ ListedAreLeast
      /\ tree' = tree /\ removed_arcs' = removed_arcs /\ pc' = "for"
      /\ sorted' = Append(sorted, n) /\ out' = tree.nodes[n].head_out
      /\ stack' = SubSeq(stack, 1, Len(stack) - 1)
  BY DEF SortInv, PopNode, beginOut
<1>2. stack \in Seq(NodeIDs(tree)) /\ sorted \in Seq(NodeIDs(tree))
  BY <1>1 DEF SortTypes
<1>3. /\ NoneTwice(sorted) /\ NoneTwice(stack)
      /\ \A m \in Entries(stack) : m \notin Sorted
      /\ Sorted = Entries(sorted)
  BY <1>1 DEF SortedOnce, NoneTwice, Entries, Sorted
<1>4. /\ stack' \in Seq(NodeIDs(tree)) /\ n \in NodeIDs(tree)
      /\ Entries(stack) = Entries(stack') \union {n}
      /\ NoneTwice(stack') /\ n \notin Entries(stack')
  <2>1. /\ stack \in Seq(NodeIDs(tree)) /\ stack # <<>> /\ n = stack[Len(stack)]
        /\ stack' = SubSeq(stack, 1, Len(stack) - 1)
    BY <1>1, <1>2
  <2>2. Extends(stack, stack', n, NodeIDs(tree))
    BY ONLY <2>1, PoppedBack
  <2> QED
    BY <1>3, <2>2 DEF Extends
<1>5. n \notin Entries(sorted)
  BY <1>3, <1>4
<1>6. /\ sorted' \in Seq(NodeIDs(tree)) /\ sorted' # <<>>
      /\ Len(sorted) \in Nat /\ Len(sorted') = Len(sorted) + 1
      /\ sorted'[Len(sorted')] = n /\ \A i \in 1 .. Len(sorted) : sorted'[i] = sorted[i]
      /\ Entries(sorted') = Entries(sorted) \union {n}
      /\ NoneTwice(sorted')
  <2>1. sorted \in Seq(NodeIDs(tree)) /\ n \in NodeIDs(tree) /\ sorted' = Append(sorted, n)
    BY <1>1, <1>2, <1>4
  <2>2. Extends(sorted', sorted, n, NodeIDs(tree))
    BY ONLY <2>1, Pushed
  <2>3. /\ Len(sorted) \in Nat /\ Len(sorted') = Len(sorted) + 1
        /\ sorted'[Len(sorted')] = n /\ \A i \in 1 .. Len(sorted) : sorted'[i] = sorted[i]
    BY <2>1
  <2> QED
    BY <1>3, <1>5, <2>2, <2>3 DEF Extends
<1>7. Sorted' = Sorted \union {n} /\ Listed' = Listed /\ Last' = n
  BY <1>3, <1>4, <1>6 DEF Sorted, Entries, Listed, Last
<1>8. /\ ArcIDs(tree) = 1 .. Len(tree.arcs) /\ Len(tree.arcs) \in Nat
      /\ root_node \in NodeIDs(tree)
      /\ (From(n) = {} /\ tree.nodes[n].head_out = invalid) \/ tree.nodes[n].head_out \in From(n)
      /\ \A a \in From(n) : a \in ArcIDs(tree) /\ tree.nodes[n].head_out <= a
  BY <1>1, <1>4, TreeOfSort
<1>9. SortTypes'
  BY <1>1, <1>4, <1>6, <1>8 DEF SortTypes, ArcIDs, NodeIDs, Domain
<1>10. OnOutArc'
  BY <1>1, <1>6, <1>7, <1>8 DEF OnOutArc, From
<1>11. RemovedAreTaken'
  <2> SUFFICES ASSUME NEW a \in ArcIDs(tree) PROVE removed_arcs[a] <=> Taken(a)'
    BY <1>1 DEF RemovedAreTaken
  <2>1. removed_arcs[a] <=> tree.arcs[a].source \in Sorted
    BY <1>1 DEF RemovedAreTaken, Taken
  <2>2. CASE tree.arcs[a].source = n
    <3>1. a \in From(n) /\ a \in Nat
      BY <1>8, <2>2 DEF From, ArcsFrom
    <3>2. out' \in From(n) /\ out' <= a
      BY <1>1, <1>8, <3>1
    <3>3. out' # invalid /\ out' \in Nat
      BY <1>8, <3>2 DEF invalid
    <3> QED
      BY <1>1, <1>3, <1>5, <1>7, <2>1, <2>2, <3>1, <3>2, <3>3 DEF Taken
  <2>3. CASE tree.arcs[a].source # n
    BY <1>1, <1>7, <2>1, <2>3 DEF Taken
  <2> QED
    BY <2>2, <2>3
<1>12. SortedOnce'
  BY <1>3, <1>4, <1>5, <1>6, <1>7 DEF SortedOnce, NoneTwice, Entries
<1>13. RootFirst'
  <2>1. CASE sorted = <<>>
    <3>1. stack = <<root_node>>
      BY <1>1, <2>1 DEF RootFirst
    <3>2. n = root_node /\ Len(sorted') = 1
      BY <1>6, <2>1, <3>1
    <3> QED
      BY <1>6, <3>2 DEF RootFirst
  <2>2. CASE sorted # <<>>
    <3>1. 1 \in 1 .. Len(sorted) /\ sorted[1] = root_node
      BY <1>1, <1>2, <2>2 DEF RootFirst
    <3> QED
      BY <1>6, <3>1 DEF RootFirst
  <2> QED
    BY <2>1, <2>2
<1>14. SourcesFirst'
  <2> SUFFICES ASSUME NEW a \in ArcIDs(tree), NEW i \in 1 .. Len(sorted'),
                      tree.arcs[a].target = sorted'[i], i # 1
               PROVE  \E j \in 1 .. i - 1 : sorted'[j] = tree.arcs[a].source
    BY <1>1 DEF SourcesFirst
  <2>1. CASE i \in 1 .. Len(sorted)
    <3>1. PICK j \in 1 .. i - 1 : sorted[j] = tree.arcs[a].source
      BY <1>1, <1>6, <2>1 DEF SourcesFirst
    <3> QED
      BY <1>6, <2>1, <3>1
  <2>2. CASE i = Len(sorted')
    <3>1. sorted # <<>> /\ 1 \in 1 .. Len(sorted)
      BY <1>2, <1>6, <2>2
    <3>2. root_node \in Sorted /\ n # root_node
      BY <1>1, <1>3, <1>5, <3>1 DEF RootFirst, Sorted
    <3>3. Free(n) /\ a \in Into(n)
      BY <1>1, <1>4, <1>6, <1>8, <2>2, <3>2 DEF ListedAreFree, Listed, Into, ArcsInto
    <3>4. tree.arcs[a].source \in Sorted
      BY <1>1, <3>3 DEF Free, RemovedAreTaken, Taken
    <3>5. PICK j \in 1 .. Len(sorted) : sorted[j] = tree.arcs[a].source
      BY <3>4 DEF Sorted
    <3> QED
      BY <1>6, <2>2, <3>5
  <2> QED
    BY <1>6, <2>1, <2>2
<1>15. ListedAreFree' /\ ListedAreLeast'
  BY <1>1, <1>7 DEF ListedAreFree, ListedAreLeast, Free, Into, ReadyClosed, Ready
<1> QED
  BY <1>1, <1>9, <1>10, <1>11, <1>12, <1>13, <1>14, <1>15
  DEF SortInv, Domain, Idle, Linked, OutLinked, InLinked, ArcIDs

---------------------------------------------------------------------------
\* The test before a node is pushed looks at every arc into it.
LEMMA TestsAllIns ==
  ASSUME SortTypes, Linked(tree), NEW t \in NodeIDs(tree), NEW removed
  PROVE  has_no_in_arcs(t, removed) <=> \A a \in Into(t) : removed[a]
<1>1. PICK w : w = inArcs(tree, t)
  OBVIOUS
<1>2. Lists(w, Into(t))
  BY <1>1, TreeOfSort
<1>3. Into(t) = {w[i] : i \in 1 .. Len(w)}
  BY <1>2 DEF Lists
<1> QED
  BY <1>1, <1>3 DEF has_no_in_arcs

\* An arc of the node is removed, and its target may be free now.
LEMMA SortRemoveArc == SortInv /\ RemoveArc => SortInv'
<1> SUFFICES ASSUME SortInv, RemoveArc PROVE SortInv'
  OBVIOUS
<1> PICK t : t = tree.arcs[out].target
  OBVIOUS
<1>1. /\ SortTypes /\ Linked(tree) /\ pc = "for" /\ out # invalid
      /\ SortedOnce /\ Domain /\ OnOutArc /\ RemovedAreTaken /\ ListedAreFree
      /\ RootFirst /\ SourcesFirst /\ ListedAreLeast
      /\ tree' = tree /\ sorted' = sorted /\ pc' = pc /\ out' = tree.arcs[out].next_out
      /\ removed_arcs' = [removed_arcs EXCEPT ![out] = TRUE]
      /\ stack' = IF has_no_in_arcs(t, removed_arcs') THEN Append(stack, t) ELSE stack
  BY DEF SortInv, RemoveArc, nextOut
<1>2. /\ stack \in Seq(NodeIDs(tree)) /\ sorted \in Seq(NodeIDs(tree))
      /\ removed_arcs \in Seq(BOOLEAN) /\ DOMAIN removed_arcs = ArcIDs(tree)
      /\ sorted # <<>>
  BY <1>1 DEF SortTypes, Domain, OnOutArc
<1>3. /\ Last \in NodeIDs(tree) /\ Last \in Sorted
  BY <1>2 DEF Last, Sorted
<1>4. /\ Len(tree.arcs) \in Nat /\ ArcIDs(tree) = 1 .. Len(tree.arcs)
      /\ root_node \in NodeIDs(tree) /\ root_arc \in Into(root_node)
      /\ tree.arcs[root_arc].source \notin NodeIDs(tree) /\ Sorted \subseteq NodeIDs(tree)
      /\ \A a \in ArcIDs(tree) : /\ a \in Nat \ {0} /\ tree.arcs[a].target \in NodeIDs(tree)
                                 /\ tree.arcs[a].next_out \in Nat
      /\ \A a \in From(Last) : a \in ArcIDs(tree)
                               /\ IsNext(From(Last), a, tree.arcs[a].next_out)
  BY <1>1, <1>3, TreeOfSort
<1>5. /\ out \in From(Last) /\ out \in ArcIDs(tree) /\ out \in Nat /\ t \in NodeIDs(tree)
      /\ out' \in Nat /\ IsNext(From(Last), out, out') /\ tree.arcs[out].source = Last
  BY <1>1, <1>4 DEF OnOutArc, From, ArcsFrom
<1>6. /\ removed_arcs' \in Seq(BOOLEAN) /\ DOMAIN removed_arcs' = ArcIDs(tree)
      /\ \A a \in ArcIDs(tree) : removed_arcs'[a] <=> a = out \/ removed_arcs[a]
  BY <1>1, <1>2, <1>5
<1>7. Sorted' = Sorted /\ Last' = Last
  BY <1>1 DEF Sorted, Last
<1>8. OnOutArc'
  BY <1>1, <1>2, <1>5, <1>7 DEF OnOutArc, From, IsNext
<1>9. RemovedAreTaken'
  <2> SUFFICES ASSUME NEW a \in ArcIDs(tree) PROVE removed_arcs'[a] <=> Taken(a)'
    BY <1>1 DEF RemovedAreTaken
  <2>1. removed_arcs[a] <=> Taken(a)
    BY <1>1 DEF RemovedAreTaken
  <2>2. CASE tree.arcs[a].source = Last
    <3>1. a \in From(Last) /\ a \in Nat
      BY <1>4, <2>2 DEF From, ArcsFrom
    <3>2. out' = invalid \/ a < out' <=> a = out \/ a < out
      BY <1>5, <3>1 DEF IsNext
    <3>3. Taken(a)' <=> out' = invalid \/ a < out'
      BY <1>1, <1>3, <1>7, <2>2 DEF Taken
    <3>4. Taken(a) <=> a < out
      BY <1>1, <1>3, <2>2 DEF Taken
    <3> QED
      BY <1>6, <2>1, <3>2, <3>3, <3>4
  <2>3. CASE tree.arcs[a].source # Last
    BY <1>1, <1>5, <1>6, <1>7, <2>1, <2>3 DEF Taken
  <2> QED
    BY <2>2, <2>3
<1>10. \A n \in NodeIDs(tree) : Into(n)' = Into(n) /\ Into(n) \subseteq ArcIDs(tree)
  BY <1>1, <1>4 DEF Into, ArcsInto
<1>11. out \in Into(t) /\ \A n \in NodeIDs(tree) : out \in Into(n) => n = t
  BY <1>4, <1>5 DEF Into, ArcsInto
<1>12. ~ Free(root_node) /\ ~ Free(root_node)'
  <2>1. ~ removed_arcs[root_arc]
    BY <1>1, <1>4, <1>10 DEF RemovedAreTaken, Taken
  <2>2. ~ removed_arcs'[root_arc]
    BY <1>1, <1>4, <1>7, <1>9, <1>10 DEF RemovedAreTaken, Taken
  <2> QED
    BY <1>4, <1>10, <2>1, <2>2 DEF Free
<1>13. ~ Free(t)
  <2>1. ~ Taken(out)
    BY <1>1, <1>3, <1>5 DEF Taken
  <2> QED
    BY <1>1, <1>5, <1>11, <2>1 DEF Free, RemovedAreTaken
<1>14. \A n \in NodeIDs(tree) : n # t => (Free(n)' <=> Free(n))
  BY <1>6, <1>10, <1>11 DEF Free
<1>15. has_no_in_arcs(t, removed_arcs') <=> Free(t)'
  <2>1. PICK removed : removed = removed_arcs'
    OBVIOUS
  <2>2. has_no_in_arcs(t, removed) <=> \A a \in Into(t) : removed[a]
    BY <1>1, <1>5, TestsAllIns
  <2> QED
    BY <1>5, <1>10, <1>11, <2>1, <2>2 DEF Free
<1>16. CASE ~ Free(t)'
  <2>1. stack' = stack /\ Listed' = Listed
    BY <1>1, <1>7, <1>15, <1>16 DEF Listed
  <2>2. SortTypes'
    BY <1>1, <1>2, <1>4, <1>6, <1>8, <2>1 DEF SortTypes, OnOutArc, From, ArcsFrom, ArcIDs, NodeIDs
  <2>3. ListedAreFree'
    BY <1>1, <1>13, <1>14, <1>16, <2>1 DEF ListedAreFree, NodeIDs
  <2>4. SortedOnce' /\ RootFirst' /\ SourcesFirst'
    BY <1>1, <1>2, <1>7, <2>1 DEF SortedOnce, RootFirst, SourcesFirst
  <2>5. ListedAreLeast'
    BY <1>1, <2>1 DEF ListedAreLeast, ReadyClosed, Ready
  <2> QED
    BY <1>1, <1>2, <1>6, <1>8, <1>9, <2>2, <2>3, <2>4, <2>5
    DEF SortInv, Domain, Idle, Linked, OutLinked, InLinked, ArcIDs
<1>17. CASE Free(t)'
  <2>1. stack' = Append(stack, t) /\ t # root_node /\ t \notin Listed
    BY <1>1, <1>5, <1>12, <1>13, <1>15, <1>17 DEF ListedAreFree
  <2>2. Extends(stack', stack, t, NodeIDs(tree))
    <3>1. stack \in Seq(NodeIDs(tree)) /\ t \in NodeIDs(tree) /\ stack' = Append(stack, t)
      BY <1>2, <1>5, <2>1
    <3> QED
      BY ONLY <3>1, Pushed
  <2>3. Listed' = Listed \union {t} /\ t \notin Entries(stack) /\ t \notin Sorted
    BY <1>7, <2>1, <2>2 DEF Listed, Extends
  <2>4. SortTypes'
    BY <1>1, <1>2, <1>4, <1>6, <1>8, <2>2 DEF SortTypes, OnOutArc, From, ArcsFrom, ArcIDs, NodeIDs, Extends
  <2>5. ListedAreFree'
    BY <1>1, <1>14, <1>17, <2>1, <2>3 DEF ListedAreFree, NodeIDs
  <2>6. SortedOnce'
    <3>1. /\ NoneTwice(sorted) /\ NoneTwice(stack)
          /\ \A m \in Entries(stack) : m \notin Sorted
      BY <1>1 DEF SortedOnce, NoneTwice, Entries
    <3>2. NoneTwice(stack') /\ \A m \in Entries(stack') : m \notin Sorted
      BY <2>2, <2>3, <3>1 DEF Extends
    <3> QED
      BY <1>1, <1>7, <3>1, <3>2 DEF SortedOnce, NoneTwice, Entries
  <2>7. RootFirst' /\ SourcesFirst'
    BY <1>1, <1>2, <1>7 DEF RootFirst, SourcesFirst
  <2>8. ListedAreLeast'
    <3> SUFFICES ASSUME NEW S \in SUBSET NodeIDs(tree), root_node \in S, Ready(S) \subseteq S
                 PROVE  t \in S
      BY <1>1, <2>3 DEF ListedAreLeast, ReadyClosed, Ready, NodeIDs
    <3>1. Listed \subseteq S
      BY <1>1 DEF ListedAreLeast, ReadyClosed
    <3>2. \A a \in Into(t) : tree.arcs[a].source \in Sorted
      BY <1>1, <1>5, <1>7, <1>9, <1>10, <1>17 DEF Free, RemovedAreTaken, Taken
    <3>3. t \in Ready(S)
      BY <1>5, <1>11, <2>1, <3>1, <3>2 DEF Ready, Into, Listed
    <3> QED
      BY <3>3
  <2> QED
    BY <1>1, <1>2, <1>6, <1>8, <1>9, <2>4, <2>5, <2>6, <2>7, <2>8
    DEF SortInv, Domain, Idle, Linked, OutLinked, InLinked, ArcIDs
<1> QED
  BY <1>16, <1>17

---------------------------------------------------------------------------
\* The end of the for-loop and the end of a call change the place only.
LEMMA SortEnds == SortInv /\ (EndRemovals \/ ReturnSorted) => SortInv'
<1> SUFFICES ASSUME SortInv, EndRemovals \/ ReturnSorted PROVE SortInv'
  OBVIOUS
<1>1. /\ tree' = tree /\ removed_arcs' = removed_arcs /\ stack' = stack
      /\ sorted' = sorted /\ out' = out /\ pc # "client"
      /\ \/ pc = "for" /\ out = invalid /\ pc' = "while"
         \/ pc = "while" /\ stack = <<>> /\ pc' = "returned"
  BY DEF EndRemovals, ReturnSorted, sortLocals
<1>2. SortTypes'
  BY <1>1 DEF SortInv, SortTypes, Domain, ArcIDs, NodeIDs
<1>3. Domain' /\ Idle' /\ OnOutArc'
  BY <1>1 DEF SortInv, Domain, Idle, OnOutArc, ArcIDs
<1>4. RemovedAreTaken'
  BY <1>1 DEF SortInv, RemovedAreTaken, Taken, Sorted, Last, ArcIDs
<1>5. ListedAreFree' /\ ListedAreLeast'
  BY <1>1
  DEF SortInv, ListedAreFree, ListedAreLeast, Free, Into, Listed, Sorted, ReadyClosed, Ready, NodeIDs
<1>6. SortedOnce' /\ SourcesFirst'
  BY <1>1 DEF SortInv, SortedOnce, SourcesFirst, Sorted
<1>7. RootFirst'
  <2>1. sorted = <<>> => pc' = "while"
    BY <1>1 DEF SortInv, RootFirst, Entries
  <2> QED
    BY <1>1, <2>1 DEF SortInv, RootFirst
<1> QED
  BY <1>1, <1>2, <1>3, <1>4, <1>5, <1>6, <1>7
  DEF SortInv, Linked, OutLinked, InLinked

\* The client grows the tree between two calls.
LEMMA SortClient == SortInv /\ (GrowMore \/ ResumeSorted) => SortInv'
<1> SUFFICES ASSUME SortInv, GrowMore \/ ResumeSorted PROVE SortInv'
  OBVIOUS
<1>1. /\ IsTree(tree, {NoData}) /\ Linked(tree) /\ removed_arcs \in Seq(BOOLEAN)
      /\ NoData \in {NoData}
      /\ pc = "client" => stack = <<>> /\ sorted = <<>>
      /\ pc = "returned" => stack = <<>>
  BY DEF SortInv, SortTypes, Idle
<1>2. pc' = "client" /\ stack' = <<>> /\ sorted' = <<>> /\ removed_arcs' = removed_arcs
  BY <1>1 DEF GrowMore, AddNode, AddArc, ResumeSorted, sortVars, sortLocals
<1>3. IsTree(tree', {NoData}) /\ Linked(tree')
  BY <1>1, GrownExact DEF GrowMore, ResumeSorted
<1>4. SortTypes'
  BY <1>1, <1>2, <1>3 DEF SortTypes
<1>5. SortedOnce' /\ SourcesFirst'
  BY <1>2 DEF SortedOnce, SourcesFirst
<1> QED
  BY <1>2, <1>3, <1>4, <1>5
  DEF SortInv, Domain, Idle, OnOutArc, RemovedAreTaken, ListedAreFree, RootFirst,
      ListedAreLeast

\* Every step of the sort keeps the invariant.
LEMMA SortKeeps == SortInv /\ [SortNext]_<<tree, pc, sortVars>> => SortInv'
<1> SUFFICES ASSUME SortInv, [SortNext]_<<tree, pc, sortVars>> PROVE SortInv'
  OBVIOUS
<1>1. CASE CallSort
  BY <1>1, CallSorts
<1>2. CASE PopNode
  BY <1>2, SortTakes
<1>3. CASE RemoveArc
  BY <1>3, SortRemoveArc
<1>4. CASE EndRemovals \/ ReturnSorted
  BY <1>4, SortEnds
<1>5. CASE GrowMore \/ ResumeSorted
  BY <1>5, SortClient
<1>6. CASE UNCHANGED <<tree, pc, sortVars>>
  <2>1. /\ tree' = tree /\ removed_arcs' = removed_arcs /\ stack' = stack
        /\ sorted' = sorted /\ out' = out /\ pc' = pc
    BY <1>6 DEF sortVars, sortLocals
  <2>2. SortTypes' /\ Domain' /\ Idle' /\ OnOutArc'
    BY <2>1 DEF SortInv, SortTypes, Domain, Idle, OnOutArc, From, Last
  <2>3. RemovedAreTaken' /\ ListedAreFree'
    BY <2>1
    DEF SortInv, RemovedAreTaken, Taken, Last, ListedAreFree, Free, Into, Listed, Sorted
  <2>4. SortedOnce' /\ RootFirst' /\ SourcesFirst'
    BY <2>1 DEF SortInv, SortedOnce, RootFirst, SourcesFirst, Sorted
  <2>5. ListedAreLeast'
    BY <2>1 DEF SortInv, ListedAreLeast, ReadyClosed, Ready, Listed, Sorted
  <2> QED
    BY <2>1, <2>2, <2>3, <2>4, <2>5 DEF SortInv, Linked, InLinked, OutLinked
<1> QED
  BY <1>1, <1>2, <1>3, <1>4, <1>5, <1>6 DEF SortNext, Sort

\* The types, what removed_arcs stands for, the order of the result, and what is
\* in it.
LEMMA SortLoop == SortInv => SortTypes /\ SortLoopInv
BY DEF SortInv, SortLoopInv, RemovedAreSorted, RemovedAreTaken, Taken

\* A sorted node comes after the sources of its in-arcs, and the root first.
LEMMA SortsInOrder == SortInv => InOrder
<1> SUFFICES ASSUME SortInv PROVE InOrder
  OBVIOUS
<1>1. sorted # <<>> => sorted[1] = root_node
  BY DEF SortInv, RootFirst, Idle
<1> QED
  BY <1>1 DEF SortInv, SourcesFirst, InOrder

\* What is returned is the least set with the root and every node that is ready.
LEMMA SortsLeast == SortInv => LeastSet
<1> SUFFICES ASSUME SortInv, pc = "returned"
             PROVE  /\ root_node \in Sorted /\ Ready(Sorted) \subseteq Sorted
                    /\ \A S \in SUBSET NodeIDs(tree) :
                         root_node \in S /\ Ready(S) \subseteq S => Sorted \subseteq S
  BY DEF LeastSet
<1>1. Listed = Sorted
  BY DEF SortInv, Idle, Listed, Entries
<1>2. root_node \in Sorted
  <2>1. sorted # <<>> /\ sorted[1] = root_node /\ sorted \in Seq(NodeIDs(tree))
    BY DEF SortInv, RootFirst, SortTypes
  <2> QED
    BY <2>1 DEF Sorted
<1>3. ASSUME NEW n \in Ready(Sorted) PROVE n \in Sorted
  <2>1. /\ n \in NodeIDs(tree) /\ Into(n) # {}
        /\ \A a \in Into(n) : tree.arcs[a].source \in Sorted
    BY DEF Ready, Into
  <2>2. \A a \in Into(n) : a \in ArcIDs(tree)
    BY DEF Into, ArcsInto, ArcIDs
  <2>3. Free(n)
    BY <2>1, <2>2 DEF SortInv, RemovedAreTaken, Taken, Free
  <2> QED
    BY <1>1, <2>1, <2>3 DEF SortInv, ListedAreFree
<1> QED
  BY <1>1, <1>2, <1>3 DEF SortInv, ListedAreLeast, ReadyClosed

(***************************************************************************)
(* Whichever of them is called, the other is idle.                         *)
(***************************************************************************)
Inv ==
  /\ walk = "traverse" => WalkInv /\ DeepInv /\ NearInv /\ sorted = <<>>
  /\ walk = "sort" => SortInv /\ work = <<>>
  /\ walk \in {"traverse", "sort"}

\* Both walks start right.
LEMMA Starts == Init => Inv
<1> SUFFICES ASSUME Init PROVE Inv
  OBVIOUS
<1>1. walk \in {"traverse", "sort"} /\ WalkInv /\ SortInv
  BY WalkInit, SortStarts DEF Init
<1>2. sorted = <<>> /\ work = <<>> /\ nodesHere = <<>> /\ parent = invalid /\ pc = "client"
  BY DEF Init, TraverseInit, NewlyMade, SortInit
<1>3. DeepInv /\ NearInv
  BY <1>2 DEF DeepInv, AllWereLedTo, LatestOnTop, NearInv, Entries
<1> QED
  BY <1>1, <1>2, <1>3 DEF Inv

\* A step of either walk keeps what is known of both.
LEMMA Steps == Inv /\ [Next]_vars => Inv'
<1> SUFFICES ASSUME Inv, [Next]_vars PROVE Inv'
  OBVIOUS
<1>1. CASE TraverseStep
  <2>1. walk = "traverse" /\ walk' = walk /\ sorted' = sorted /\ TraverseNext
    BY <1>1 DEF TraverseStep, sortVars, sortLocals
  <2>2. WalkInv' /\ DeepInv' /\ NearInv'
    BY <2>1, WalkKeeps, DeepKeeps, NearKeeps DEF Inv
  <2> QED
    BY <2>1, <2>2 DEF Inv
<1>2. CASE SortStep
  <2>1. walk = "sort" /\ walk' = walk /\ SortNext /\ work' = work
    BY <1>2 DEF SortStep, traverseVars, locals
  <2>2. SortInv'
    BY <2>1, SortKeeps DEF Inv
  <2> QED
    BY <2>1, <2>2 DEF Inv
<1>3. CASE UNCHANGED vars
  <2>1. walk' = walk /\ sorted' = sorted /\ work' = work
    BY <1>3 DEF vars, sortVars, sortLocals, traverseVars, locals
  <2>2. UNCHANGED <<tree, pc, traverseVars>>
    BY <1>3 DEF vars
  <2>3. UNCHANGED <<tree, pc, sortVars>>
    BY <1>3 DEF vars
  <2>4. walk = "traverse" => WalkInv' /\ DeepInv' /\ NearInv'
    BY <2>2, WalkKeeps, DeepKeeps, NearKeeps DEF Inv
  <2>5. walk = "sort" => SortInv'
    BY <2>3, SortKeeps DEF Inv
  <2> QED
    BY <2>1, <2>4, <2>5 DEF Inv
<1> QED
  BY <1>1, <1>2, <1>3 DEF Next

\* No call of the client and no step of a function breaks the invariant.
THEOREM Invariant == Spec => []Inv
BY Starts, Steps, PTL DEF Spec

\* Every id is in range, and the static vectors are right at every step although
\* the calls share them: visited is what this call has met, and what was met and
\* not walked from is on the work list, once; no node is sorted or waits twice,
\* and removed_arcs stands for what was sorted.
THEOREM LoopsStayRight == Spec => []LoopInv
<1>1. Inv => LoopInv
  BY WalkLoop, SortLoop DEF Inv, LoopInv
<1> QED
  BY Invariant, <1>1, PTL

\* A traversal passes exactly the arcs below its start, each once ("All arcs
\* traversed once here").
THEOREM ArcsPassedOnce == Spec => []ArcsOnce
<1>1. Inv => ArcsOnce
  BY WalkPassesArcs DEF Inv, ArcsOnce
<1> QED
  BY Invariant, <1>1, PTL

\* A traversal meets exactly the nodes its start leads to, each for the first
\* time once ("All nodes traversed once here").
THEOREM NodesMetOnce == Spec => []ReachMetOnce
<1>1. Inv => ReachMetOnce
  BY WalkMeetsReach DEF Inv, ReachMetOnce
<1> QED
  BY Invariant, <1>1, PTL

\* The sort puts the root first and every other node after the sources of all
\* its in-arcs, whatever arcs the tree has.
THEOREM SortIsTopological == Spec => []Topological
<1>1. Inv => Topological
  <2> SUFFICES ASSUME Inv PROVE Topological
    OBVIOUS
  <2>1. CASE walk = "traverse"
    BY <2>1 DEF Inv, Topological, InOrder
  <2>2. CASE walk = "sort"
    BY <2>2, SortsInOrder DEF Inv, Topological
  <2> QED
    BY <2>1, <2>2 DEF Inv
<1> QED
  BY Invariant, <1>1, PTL

\* What the sort returns is the least set of nodes that holds the root and every
\* node whose in-arcs all come from it: what lies on a cycle, behind one, or
\* behind a node the root does not lead to, is left out, and nothing else.
THEOREM SortIsLeast == Spec => []SortsLeastSet
<1>1. Inv => SortsLeastSet
  BY SortsLeast DEF Inv, SortsLeastSet
<1> QED
  BY Invariant, <1>1, PTL

\* Breadth first: the walk never goes on from a node to one nearer to its root.
\* The queue holds one layer, and then the next.
THEOREM NeverNearer == Spec => NearestFirst
<1>1. Inv => NearestStep
  <2> SUFFICES ASSUME Inv, Pop PROVE NearestStep
    BY DEF NearestStep
  <2>1. walk = "traverse"
    BY DEF Inv, Pop
  <2> QED
    BY <2>1, GoesFarther DEF Inv
<1> QED
  BY Invariant, <1>1, PTL DEF NearestFirst

\* Depth first: when the node the walk leaves was the first to lead to some
\* children, the walk goes on with the last of them.
THEOREM AlwaysDeeper == Spec => DeeperFirst
<1>1. Inv => DeeperStep
  <2> SUFFICES ASSUME Inv, Pop PROVE DeeperStep
    BY DEF DeeperStep
  <2>1. walk = "traverse"
    BY DEF Inv, Pop
  <2> QED
    BY <2>1, GoesDeeper DEF Inv
<1> QED
  BY Invariant, <1>1, PTL DEF DeeperFirst

============================================================================
