------------------------------- MODULE Moves -------------------------------
(***************************************************************************)
(* The value of a Moves<T, S> (MCTSSearchTree/moves.hpp) and its           *)
(* operations as operators on that value: a C-array of S moves, of which   *)
(* the first m_size are in the list.  The others keep what was written to  *)
(* them last.                                                              *)
(***************************************************************************)
EXTENDS Integers, FiniteSets

CONSTANT Move        \* the values of T, one for each of the S slots

\* The array has a size.
ASSUME MoveAssumption == IsFiniteSet(Move)

Capacity == Cardinality(Move)
Slots    == 0 .. Capacity - 1

MovesValue == [m_size : 0 .. Capacity, m_moves : [Slots -> Move]]

\* Moves ( ) sets the size and leaves the array uninitialized.
NewMoves == {[m_size |-> 0, m_moves |-> a] : a \in [Slots -> Move]}

\* The indices of the list, and how often a move is in it.
Used(m)     == 0 .. m.m_size - 1
Count(m, v) == Cardinality({i \in Used(m) : m.m_moves[i] = v})

clear(m) == [m EXCEPT !.m_size = 0]

push_back(m, v) == [m_size  |-> m.m_size + 1,
                    m_moves |-> [m.m_moves EXCEPT ![m.m_size] = v]]

\* [Mutant: find looks behind the size.]
find_behind(m, v) == \E i \in Slots : m.m_moves[i] = v

find(m, v) == \E i \in Used(m) : m.m_moves[i] = v

\* What uniform_int_distribution { 0, size - 1 } can draw.  Of an empty list
\* it draws from an empty range, which is undefined: any index.
Draws(m) == IF m.m_size = 0 THEN Slots ELSE Used(m)

\* take of the move at index i: the last one of the list replaces it.
\* [Mutant: the last move does not replace the taken one.]
take_noReplace(m, i) == [m EXCEPT !.m_size = @ - 1]

take(m, i) ==
  [m_size  |-> m.m_size - 1,
   m_moves |-> IF m.m_size = 0
               THEN m.m_moves
               ELSE [m.m_moves EXCEPT ![i] = m.m_moves[m.m_size - 1]]]

\* [Mutant: the last move is not looked at.]
remove_butLast(m, v) ==
  LET last == m.m_size - 1
      hits == {i \in 0 .. last - 1 : m.m_moves[i] = v}
      i    == CHOOSE h \in hits : \A k \in hits : h <= k
  IN  IF hits = {}
      THEN m
      ELSE [m_size  |-> last,
            m_moves |-> [m.m_moves EXCEPT ![i] = m.m_moves[last]]]

\* remove takes out the first move equal to v, if there is one, of a list that
\* is not empty.  The two returns that only change the size are here the
\* replacement of the last move by itself.
remove(m, v) ==
  LET last == m.m_size - 1
      hits == {i \in Used(m) : m.m_moves[i] = v}
      i    == CHOOSE h \in hits : \A k \in hits : h <= k
  IN  IF hits = {}
      THEN m
      ELSE [m_size  |-> last,
            m_moves |-> [m.m_moves EXCEPT ![i] = m.m_moves[last]]]

\* getMoves ( ) of mcts_emu.hpp: every move once, shuffled.
getMoves ==
  {[m_size |-> Capacity, m_moves |-> a] :
     a \in {f \in [Slots -> Move] : \A i, j \in Slots : f[i] = f[j] => i = j}}

============================================================================
