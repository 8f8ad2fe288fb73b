----------------------------- MODULE MovesList -----------------------------
(***************************************************************************)
(* A client of a Moves: it calls its operations in any order, with any     *)
(* argument, and assigns it to and from a second one.  It keeps to what    *)
(* the class leaves to its callers: no push beyond the capacity, nothing   *)
(* drawn or removed from an empty list, at ( ) within its assertions.      *)
(*                                                                         *)
(* A call is a step that names the operation and its argument, and a step  *)
(* that does the operation: no step of an operation can pass for none.     *)
(***************************************************************************)
EXTENDS Moves

VARIABLES moves,     \* the list
          other,     \* a second one, for operator=
          call,      \* the call under way, or NoCall
          answer     \* {what it returned}, {} until then and if it returns nothing

listVars == <<moves, other, call, answer>>

NoCall == <<>>

ListInit ==
  /\ moves \in NewMoves /\ other \in NewMoves
  /\ call = NoCall /\ answer = {}

Request ==
  /\ call = NoCall
  /\ \/ call' \in {<<"clear">>, <<"getMoves">>, <<"= other">>, <<"other =">>}
     \/ \E v \in Move : call' = <<"find", v>>
     \/ moves.m_size < Capacity /\ \E v \in Move : call' = <<"push_back", v>>
     \/ moves.m_size # 0 /\ call' \in {<<"take">>, <<"look">>}
     \/ moves.m_size # 0 /\ \E v \in Move : call' = <<"remove", v>>
  /\ answer' = {}
  /\ UNCHANGED <<moves, other>>

Returns(c) == call = c /\ call' = NoCall
OnlyMoves == answer' = {} /\ UNCHANGED other

Clear == Returns(<<"clear">>) /\ moves' = clear(moves) /\ OnlyMoves

Fill == Returns(<<"getMoves">>) /\ moves' \in getMoves /\ OnlyMoves

PushBack(v) == Returns(<<"push_back", v>>) /\ moves' = push_back(moves, v) /\ OnlyMoves

Remove(v) == Returns(<<"remove", v>>) /\ moves' = remove(moves, v) /\ OnlyMoves

Take ==
  /\ Returns(<<"take">>)
  /\ \E i \in Draws(moves) : answer' = {moves.m_moves[i]} /\ moves' = take(moves, i)
  /\ UNCHANGED other

\* at, front and random.
Look ==
  /\ Returns(<<"look">>)
  /\ \E i \in Draws(moves) : answer' = {moves.m_moves[i]}
  /\ UNCHANGED <<moves, other>>

Find(v) ==
  /\ Returns(<<"find", v>>)
  /\ answer' = {find(moves, v)}
  /\ UNCHANGED <<moves, other>>

\* operator= copies the whole array, with what is behind the size.
Assign == Returns(<<"= other">>) /\ moves' = other /\ OnlyMoves

AssignTo == Returns(<<"other =">>) /\ other' = moves /\ answer' = {} /\ UNCHANGED moves

ListNext ==
  \/ Request \/ Clear \/ Fill \/ Take \/ Look \/ Assign \/ AssignTo
  \/ \E v \in Move : PushBack(v) \/ Remove(v) \/ Find(v)

ListSpec == ListInit /\ [][ListNext]_listVars

----------------------------------------------------------------------------
Bag ==
  INSTANCE MoveBag WITH
    bag  <- [v \in Move |-> Count(moves, v)],
    kept <- [v \in Move |-> Count(other, v)]

\* Taking and removing reorder the array and leave old moves behind the size,
\* where a later push or assignment covers them or not.  None of this shows:
\* through any sequence of calls, with moves that occur more than once, each call
\* does to a bag what it says about its argument.  push_back adds the move it is
\* given, remove takes out one of it if there is one and nothing else, take takes
\* out what it returns, and find answers about the move it is asked for.
IsBag == Bag!Spec

============================================================================
