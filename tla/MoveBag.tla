------------------------------ MODULE MoveBag ------------------------------
(***************************************************************************)
(* What a list of moves promises: a bag of moves.  The order is of no      *)
(* concern, neither is what was in the list before.  A call names the      *)
(* operation and its argument; then the operation does what it says about  *)
(* this argument, and returns.                                             *)
(***************************************************************************)
EXTENDS Naturals

CONSTANT Move

VARIABLES bag,       \* how many of each move
          kept,      \* the same, of a second list
          call,      \* the call under way, or NoCall
          answer     \* {what it returned}, {} until then and if it returns nothing

vars == <<bag, kept, call, answer>>

NoCall == <<>>

Empty == [v \in Move |-> 0]
Full  == [v \in Move |-> 1]

Add(b, v)     == [b EXCEPT ![v] = @ + 1]
Without(b, v) == [b EXCEPT ![v] = IF @ = 0 THEN 0 ELSE @ - 1]

Init == bag = Empty /\ kept = Empty /\ call = NoCall /\ answer = {}

Request ==
  /\ call = NoCall /\ call' # NoCall
  /\ answer' = {}
  /\ UNCHANGED <<bag, kept>>

\* The call c returns, and changes no list but the one it is for.
Returns(c) == call = c /\ call' = NoCall
OnlyBag == answer' = {} /\ UNCHANGED kept

Clear == Returns(<<"clear">>) /\ bag' = Empty /\ OnlyBag

Fill == Returns(<<"getMoves">>) /\ bag' = Full /\ OnlyBag

PushBack(v) == Returns(<<"push_back", v>>) /\ bag' = Add(bag, v) /\ OnlyBag

\* One of this move goes, if there is one.
Remove(v) == Returns(<<"remove", v>>) /\ bag' = Without(bag, v) /\ OnlyBag

\* Some move of the list comes back, and one of it goes.
Take ==
  /\ Returns(<<"take">>)
  /\ \E v \in Move : bag[v] > 0 /\ answer' = {v} /\ bag' = Without(bag, v)
  /\ UNCHANGED kept

\* Some move of the list comes back, and nothing changes.
Look ==
  /\ Returns(<<"look">>)
  /\ \E v \in Move : bag[v] > 0 /\ answer' = {v}
  /\ UNCHANGED <<bag, kept>>

\* Whether this move is in the list.
Find(v) ==
  /\ Returns(<<"find", v>>)
  /\ answer' = {bag[v] > 0}
  /\ UNCHANGED <<bag, kept>>

Assign == Returns(<<"= other">>) /\ bag' = kept /\ OnlyBag

AssignTo == Returns(<<"other =">>) /\ kept' = bag /\ answer' = {} /\ UNCHANGED bag

Next ==
  \/ Request \/ Clear \/ Fill \/ Take \/ Look \/ Assign \/ AssignTo
  \/ \E v \in Move : PushBack(v) \/ Remove(v) \/ Find(v)

Spec == Init /\ [][Next]_vars

============================================================================
