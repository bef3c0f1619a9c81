---------------------------- MODULE PositionBook ----------------------------
(***************************************************************************)
(* What an order manager promises its engine about one symbol: a position  *)
(* is opened only from flat and from then on only reduced towards flat.    *)
(* It is never added to, and never flipped without passing through flat.   *)
(***************************************************************************)
EXTENDS Integers

VARIABLE book   \* the signed position

Towards(new, old) ==
    \/ old > 0 /\ new >= 0 /\ new < old
    \/ old < 0 /\ new <= 0 /\ new > old

Init == book \in Int

Open == book = 0 /\ book' \in Int

Reduce == book' \in Int /\ Towards(book', book)

Next == Open \/ Reduce

Spec == Init /\ [][Next]_book
=============================================================================
