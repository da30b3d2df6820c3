---------------------------- MODULE RecentEvents ----------------------------
(***************************************************************************)
(* What the interrupt history promises a reader of the dump: the last      *)
(* Capacity events recorded since it was last cleared, oldest first.       *)
(***************************************************************************)
EXTENDS Naturals, Sequences

CONSTANTS Capacity, Event

VARIABLE shown

Init == shown = <<>>

Record(e) ==
  shown' = IF Len(shown) < Capacity THEN Append(shown, e)
                                    ELSE Append(Tail(shown), e)

Clear == shown' = <<>>

Next == Clear \/ \E e \in Event : Record(e)

Spec == Init /\ [][Next]_shown
=============================================================================
