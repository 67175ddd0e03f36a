---------------------------- MODULE BoundedFifo ----------------------------
(***************************************************************************)
(* What the ready queue promises: first in, first out, at most Capacity    *)
(* items, an item offered to a full queue is dropped, and taking from an   *)
(* empty queue yields Nothing.                                             *)
(***************************************************************************)
EXTENDS Naturals, Sequences

CONSTANTS Capacity, Item, Nothing

VARIABLES items,   \* the queued items, oldest first
          out      \* what the last Take returned

Init == items = <<>> /\ out = Nothing

Put(x) ==
    /\ items' = IF Len(items) < Capacity THEN Append(items, x) ELSE items
    /\ UNCHANGED out

Take ==
    IF items = <<>>
    THEN out' = Nothing /\ UNCHANGED items
    ELSE out' = Head(items) /\ items' = Tail(items)

Next == (\E x \in Item : Put(x)) \/ Take

Spec == Init /\ [][Next]_<<items, out>>
=============================================================================
