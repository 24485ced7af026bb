--------------------------- MODULE AbstractQueue ---------------------------
(***************************************************************************)
(* What an osip_fifo_t promises to the threads that share it: elements are *)
(* put at the end (or, by osip_fifo_insert, at the front), every element   *)
(* is handed out once, always from the front, and an element that waits is *)
(* handed out as long as somebody keeps asking.                            *)
(***************************************************************************)
EXTENDS Sequences

CONSTANT Elements

VARIABLES items,      \* the elements that wait, front first
          delivered   \* the elements handed out, oldest first

absvars == <<items, delivered>>

Init == items = <<>> /\ delivered = <<>>

Put(e)      == items' = Append(items, e) /\ UNCHANGED delivered

PutFront(e) == items' = <<e>> \o items /\ UNCHANGED delivered

Take == /\ items # <<>>
        /\ items' = Tail(items)
        /\ delivered' = Append(delivered, Head(items))

Next == Take \/ \E e \in Elements : Put(e) \/ PutFront(e)

SafeSpec == Init /\ [][Next]_absvars

Spec == SafeSpec /\ WF_absvars(Take)
=============================================================================
