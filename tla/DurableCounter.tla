---- MODULE DurableCounter ----
(***************************************************************************)
(* What a board that persists its nonce counter promises under one key:    *)
(* each packet carries a counter past all those sent before, however often *)
(* the board lost power in between.  Counters may be left out.             *)
(***************************************************************************)
EXTENDS Naturals, Sequences

CONSTANT Counter    \* values of the counter

VARIABLE issued     \* the counters sent, in order

Init == issued = <<>>

Issue(c) ==
    /\ \A k \in 1 .. Len(issued) : issued[k] < c
    /\ issued' = Append(issued, c)

Next == \E c \in Counter : Issue(c)

Spec == Init /\ [][Next]_issued
====
