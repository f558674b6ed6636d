---- MODULE AtMostOnceLink ----
(***************************************************************************)
(* What a Kestrel receiver promises the application: of the packets issued *)
(* so far it hands over each one at most once, in any order, and may lose  *)
(* any of them.  A receiver that restarts forgets what it handed over.     *)
(***************************************************************************)
EXTENDS Naturals, Sequences

VARIABLES
    issued,     \* how many packets the sender has issued
    delivered   \* the packets handed over since the receiver started

vars == <<issued, delivered>>

Init == issued = 0 /\ delivered = <<>>

Issue == issued' = issued + 1 /\ UNCHANGED delivered

Deliver(i) ==
    /\ \A k \in 1 .. Len(delivered) : delivered[k] # i
    /\ delivered' = Append(delivered, i)
    /\ UNCHANGED issued

Restart == delivered' = <<>> /\ UNCHANGED issued

Next == Issue \/ (\E i \in 1 .. issued : Deliver(i)) \/ Restart

Spec == Init /\ [][Next]_vars
====
