---- MODULE ReplayWindow ----
(***************************************************************************)
(* One sender session and one parser joined by a link that may lose,       *)
(* duplicate, delay and reorder packets.  The sender numbers its packets   *)
(* with the nonce counter (ks_nonce_generate), the parser filters them     *)
(* with the window of ReplayCheck.  The link is the log wire of everything *)
(* sent: a packet may reach the parser at any time, any number of times.   *)
(***************************************************************************)
EXTENDS ReplayCheck, Sequences

CONSTANTS
    Seeds,  \* the counters ks_nonce_init may draw
    Quota   \* bound: packets one session sends before it is re-keyed

ASSUME SessionAssumption == Seeds \subseteq Seqs /\ Quota \in Nat

VARIABLES
    counter,    \* session->nonce_state.counter
    wire,       \* wire[i] : the counter in the nonce of the i-th packet
    replay,     \* the parser's replay fields
    delivered   \* history: the packets accepted since ks_parser_init

vars == <<counter, wire, replay, delivered>>

Init ==
    /\ counter \in Seeds
    /\ wire = <<>>
    /\ replay = FreshReplay
    /\ delivered = <<>>

(* 0xFFFFFFFF is never issued: ks_nonce_generate turns it into 0.          *)
Issued == IF counter = 2 * H - 1 THEN 0 ELSE counter

Send ==
    /\ Len(wire) < Quota
    /\ wire' = Append(wire, Issued)
    /\ counter' = Issued + 1
    /\ UNCHANGED <<replay, delivered>>

ReceiveUnchecked(i) ==         \* mutant: KS_ERR_REPLAY is not returned
    /\ replay' = Accept(replay, wire[i])
    /\ delivered' = Append(delivered, i)
    /\ UNCHANGED <<counter, wire>>

ReceiveNoUpdate(i) ==          \* mutant: the window is not updated
    /\ ~Stale(replay, wire[i])
    /\ replay' = [replay EXCEPT !.replay_init = TRUE, !.last_seq = wire[i]]
    /\ delivered' = Append(delivered, i)
    /\ UNCHANGED <<counter, wire>>

Receive(i) ==
    /\ ~Stale(replay, wire[i])
    /\ replay' = Accept(replay, wire[i])
    /\ delivered' = Append(delivered, i)
    /\ UNCHANGED <<counter, wire>>

(* The receiving board restarts and calls ks_parser_init.                  *)
ParserInit ==
    /\ replay' = FreshReplay
    /\ delivered' = <<>>
    /\ UNCHANGED <<counter, wire>>

Next == Send \/ (\E i \in 1 .. Len(wire) : Receive(i)) \/ ParserInit

Spec == Init /\ [][Next]_vars
----
(* The variables have their types: the counter stays a uint32_t though the *)
(* code increments it past its largest value, and the bitmap keeps its W   *)
(* bits through every shift.                                               *)
TypeOK ==
    /\ counter \in Seqs
    /\ wire \in Seq(Seqs)
    /\ Len(wire) =< Quota
    /\ replay \in Replay
    /\ delivered \in Seq(1 .. Len(wire))

Delivered(i) == \E k \in 1 .. Len(delivered) : delivered[k] = i

(* Packet i's place in the session: its counter with the rollover undone.  *)
Place(i) == IF wire[i] >= wire[1] THEN wire[i] ELSE wire[i] + 2 * H

(* No packet is handed to the application twice, however often the link    *)
(* repeats it and in whatever order: the purpose of the replay window      *)
(* (kestrel.c:1841-1891).                                                  *)
AtMostOnce ==
    \A j, k \in 1 .. Len(delivered) : j # k => delivered[j] # delivered[k]

(* last_seq is the counter of the latest packet accepted, "Highest         *)
(* accepted seq" (kestrel_core.h:249), across the counter's rollover too.  *)
HighestKept ==
    delivered # <<>> =>
        \E t \in 1 .. Len(wire) :
            /\ Delivered(t)
            /\ wire[t] = replay.last_seq
            /\ \A i \in 1 .. Len(wire) : Delivered(i) => i =< t

(* The window never refuses a packet it has not yet accepted and that is   *)
(* fewer than W places behind the latest one: packets the link reorders by *)
(* less than the window all get through.                                   *)
ReorderTolerated ==
    \A i \in 1 .. Len(wire) :
        /\ ~Delivered(i)
        /\ \A t \in 1 .. Len(wire) : Delivered(t) => Place(t) - Place(i) < W
        => ~Stale(replay, wire[i])

(* The header promises that the 32-bit counter protects against replays    *)
(* for as long as it does not wrap, "~497 days of non-wrapping protection  *)
(* at 100 Hz" (kestrel_core.h:244-245): up to 2^32 - 1 packets.            *)
NonWrappingProtection == Len(wire) < 2 * H => AtMostOnce

(* When the counter rolls over it restarts at 0, "Guaranteed fresh":       *)
(* ks_nonce_init is said never to issue 0 (kestrel.c:1484-1490), so that   *)
(* no packet of the session has carried it.                                *)
RolloverFresh ==
    [][wire' # wire /\ counter = 2 * H - 1 =>
            \A i \in 1 .. Len(wire) : wire[i] # 0]_vars

Link == INSTANCE AtMostOnceLink WITH issued <- Len(wire)

(* Sender, link and window together implement the abstract at-most-once    *)
(* link: a step hands over at most one packet, one that was issued and not *)
(* handed over before (kestrel.c:1863-1891).                               *)
ImplementsLink == Link!Spec
====
