---- MODULE ReplayCheck ----
(***************************************************************************)
(* The replay test of ks_parse_char (kestrel.c): a sliding window of W     *)
(* packets behind the highest sequence number accepted so far, over        *)
(* sequence numbers of 2 * H values (uint32_t in the code: H = 2^31 and    *)
(* W = 64).  This module has no state of its own: a parser keeps one       *)
(* record of Replay, the three replay_* fields of ks_parser_t.             *)
(*                                                                         *)
(* The 64-bit bitmap is the set of its one-bits: b is in replay_window     *)
(* when last_seq - b has been accepted.                                    *)
(***************************************************************************)
EXTENDS Integers

CONSTANTS
    W,      \* width of the bitmap
    H       \* half the number of sequence values

ASSUME WindowAssumption == W \in Nat \ {0} /\ H \in Nat /\ W < H

Seqs == 0 .. 2 * H - 1

Replay == [replay_init : BOOLEAN,
           last_seq : Seqs,
           replay_window : SUBSET (0 .. W - 1)]

\* ks_parser_init.
FreshReplay == [replay_init |-> FALSE, last_seq |-> 0, replay_window |-> {}]

(* (int32_t)(a - b), the subtraction being modulo 2 * H.                   *)
SDiff(a, b) ==
    LET d == a - b
    IN  IF d >= H THEN d - 2 * H ELSE IF d < -H THEN d + 2 * H ELSE d

(* The values "back = -diff" can take.  Negating INT32_MIN is undefined:   *)
(* a build that wraps tests bit 0, one that reasons back >= 0 rejects.     *)
Back(d) == IF d = -H THEN {H, 0} ELSE {-d}

StaleStrict(r, seq) ==         \* mutant: every older packet is refused
    /\ r.replay_init
    /\ SDiff(seq, r.last_seq) <= 0

StaleUnsigned(r, seq) ==       \* mutant: compares without wrapping
    /\ r.replay_init
    /\ seq =< r.last_seq
    /\ \/ r.last_seq - seq >= W
       \/ (r.last_seq - seq) \in r.replay_window

(* The packet is refused with KS_ERR_REPLAY, nothing of r changes.         *)
Stale(r, seq) ==
    /\ r.replay_init
    /\ SDiff(seq, r.last_seq) <= 0
    /\ \A back \in Back(SDiff(seq, r.last_seq)) :
            back >= W \/ back \in r.replay_window

(* replay_window << n, and 0 once n reaches the width.                     *)
Shifted(bits, n) == {b + n : b \in bits} \cap (0 .. W - 1)

AcceptMovesBack(r, seq) ==     \* mutant: a late packet becomes last_seq
    [replay_init |-> TRUE, last_seq |-> seq, replay_window |-> {0}]

(* What accepting seq leaves in the parser.                                *)
Accept(r, seq) ==
    LET d == SDiff(seq, r.last_seq)
    IN  IF r.replay_init /\ d <= 0
        THEN [r EXCEPT !.replay_window = @ \cup {-d}]
        ELSE [replay_init |-> TRUE, last_seq |-> seq,
              replay_window |->
                {0} \cup (IF r.replay_init THEN Shifted(r.replay_window, d)
                                           ELSE {})]
====
