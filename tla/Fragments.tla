---- MODULE Fragments ----
(***************************************************************************)
(* ks_fragment_split and the reassembler (kestrel.c), as operators on the  *)
(* value of ks_reassembly_ctx_t.  A fragment is a record of the header     *)
(* fields the code looks at and its payload, a sequence of bytes; a slot's *)
(* key is the pair (msg_id, sys_id).  data is kept byte by byte, so that   *)
(* what a slot returns is what the code's two copy loops leave there.      *)
(***************************************************************************)
EXTENDS Integers, Sequences, FiniteSetsExt

CONSTANTS
    Keys,           \* pairs (msg_id, sys_id)
    FragMax,        \* KS_FRAG_MAX_PAYLOAD
    MaxFragments,   \* KS_FRAG_MAX_FRAGMENTS
    Timeout,        \* KS_FRAG_TIMEOUT_MS
    TimeMod         \* values of the uint32_t clock

ASSUME FragmentAssumption ==
    /\ Keys # {} /\ IsFiniteSet(Keys)
    /\ FragMax \in Nat \ {0} /\ MaxFragments \in Nat \ {0}
    /\ Timeout \in Nat /\ TimeMod \in Nat /\ Timeout < TimeMod

Indices == 0 .. MaxFragments - 1
Cells == 0 .. FragMax * MaxFragments - 1
Empty == "empty"

(* The fragments of a message, none when it is empty or too long.          *)
Split(key, payload) ==
    LET n == (Len(payload) + FragMax - 1) \div FragMax
    IN  [i \in IF n > MaxFragments THEN {} ELSE 0 .. n - 1 |->
            [key |-> key, fragmented |-> n > 1, frag_index |-> i, frag_total |-> n,
             payload |-> SubSeq(payload, i * FragMax + 1,
                             IF i = n - 1 THEN Len(payload) ELSE (i + 1) * FragMax)]]

(* A zero-initialised context of n slots after ks_reassembly_init; n is 4  *)
(* in the code.                                                            *)
FreshSlot(key) ==
    [active |-> FALSE, key |-> key, frag_total |-> 0, frags_received |-> 0,
     received |-> {}, frag_lens |-> [i \in Indices |-> 0],
     data |-> [c \in Cells |-> Empty], start |-> 0]

FreshCtx(n) == [s \in 1 .. n |-> FreshSlot(CHOOSE k \in Keys : TRUE)]

SlotForAny(ctx, key) ==            \* mutant: the message's own slot is not looked for
    LET free == {s \in DOMAIN ctx : ~ctx[s].active}
    IN  IF free # {} THEN Min(free) ELSE 0

(* The active slot of key, else the first free slot, else 0.               *)
SlotFor(ctx, key) ==
    LET own == {s \in DOMAIN ctx : ctx[s].active /\ ctx[s].key = key}
        free == {s \in DOMAIN ctx : ~ctx[s].active}
    IN  CASE own # {} -> Min(own)
          [] own = {} /\ free # {} -> Min(free)
          [] own = {} /\ free = {} -> 0

Opened(slot, f) ==
    IF slot.active THEN slot
    ELSE [slot EXCEPT !.active = TRUE, !.key = f.key, !.frag_total = f.frag_total,
                      !.frags_received = 0, !.received = {}]

StoredTwice(slot, f) ==            \* mutant: a repeated fragment counts again
    LET offset == f.frag_index * FragMax
    IN  [slot EXCEPT
            !.received = @ \cup {f.frag_index},
            !.frags_received = @ + 1,
            !.frag_lens[f.frag_index] = Len(f.payload),
            !.data = [c \in Cells |-> IF c - offset \in 0 .. Len(f.payload) - 1
                                      THEN f.payload[c - offset + 1] ELSE @[c]]]

(* A fragment seen for the first time is recorded and copied to its place. *)
Stored(slot, f) ==
    LET offset == f.frag_index * FragMax
    IN  IF f.frag_index \in slot.received THEN slot
        ELSE [slot EXCEPT
                !.received = @ \cup {f.frag_index},
                !.frags_received = @ + 1,
                !.frag_lens[f.frag_index] = Len(f.payload),
                !.data = [c \in Cells |-> IF c - offset \in 0 .. Len(f.payload) - 1
                                          THEN f.payload[c - offset + 1] ELSE @[c]]]

(* total_len after n rounds of the loop that adds up the lengths.          *)
TotalLen(frag_lens, n) ==
    LET total_len[i \in 0 .. MaxFragments] ==
            IF i = 0 THEN 0 ELSE total_len[i - 1] + frag_lens[i - 1]
    IN  total_len[n]

(* total_len bytes from the start of data.                                 *)
Assembled(slot) ==
    [p \in 1 .. TotalLen(slot.frag_lens, slot.frag_total) |-> slot.data[p - 1]]

Malformed(f) ==
    \/ ~f.fragmented
    \/ f.frag_index >= MaxFragments
    \/ Len(f.payload) > FragMax

Refused(ctx) == [ctx |-> ctx, ret |-> -1, output |-> <<>>]

(* ks_reassembly_add: the context it leaves, its result and its output.    *)
Add(ctx, f) ==
    LET n == SlotFor(ctx, f.key)
        slot == Stored(Opened(ctx[n], f), f)
    IN  CASE Malformed(f) \/ n = 0 -> Refused(ctx)
          [] ~Malformed(f) /\ n > 0 /\ slot.frags_received = slot.frag_total ->
                [ctx |-> [ctx EXCEPT ![n] = [slot EXCEPT !.active = FALSE]],
                 ret |-> 1, output |-> Assembled(slot)]
          [] ~Malformed(f) /\ n > 0 /\ slot.frags_received # slot.frag_total ->
                [ctx |-> [ctx EXCEPT ![n] = slot], ret |-> 0, output |-> <<>>]

(* Every slot open for longer than the timeout is given up.                *)
Evict(ctx, now) ==
    [s \in DOMAIN ctx |->
        IF (now - ctx[s].start) % TimeMod > Timeout
        THEN [ctx[s] EXCEPT !.active = FALSE] ELSE ctx[s]]

AddTimedStampLost(ctx, f, now) == Add(Evict(ctx, now), f)     \* mutant: "Bug-3"

(* ks_reassembly_add_timed.  Without a slot it returns before it calls     *)
(* ks_reassembly_add; a slot that call opened gets the time.               *)
AddTimed(ctx, f, now) ==
    LET evicted == Evict(ctx, now)
        n == SlotFor(evicted, f.key)
        added == Add(evicted, f)
    IN  IF n > 0 /\ ~evicted[n].active /\ added.ctx[n].active
        THEN [added EXCEPT !.ctx[n].start = now]
        ELSE added
====
