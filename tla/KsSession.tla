---- MODULE KsSession ----
(***************************************************************************)
(* ks_session_t and the calls that change it (kestrel.c, "Nonce            *)
(* Management" and "Session Lifecycle"), as operators on the structure's   *)
(* value.  A nonce is the counter followed by four random bytes; only the  *)
(* counter makes it unique, so the random half is left out.                *)
(***************************************************************************)
EXTENDS Integers

CONSTANTS
    M,      \* number of counter values: 2^32 for the uint32_t counter
    Key,    \* 32-byte keys
    NoKey   \* the zeroed key

ASSUME CounterAssumption == M \in Nat /\ M > 1 /\ NoKey \notin Key

Counters == 0 .. M - 1

Session == [initialized : BOOLEAN,
            key : Key \cup {NoKey},
            seeded : BOOLEAN,           \* nonce_state.initialized
            counter : Counters]         \* nonce_state.counter

\* memset / crypto_wipe of the whole structure.
Wiped == [initialized |-> FALSE, key |-> NoKey, seeded |-> FALSE, counter |-> 0]

(* ks_session_init with the value the random source returned.              *)
SessionInit(k, seed) ==
    [initialized |-> TRUE, key |-> k, seeded |-> TRUE, counter |-> seed]

SessionInitFailedKeepsKey(k) ==   \* mutant: the failure path does not wipe
    [Wiped EXCEPT !.key = k]

(* The random source failed: the key copied in is wiped again, the counter *)
(* was zeroed by ks_get_random_u32, and the call returns -1.               *)
SessionInitFailed(k) == [Wiped EXCEPT !.key = NoKey]

(* ks_session_destroy wipes counter and key alike.                         *)
SessionDestroy(s) == Wiped

SetCounterLate(s, c) == [s EXCEPT !.seeded = TRUE]     \* mutant

SetCounter(s, c) == [s EXCEPT !.counter = c, !.seeded = TRUE]

GetCounter(s) == IF s.seeded THEN s.counter ELSE 0

(* The counter that ks_nonce_generate puts into the next nonce.            *)
Issued(s) == IF s.counter = M - 1 THEN 0 ELSE s.counter

GeneratedStuck(s) == [s EXCEPT !.counter = Issued(s)]  \* mutant

(* What ks_nonce_generate leaves behind ("state->counter++").              *)
Generated(s) == [s EXCEPT !.counter = Issued(s) + 1]
====
