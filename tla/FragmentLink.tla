---- MODULE FragmentLink ----
(***************************************************************************)
(* Messages cut by ks_fragment_split and put together again by             *)
(* ks_reassembly_add_timed at the other end of a link that loses, repeats, *)
(* reorders and delays fragments by up to Delay ticks.  A sender repeats a *)
(* key no sooner than Period ticks after its last message with that key.   *)
(***************************************************************************)
EXTENDS Fragments

CONSTANTS
    Slots,      \* numbers of slots a receiver may have
    MaxPayload, \* KS_MAX_PAYLOAD_SIZE of the sender
    Lengths,    \* payload lengths applications send
    Tags,       \* payload contents told apart
    Delay,      \* longest time a fragment is under way
    Period,     \* shortest time between two messages of one key
    Quiet,      \* longest time between two calls of the reassembler
    StartTime,  \* clock values a receiver may start at
    MaxMessages \* bound: messages sent

ASSUME TrafficAssumption ==
    /\ Slots \subseteq Nat \ {0} /\ MaxPayload \in Nat
    /\ Lengths \subseteq Nat /\ StartTime \subseteq 0 .. TimeMod - 1
    /\ MaxMessages \in Nat
    /\ Delay \in Nat /\ Period \in Nat /\ Quiet \in Nat
    /\ Delay =< Timeout /\ Delay + Timeout < Period /\ Quiet + Timeout < TimeMod

VARIABLES
    ctx,        \* the receiver's ks_reassembly_ctx_t
    now,        \* its clock
    idle,       \* ticks since the last call, for the bound Quiet
    sent,       \* messages sent so far
    message,    \* history: the last payload sent for each key
    age,        \* ticks since then, up to Period
    arrived,    \* history: the fragments of it that have arrived
    crowded,    \* history: more keys than slots were in use meanwhile
    done,       \* history: it has been handed over
    last        \* key, result and output of the last call

vars == <<ctx, now, idle, sent, message, age, arrived, crowded, done, last>>

Payload(key, tag, len) == [p \in 1 .. len |-> <<key, tag, p>>]

None == [key |-> CHOOSE k \in Keys : TRUE, ret |-> 0, output |-> <<>>]

Init ==
    /\ \E n \in Slots : ctx = FreshCtx(n)
    /\ now \in StartTime
    /\ idle = 0
    /\ sent = 0
    /\ message = [k \in Keys |-> <<>>]
    /\ age = [k \in Keys |-> Period]
    /\ arrived = [k \in Keys |-> {}]
    /\ crowded = [k \in Keys |-> FALSE]
    /\ done = [k \in Keys |-> FALSE]
    /\ last = None

SendMessage(k) ==
    /\ age[k] = Period
    /\ sent < MaxMessages
    /\ sent' = sent + 1
    /\ \E tag \in Tags, len \in Lengths :
          message' = [message EXCEPT ![k] = Payload(k, tag, len)]
    /\ age' = [age EXCEPT ![k] = 0]
    /\ arrived' = [arrived EXCEPT ![k] = {}]
    /\ crowded' = [crowded EXCEPT ![k] = FALSE]
    /\ done' = [done EXCEPT ![k] = FALSE]
    /\ last' = None
    /\ UNCHANGED <<ctx, now, idle>>

(* Keys that may hold a slot.                                              *)
InUse == {k \in Keys : age[k] =< Delay + Timeout}

(* The fragments of the last message of k that were sent at all: one       *)
(* longer than MaxPayload is refused by the pack function.                 *)
OnTheWay(k) ==
    {i \in DOMAIN Split(k, message[k]) :
        Len(Split(k, message[k])[i].payload) =< MaxPayload}

FragmentArrives(k, i) ==
    /\ age[k] =< Delay
    /\ i \in OnTheWay(k)
    /\ LET added == AddTimed(ctx, Split(k, message[k])[i], now)
       IN  /\ ctx' = added.ctx
           /\ last' = [key |-> k, ret |-> added.ret, output |-> added.output]
           /\ done' = [done EXCEPT ![k] = @ \/ added.ret = 1]
    /\ arrived' = [arrived EXCEPT ![k] = @ \cup {i}]
    /\ crowded' = [crowded EXCEPT ![k] = @ \/ Cardinality(InUse) > Len(ctx)]
    /\ idle' = 0
    /\ UNCHANGED <<now, sent, message, age>>

Tick ==
    /\ idle < Quiet
    /\ idle' = idle + 1
    /\ now' = (now + 1) % TimeMod
    /\ age' = [k \in Keys |-> IF age[k] < Period THEN age[k] + 1 ELSE Period]
    /\ last' = None
    /\ UNCHANGED <<ctx, sent, message, arrived, crowded, done>>

Rest == idle = Quiet /\ UNCHANGED vars      \* the bound Quiet ends the run

Next ==
    \/ \E k \in Keys : SendMessage(k)
    \/ \E k \in Keys, i \in Indices : FragmentArrives(k, i)
    \/ Tick
    \/ Rest

Spec == Init /\ [][Next]_vars
----
Slot == [active : BOOLEAN, key : Keys, frag_total : 0 .. MaxFragments,
         frags_received : 0 .. MaxFragments, received : SUBSET Indices,
         frag_lens : [Indices -> 0 .. FragMax],
         data : [Cells -> {Empty} \cup (Keys \X Tags \X (1 .. FragMax * MaxFragments))],
         start : 0 .. TimeMod - 1]

(* Slots, clock and bookkeeping stay in their ranges.                      *)
TypeOK ==
    /\ Len(ctx) \in Slots
    /\ \A s \in DOMAIN ctx : ctx[s] \in Slot
    /\ now \in 0 .. TimeMod - 1 /\ idle \in 0 .. Quiet /\ sent \in 0 .. MaxMessages
    /\ age \in [Keys -> 0 .. Period]
    /\ arrived \in [Keys -> SUBSET Indices]
    /\ last.ret \in {-1, 0, 1}

(* An open slot holds one key and counts each of its fragments once, and   *)
(* no complete message is left waiting (kestrel.c:1294-1371).              *)
SlotsConsistent ==
    TypeOK /\ \A s \in DOMAIN ctx : ctx[s].active =>
        /\ ctx[s].frags_received = Cardinality(ctx[s].received)
        /\ ctx[s].received \subseteq 0 .. ctx[s].frag_total - 1
        /\ ctx[s].frags_received < ctx[s].frag_total
        /\ \A t \in DOMAIN ctx : t # s /\ ctx[t].active => ctx[t].key # ctx[s].key

(* What the reassembler returns is a message as it was sent, whole and     *)
(* from one message only: no byte of an earlier message with the same key, *)
(* of a neighbour or of an earlier use of the slot is in it.               *)
Whole == last.ret = 1 => last.output = message[last.key]

(* A message all of whose fragments arrive is handed over, unless more     *)
(* keys than slots were in use at once: slots of incomplete messages are   *)
(* given up in time (the "BUG-09 FIX", kestrel_core.h:679-681).            *)
Complete ==
    \A k \in Keys :
        /\ arrived[k] = DOMAIN Split(k, message[k])
        /\ Cardinality(arrived[k]) > 1
        /\ ~crowded[k]
        => done[k]

(* Every board with fragmentation (the table in README.md:103-110) can     *)
(* send the fragments it cuts, if it can cut the message at all.           *)
FragmentsFit == \A k \in Keys : OnTheWay(k) = DOMAIN Split(k, message[k])
====
