---- MODULE TelemetryLink ----
(***************************************************************************)
(* The sketches' send loops and one receiving parser on a serial line that *)
(* keeps the order of packets and may lose some.  An encrypted stream is   *)
(* numbered by its session's nonce counter (EncryptedTelemetry, the        *)
(* Pixhawk bridge), a plaintext stream by "g_seq++ & 0x0FFF" (HeartbeatSender*)
(* and the USB drone), and kestrel_pack_batch puts 0 into every header; the*)
(* fragments of a message get copies of one header (ks_fragment_split).    *)
(* The parser has one replay window for everything it receives.  Boards    *)
(* restart at either end; a sender that keeps its counter (DurableCounter, *)
(* which the EEPROM sketch implements) goes on past all it has sent.       *)
(***************************************************************************)
EXTENDS ReplayCheck

CONSTANTS
    Streams,        \* the packet streams that share the receiving parser
    Encrypted,      \* those sent through a session
    Batched,        \* those made of plaintext batches
    Durable,        \* encrypted ones whose board keeps its counter in EEPROM
    Fragmented,     \* those whose messages are cut into fragments
    Parts,          \* fragments of such a message
    Wrap,           \* values of the wire sequence field: 2^12
    Margin,         \* counters a restart may skip: NONCE_SAFETY_MARGIN
    MaxLost,        \* bound: packets the line loses in a row
    MaxRestarts     \* bound: restarts of senders and of the receiver

ASSUME StreamsAssumption ==
    /\ Streams # {} /\ Encrypted \subseteq Streams /\ Batched \subseteq Streams \ Encrypted
    /\ Fragmented \subseteq Streams \ Batched /\ Parts \in Nat \ {0}
    /\ Wrap \in Nat \ {0} /\ Wrap =< 2 * H
    /\ Durable \subseteq Encrypted
    /\ Margin \in Nat /\ MaxLost \in Nat /\ MaxRestarts \in Nat
    /\ Durable # {} => MaxLost + Margin * MaxRestarts + 2 < H

VARIABLES
    counter,    \* per stream: the session's counter, or g_seq
    part,       \* per stream: the fragment of its message to send next
    replay,     \* the parser's replay fields
    verdict,    \* what became of the last packet: accepted, refused or lost
    lost,       \* packets lost in a row
    restarts    \* restarts so far

vars == <<counter, part, replay, verdict, lost, restarts>>

(* ks_session_init seeds a nonce counter with any value; g_seq starts at 0.*)
Init ==
    /\ counter \in {c \in [Streams -> Seqs] : \A s \in Streams \ Encrypted : c[s] = 0}
    /\ part = [s \in Streams |-> 0]
    /\ replay = FreshReplay
    /\ verdict = [stream |-> CHOOSE s \in Streams : TRUE, is |-> "lost"]
    /\ lost = 0
    /\ restarts = 0

(* The number the next packet of s carries on the wire.                    *)
WireSeq(s) ==
    CASE s \in Encrypted -> IF counter[s] = 2 * H - 1 THEN 0 ELSE counter[s]
      [] s \in Batched -> 0
      [] s \in Streams \ (Encrypted \cup Batched) -> counter[s]

LastPart(s) == s \in Fragmented => part[s] = Parts - 1

(* "counter++" of the session for each packet, "g_seq++ & 0x0FFF" of a     *)
(* plaintext stream for each header, that is, for each message.            *)
Advance(s) ==
    /\ part' = [part EXCEPT ![s] = IF LastPart(s) THEN 0 ELSE @ + 1]
    /\ counter' = [counter EXCEPT ![s] =
                    CASE s \in Encrypted -> WireSeq(s) + 1
                      [] s \in Batched -> @
                      [] s \in Streams \ (Encrypted \cup Batched) ->
                            IF LastPart(s) THEN (@ + 1) % Wrap ELSE @]

Lose(s) ==
    /\ lost < MaxLost
    /\ lost' = lost + 1
    /\ verdict' = [stream |-> s, is |-> "lost"]
    /\ Advance(s)
    /\ UNCHANGED <<replay, restarts>>

Arrive(s) ==
    /\ \/ /\ Stale(replay, WireSeq(s))
          /\ verdict' = [stream |-> s, is |-> "refused"]
          /\ UNCHANGED replay
       \/ /\ ~Stale(replay, WireSeq(s))
          /\ verdict' = [stream |-> s, is |-> "accepted"]
          /\ replay' = Accept(replay, WireSeq(s))
    /\ lost' = 0
    /\ Advance(s)
    /\ UNCHANGED restarts

ResumedAnywhere(s) == Seqs             \* mutant: the counter on EEPROM is not restored

(* Where a board starts numbering when it comes up again: past all it has  *)
(* sent, at a random counter, or with g_seq at 0.                          *)
Resumed(s) ==
    CASE s \in Durable -> {(counter[s] + skipped) % (2 * H) : skipped \in 0 .. Margin}
      [] s \in Encrypted \ Durable -> Seqs
      [] s \in Streams \ Encrypted -> {0}

SenderRestarts(s) ==
    /\ restarts < MaxRestarts
    /\ restarts' = restarts + 1
    /\ \E c \in Resumed(s) : counter' = [counter EXCEPT ![s] = c]
    /\ part' = [part EXCEPT ![s] = 0]
    /\ UNCHANGED <<replay, verdict, lost>>

(* ks_parser_init of the receiving board.                                  *)
ReceiverRestarts ==
    /\ restarts < MaxRestarts
    /\ restarts' = restarts + 1
    /\ replay' = FreshReplay
    /\ UNCHANGED <<counter, part, verdict, lost>>

Next ==
    \/ \E s \in Streams : Lose(s) \/ Arrive(s) \/ SenderRestarts(s)
    \/ ReceiverRestarts

(* Every loop() sends for ever, and not every packet is lost.  Nothing is  *)
(* assumed of restarts.                                                    *)
Spec == Init /\ [][Next]_vars /\ \A s \in Streams : WF_vars(Arrive(s))
----
(* Counters, window and verdict stay in their ranges.                      *)
TypeOK ==
    /\ counter \in [Streams -> Seqs] /\ part \in [Streams -> 0 .. Parts - 1]
    /\ replay \in Replay
    /\ verdict \in [stream : Streams, is : {"lost", "accepted", "refused"}]
    /\ lost \in 0 .. MaxLost /\ restarts \in 0 .. MaxRestarts

(* On a line that neither repeats nor reorders packets, KS_ERR_REPLAY      *)
(* never occurs, whichever of the two boards has restarted: the code       *)
(* returns it so that "callers can distinguish replay attacks from link    *)
(* errors" (kestrel.c:1868-1869).                                          *)
NoFalseReplay == verdict.is # "refused"

(* A batch has to leave its sequence at 0, "Caller should set if needed"   *)
(* (kestrel.c:2151): a stream of batches is received all the same.         *)
BatchesAccepted == \A s \in Batched : verdict # [stream |-> s, is |-> "refused"]

(* A "Rolling sequence counter (12-bit, wraps at 4095)"                    *)
(* (HeartbeatSender.ino:25), or the nonce counter, keeps its stream alive: *)
(* the receiver goes on accepting packets for ever, past every rollover.   *)
KeepsHearing ==
    \A s \in Streams : []<>(verdict = [stream |-> s, is |-> "accepted"])
====
