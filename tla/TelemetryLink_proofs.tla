---- MODULE TelemetryLink_proofs ----
(***************************************************************************)
(* Proofs about TelemetryLink for every window, counter width, margin and  *)
(* bound on losses and restarts: a receiver that hears one board, and that *)
(* board keeping its nonce counter over restarts, never takes a packet for *)
(* a replay.  Then about GroundLink, the ground station and the drone on   *)
(* one serial line, for every length of the line, clock and number of      *)
(* keys, losses and restarts: the drone tells what it did, and does nothing*)
(* it is told under encryption.                                            *)
(***************************************************************************)
EXTENDS TelemetryLink, GroundLink, SequenceTheorems, TLAPS

(* One board sends to the receiver, and it keeps its counter in EEPROM.    *)
OneDurableStream == Durable = Streams /\ \A s, t \in Streams : s = t

(* The packet accepted last is in the window.                              *)
LastInWindow == replay.replay_init => 0 \in replay.replay_window

(* How far a stream's counter may be ahead of what the receiver has seen:  *)
(* one, what was lost and what restarts have skipped.                      *)
Lead == 1 + lost + Margin * restarts

(* The counter of s is ahead of last_seq by at most Lead; a counter that   *)
(* has rolled over, and left out 2 * H - 1, by one more.                   *)
Ahead(s) ==
    LET seen == replay.last_seq
    IN  \/ /\ seen < counter[s] /\ counter[s] =< seen + Lead
           /\ seen < 2 * H - 1
        \/ /\ counter[s] < seen /\ counter[s] + 2 * H =< seen + Lead + 1

AllAhead == replay.replay_init => \A s \in Streams : Ahead(s)

IInv == TypeOK /\ LastInWindow /\ AllAhead /\ NoFalseReplay

----
LEMMA Consts ==
    /\ H \in Nat /\ W \in Nat /\ W > 0 /\ W < H /\ Seqs = 0 .. 2 * H - 1
    /\ Parts \in Nat /\ Parts > 0 /\ Wrap \in Nat /\ Wrap > 0 /\ Wrap =< 2 * H
    /\ Margin \in Nat /\ MaxLost \in Nat /\ MaxRestarts \in Nat
    /\ Streams # {} /\ Encrypted \subseteq Streams /\ Durable \subseteq Encrypted
BY WindowAssumption, StreamsAssumption DEF Seqs

LEMMA WindowConsts ==
    H \in Nat /\ W \in Nat /\ W > 0 /\ W < H /\ Seqs = 0 .. 2 * H - 1
BY WindowAssumption DEF Seqs

LEMMA SDiffLemma ==
    ASSUME NEW a \in Seqs, NEW b \in Seqs
    PROVE  /\ SDiff(a, b) \in -H .. H - 1
           /\ b < a /\ a < b + H => SDiff(a, b) > 0
           /\ a < b /\ a + 2 * H < b + H => SDiff(a, b) > 0
BY WindowConsts DEF SDiff

(* What is accepted becomes, or joins, the window; a difference of -H is   *)
(* never accepted, because bit 0 is set.                                   *)
LEMMA AcceptLemma ==
    ASSUME NEW r \in Replay, r.replay_init => 0 \in r.replay_window,
           NEW seq \in Seqs, ~Stale(r, seq)
    PROVE  /\ Accept(r, seq) \in Replay
           /\ Accept(r, seq).replay_init
           /\ 0 \in Accept(r, seq).replay_window
           /\ ~r.replay_init \/ SDiff(seq, r.last_seq) > 0 => Accept(r, seq).last_seq = seq
<1> DEFINE d == SDiff(seq, r.last_seq)
<1>1. /\ r.replay_init \in BOOLEAN /\ r.last_seq \in Seqs
      /\ r.replay_window \subseteq 0 .. W - 1
  BY DEF Replay
<1>2. d \in -H .. H - 1
  BY <1>1, SDiffLemma
<1>3. 0 \in 0 .. W - 1
  BY WindowConsts
<1> HIDE DEF d
<1>4. CASE r.replay_init /\ d =< 0
  <2>1. Accept(r, seq) = [r EXCEPT !.replay_window = @ \cup {-d}]
    BY <1>4 DEF Accept, d
  <2>2. PICK back \in Back(d) : back < W /\ back \notin r.replay_window
    <3>1. PICK back \in Back(d) : ~(back >= W \/ back \in r.replay_window)
      BY <1>4 DEF Stale, d
    <3>2. back \in Int
      BY <1>2, WindowConsts, <3>1 DEF Back
    <3>3. QED
      BY <3>1, <3>2, WindowConsts
  <2>3. d # -H
    BY <2>2, <1>4, WindowConsts DEF Back
  <2>4. back = -d /\ -d \in 0 .. W - 1
    BY <2>2, <2>3, <1>2, <1>4, WindowConsts DEF Back
  <2>5. DEFINE bits == r.replay_window \cup {-d}
  <2>6. bits \subseteq 0 .. W - 1 /\ 0 \in bits
    BY <2>4, <1>1, <1>4
  <2>7. Accept(r, seq) = [r EXCEPT !.replay_window = bits]
    BY <2>1
  <2>8. QED
    BY <2>6, <2>7, <1>1, <1>2, <1>4, WindowConsts, SMTT(30) DEF Replay, d
<1>5. CASE ~(r.replay_init /\ d =< 0)
  <2>1. Accept(r, seq) =
          [replay_init |-> TRUE, last_seq |-> seq,
           replay_window |->
             {0} \cup (IF r.replay_init THEN Shifted(r.replay_window, d) ELSE {})]
    BY <1>5 DEF Accept, d
  <2>2. Shifted(r.replay_window, d) \subseteq 0 .. W - 1
    BY DEF Shifted
  <2>3. QED
    BY <2>1, <2>2, <1>3 DEF Replay
<1>6. QED
  BY <1>4, <1>5, <1>2, <1>1, WindowConsts DEF d

LEMMA WireSeqLemma ==
    ASSUME TypeOK, NEW s \in Streams
    PROVE  /\ WireSeq(s) \in Seqs
           /\ s \in Encrypted =>
                /\ WireSeq(s) < 2 * H - 1
                /\ counter[s] < 2 * H - 1 => WireSeq(s) = counter[s]
                /\ counter[s] = 2 * H - 1 => WireSeq(s) = 0
<1>1. counter[s] \in Seqs
  BY DEF TypeOK
<1>2. CASE s \in Encrypted
  <2>1. WireSeq(s) = IF counter[s] = 2 * H - 1 THEN 0 ELSE counter[s]
    BY <1>2, StreamsAssumption DEF WireSeq
  <2>2. QED
    BY <1>1, <2>1, Consts
<1>3. CASE s \in Batched
  BY <1>3, Consts, StreamsAssumption DEF WireSeq
<1>4. CASE s \in Streams \ (Encrypted \cup Batched)
  BY <1>1, <1>4 DEF WireSeq
<1>5. QED
  BY <1>2, <1>3, <1>4, StreamsAssumption

(* Sending a packet keeps counters and parts in their ranges.              *)
LEMMA AdvanceLemma ==
    ASSUME TypeOK, NEW s \in Streams, Advance(s)
    PROVE  counter' \in [Streams -> Seqs] /\ part' \in [Streams -> 0 .. Parts - 1]
<1>1. counter[s] \in Seqs /\ part[s] \in 0 .. Parts - 1
  BY DEF TypeOK
<1>2. (IF LastPart(s) THEN 0 ELSE part[s] + 1) \in 0 .. Parts - 1
  <2>1. s \notin Fragmented => LastPart(s)
    BY DEF LastPart
  <2>2. ~LastPart(s) => part[s] # Parts - 1
    BY DEF LastPart
  <2>3. QED
    BY <1>1, <2>1, <2>2, Consts
<1>3. CASE s \in Encrypted
  <2>1. WireSeq(s) + 1 \in Seqs
    BY <1>3, WireSeqLemma, Consts
  <2>2. QED
    BY <1>2, <1>3, <2>1 DEF Advance, TypeOK
<1>4. CASE s \in Batched
  BY <1>1, <1>2, <1>4, StreamsAssumption DEF Advance, TypeOK
<1>5. CASE s \in Streams \ (Encrypted \cup Batched)
  <2>1. (counter[s] + 1) % Wrap \in Seqs
    <3>1. (counter[s] + 1) % Wrap \in 0 .. Wrap - 1
      BY <1>1, Consts
    <3>2. QED
      BY <3>1, Consts
  <2>2. (IF LastPart(s) THEN (counter[s] + 1) % Wrap ELSE counter[s]) \in Seqs
    BY <1>1, <2>1
  <2>3. QED
    BY <1>2, <1>5, <2>2 DEF Advance, TypeOK
<1>6. QED
  BY <1>3, <1>4, <1>5

LEMMA DurableResumes ==
    ASSUME NEW s \in Durable
    PROVE  Resumed(s) = {(counter[s] + skipped) % (2 * H) : skipped \in 0 .. Margin}
BY Consts DEF Resumed

LEMMA ResumedLemma ==
    ASSUME TypeOK, NEW s \in Streams, NEW c \in Resumed(s)
    PROVE  c \in Seqs
<1>1. CASE s \in Durable
  <2>1. PICK skipped \in 0 .. Margin : c = (counter[s] + skipped) % (2 * H)
    BY <1>1, DurableResumes
  <2>2. counter[s] \in Seqs /\ 2 * H \in Nat \ {0}
    BY Consts DEF TypeOK
  <2>3. QED
    BY <2>1, <2>2, Consts
<1>2. CASE s \in Encrypted \ Durable
  BY <1>2 DEF Resumed
<1>3. CASE s \in Streams \ Encrypted
  BY <1>3, Consts DEF Resumed
<1>4. QED
  BY <1>1, <1>2, <1>3

(* Every step keeps the types and leaves bit 0 of the window set.          *)
LEMMA TypeStep ==
    ASSUME TypeOK, LastInWindow, [Next]_vars
    PROVE  TypeOK' /\ LastInWindow'
<1>1. ASSUME NEW s \in Streams, Lose(s)
      PROVE  TypeOK' /\ LastInWindow'
  <2>1. counter' \in [Streams -> Seqs] /\ part' \in [Streams -> 0 .. Parts - 1]
    BY <1>1, AdvanceLemma DEF Lose
  <2>2. lost' \in 0 .. MaxLost
    BY <1>1, Consts DEF Lose, TypeOK
  <2>3. QED
    BY <1>1, <2>1, <2>2 DEF Lose, TypeOK, LastInWindow
<1>2. ASSUME NEW s \in Streams, Arrive(s)
      PROVE  TypeOK' /\ LastInWindow'
  <2>1. counter' \in [Streams -> Seqs] /\ part' \in [Streams -> 0 .. Parts - 1]
    BY <1>2, AdvanceLemma DEF Arrive
  <2>2. replay' \in Replay /\ LastInWindow'
    <3>1. replay \in Replay /\ WireSeq(s) \in Seqs
      BY WireSeqLemma DEF TypeOK
    <3>2. CASE ~Stale(replay, WireSeq(s)) /\ replay' = Accept(replay, WireSeq(s))
      BY <3>1, <3>2, AcceptLemma DEF LastInWindow
    <3>3. CASE replay' = replay
      BY <3>1, <3>3 DEF LastInWindow
    <3>4. QED
      BY <1>2, <3>2, <3>3 DEF Arrive
  <2>3. verdict' \in [stream : Streams, is : {"lost", "accepted", "refused"}]
    BY <1>2 DEF Arrive
  <2>4. lost' \in 0 .. MaxLost /\ restarts' \in 0 .. MaxRestarts
    BY <1>2, Consts DEF Arrive, TypeOK
  <2>5. QED
    BY <2>1, <2>2, <2>3, <2>4 DEF TypeOK
<1>3. ASSUME NEW s \in Streams, SenderRestarts(s)
      PROVE  TypeOK' /\ LastInWindow'
  <2>1. PICK c \in Resumed(s) : counter' = [counter EXCEPT ![s] = c]
    BY <1>3 DEF SenderRestarts
  <2>2. c \in Seqs
    BY ResumedLemma
  <2>3. restarts' \in 0 .. MaxRestarts
    BY <1>3, Consts DEF SenderRestarts, TypeOK
  <2>4. part' \in [Streams -> 0 .. Parts - 1]
    BY <1>3, Consts DEF SenderRestarts, TypeOK
  <2>5. QED
    BY <1>3, <2>1, <2>2, <2>3, <2>4 DEF SenderRestarts, TypeOK, LastInWindow
<1>4. CASE ReceiverRestarts
  <2>1. restarts' \in 0 .. MaxRestarts
    BY <1>4, Consts DEF ReceiverRestarts, TypeOK
  <2>2. FreshReplay \in Replay /\ ~FreshReplay.replay_init
    BY Consts DEF FreshReplay, Replay
  <2>3. QED
    BY <1>4, <2>1, <2>2 DEF ReceiverRestarts, TypeOK, LastInWindow
<1>5. CASE UNCHANGED vars
  BY <1>5 DEF vars, TypeOK, LastInWindow
<1>6. QED
  BY <1>1, <1>2, <1>3, <1>4, <1>5 DEF Next

LEMMA TypeInit == Init => TypeOK /\ LastInWindow
<1> SUFFICES ASSUME Init PROVE TypeOK /\ LastInWindow
  OBVIOUS
<1>1. FreshReplay \in Replay /\ ~FreshReplay.replay_init
  BY Consts DEF FreshReplay, Replay
<1>2. (CHOOSE s \in Streams : TRUE) \in Streams
  BY Consts
<1>3. 0 \in 0 .. Parts - 1 /\ 0 \in 0 .. MaxLost /\ 0 \in 0 .. MaxRestarts
  BY Consts
<1>4. QED
  BY <1>1, <1>2, <1>3 DEF Init, TypeOK, LastInWindow

(* Counters, window and verdict stay in their ranges, whatever streams     *)
(* share the parser: no bit outside the window is ever set, not even for   *)
(* the one difference that has no absolute value (kestrel.c:1860-1885).    *)
THEOREM TypeCorrect == Spec => []TypeOK
<1>1. TypeOK /\ LastInWindow /\ [Next]_vars => (TypeOK /\ LastInWindow)'
  BY TypeStep
<1>2. QED
  BY TypeInit, <1>1, PTL DEF Spec
----
LEMMA SkipLemma ==
    ASSUME NEW c \in Seqs, NEW k \in Nat, k < 2 * H
    PROVE  (c + k) % (2 * H) = IF c + k < 2 * H THEN c + k ELSE c + k - 2 * H
BY Consts

LEMMA TimesLemma ==
    ASSUME NEW n \in Nat, NEW m \in Nat, n =< m
    PROVE  /\ Margin * n \in Nat /\ Margin * m \in Nat
           /\ Margin * n =< Margin * m
           /\ Margin * (n + 1) = Margin * n + Margin
BY Consts

LEMMA LeadBound ==
    ASSUME OneDurableStream, NEW n \in 0 .. MaxLost, NEW m \in 0 .. MaxRestarts
    PROVE  /\ Margin * m \in Nat /\ 1 + n + Margin * m \in Nat
           /\ 1 + n + Margin * m > 0 /\ 1 + n + Margin * m + 1 < H
<1>1. MaxLost + Margin * MaxRestarts + 2 < H
  BY Consts, StreamsAssumption DEF OneDurableStream
<1>2. m \in Nat /\ m =< MaxRestarts /\ n \in Nat /\ n =< MaxLost
  BY Consts
<1>3. /\ Margin * m \in Nat /\ Margin * MaxRestarts \in Nat
      /\ Margin * m =< Margin * MaxRestarts
  BY <1>2, TimesLemma, Consts
<1>4. QED
  BY <1>1, <1>2, <1>3, Consts

LEMMA LeadLemma ==
    ASSUME TypeOK, OneDurableStream
    PROVE  Lead \in Nat /\ Lead > 0 /\ Lead + 1 < H
BY LeadBound DEF Lead, TypeOK

(* The next packet of a counter that is ahead is newer than last_seq.      *)
LEMMA AheadIsNewer ==
    ASSUME TypeOK, OneDurableStream, NEW s \in Streams, Ahead(s)
    PROVE  SDiff(WireSeq(s), replay.last_seq) > 0 /\ ~Stale(replay, WireSeq(s))
<1>1. counter[s] \in Seqs /\ replay.last_seq \in Seqs
  BY DEF TypeOK, Replay
<1>2. s \in Encrypted
  BY Consts DEF OneDurableStream
<1>3. WireSeq(s) \in Seqs /\ SDiff(WireSeq(s), replay.last_seq) \in -H .. H - 1
  BY <1>1, WireSeqLemma, SDiffLemma
<1>4. SDiff(WireSeq(s), replay.last_seq) > 0
  <2>1. Lead \in Nat /\ Lead > 0 /\ Lead + 1 < H
    BY LeadLemma
  <2>2. CASE counter[s] = 2 * H - 1
    <3>1. WireSeq(s) = 0
      BY <2>2, <1>2, WireSeqLemma
    <3>2. 0 < replay.last_seq /\ 0 + 2 * H < replay.last_seq + H
      BY <1>1, <2>1, <2>2, Consts DEF Ahead
    <3>3. QED
      BY <1>1, <1>3, <3>1, <3>2, SDiffLemma
  <2>3. CASE counter[s] # 2 * H - 1
    <3>1. WireSeq(s) = counter[s]
      BY <2>3, <1>1, <1>2, WireSeqLemma, Consts
    <3>2. \/ replay.last_seq < counter[s] /\ counter[s] < replay.last_seq + H
          \/ counter[s] < replay.last_seq /\ counter[s] + 2 * H < replay.last_seq + H
      BY <1>1, <2>1, Consts DEF Ahead
    <3>3. QED
      BY <1>1, <3>1, <3>2, SDiffLemma
  <2>4. QED
    BY <2>2, <2>3
<1>5. QED
  BY <1>3, <1>4 DEF Stale

(* A packet that gets lost, or a restart, leaves the counter ahead.        *)
LEMMA LoseKeepsAhead ==
    ASSUME TypeOK, TypeOK', OneDurableStream, NEW s \in Streams, Lose(s), Ahead(s)
    PROVE  Ahead(s)'
<1>1. /\ counter[s] \in Seqs /\ replay.last_seq \in Seqs /\ replay' = replay
      /\ s \in Encrypted /\ s \notin Batched
  BY Consts, StreamsAssumption DEF TypeOK, Replay, OneDurableStream, Lose
<1>2. counter'[s] = WireSeq(s) + 1
  BY <1>1 DEF Lose, Advance, TypeOK
<1>3. Lead \in Nat /\ Lead > 0 /\ Lead + 1 < H /\ Lead' = Lead + 1
  <2>1. lost \in Nat /\ restarts \in Nat /\ lost' = lost + 1 /\ restarts' = restarts
    BY DEF Lose, TypeOK
  <2>2. Margin * restarts \in Nat
    BY <2>1, TimesLemma
  <2>3. QED
    BY <2>1, <2>2, LeadLemma DEF Lead
<1>4. CASE counter[s] = 2 * H - 1
  <2>1. counter'[s] = 1
    BY <1>1, <1>2, <1>4, WireSeqLemma
  <2>2. QED
    BY <1>1, <1>3, <1>4, <2>1, Consts DEF Ahead
<1>5. CASE counter[s] # 2 * H - 1
  <2>1. counter'[s] = counter[s] + 1 /\ counter[s] + 1 =< 2 * H - 1
    BY <1>1, <1>2, <1>5, WireSeqLemma, Consts
  <2>2. QED
    BY <1>1, <1>3, <2>1, Consts, SMTT(30) DEF Ahead
<1>6. QED
  BY <1>4, <1>5

LEMMA RestartKeepsAhead ==
    ASSUME TypeOK, TypeOK', OneDurableStream, NEW s \in Streams, SenderRestarts(s), Ahead(s)
    PROVE  Ahead(s)'
<1>1. /\ counter[s] \in Seqs /\ replay.last_seq \in Seqs /\ replay' = replay
  BY DEF TypeOK, Replay, SenderRestarts
<1>2. PICK skipped \in 0 .. Margin : counter'[s] = (counter[s] + skipped) % (2 * H)
  <2>1. PICK c \in Resumed(s) : counter' = [counter EXCEPT ![s] = c]
    BY DEF SenderRestarts
  <2>2. counter'[s] = c
    BY <2>1 DEF TypeOK
  <2>3. QED
    BY <2>2, DurableResumes DEF OneDurableStream
<1>3. /\ Lead \in Nat /\ Lead > 0 /\ Lead + 1 < H
      /\ Lead' = Lead + Margin /\ Lead' + 1 < H
  <2>1. lost \in Nat /\ restarts \in Nat /\ lost' = lost /\ restarts' = restarts + 1
    BY DEF SenderRestarts, TypeOK
  <2>2. Margin * restarts \in Nat /\ Margin * (restarts + 1) = Margin * restarts + Margin
    BY <2>1, TimesLemma
  <2>3. Lead' = Lead + Margin
    BY <2>1, <2>2, Consts DEF Lead
  <2>4. Lead' + 1 < H
    BY LeadBound DEF Lead, TypeOK
  <2>5. QED
    BY <2>3, <2>4, LeadLemma
<1>4. skipped \in Nat /\ skipped =< Margin /\ skipped < 2 * H
  BY <1>3, Consts
<1>5. counter'[s] = IF counter[s] + skipped < 2 * H THEN counter[s] + skipped
                    ELSE counter[s] + skipped - 2 * H
  BY <1>1, <1>2, <1>4, SkipLemma
<1>6. CASE replay.last_seq < counter[s]
  <2>1. counter[s] =< replay.last_seq + Lead /\ replay.last_seq < 2 * H - 1
    BY <1>1, <1>6, Consts DEF Ahead
  <2>2. CASE counter[s] + skipped < 2 * H
    BY <1>1, <1>3, <1>4, <1>5, <1>6, <2>1, <2>2, Consts, SMTT(30) DEF Ahead
  <2>3. CASE counter[s] + skipped >= 2 * H
    <3>1. counter'[s] = counter[s] + skipped - 2 * H
      BY <1>1, <1>4, <1>5, <2>3, Consts
    <3>2. counter'[s] + 2 * H =< replay.last_seq + Lead'
      BY <1>1, <1>3, <1>4, <3>1, <2>1, Consts
    <3>3. counter'[s] < replay.last_seq
      BY <1>1, <1>3, <1>4, <3>1, <3>2, Consts
    <3>4. counter'[s] + 2 * H =< replay'.last_seq + Lead' + 1
      BY <1>1, <1>3, <1>4, <3>1, <3>2, Consts
    <3>5. QED
      BY <1>1, <3>3, <3>4 DEF Ahead
  <2>4. QED
    BY <1>1, <1>4, <2>2, <2>3, Consts
<1>7. CASE counter[s] < replay.last_seq
  <2>1. counter[s] + 2 * H =< replay.last_seq + Lead + 1
    BY <1>1, <1>7, Consts DEF Ahead
  <2>2. counter[s] + skipped < replay.last_seq
    BY <1>1, <1>3, <1>4, <2>1, Consts
  <2>3. counter'[s] = counter[s] + skipped
    BY <1>1, <1>4, <1>5, <2>2, Consts
  <2>4. counter'[s] + 2 * H =< replay'.last_seq + Lead' + 1
    BY <1>1, <1>3, <1>4, <2>1, <2>3, Consts
  <2>5. QED
    BY <1>1, <2>2, <2>3, <2>4 DEF Ahead
<1>8. QED
  BY <1>6, <1>7 DEF Ahead
----
LEMMA IInvInit == OneDurableStream /\ Init => IInv
<1> SUFFICES ASSUME Init PROVE IInv
  OBVIOUS
<1>1. TypeOK /\ LastInWindow
  BY TypeInit
<1>2. ~replay.replay_init /\ verdict.is = "lost"
  BY DEF Init, FreshReplay
<1>3. QED
  BY <1>1, <1>2 DEF IInv, AllAhead, NoFalseReplay

(* A packet that arrives is newer than what was accepted before it.        *)
LEMMA ArriveStep ==
    ASSUME OneDurableStream, IInv, NEW s \in Streams, Arrive(s), TypeOK'
    PROVE  AllAhead' /\ NoFalseReplay'
<1>1. TypeOK /\ LastInWindow /\ s \in Encrypted /\ s \notin Batched
  BY Consts, StreamsAssumption DEF IInv, OneDurableStream
<1>2. WireSeq(s) \in Seqs /\ WireSeq(s) < 2 * H - 1 /\ replay \in Replay
  BY <1>1, WireSeqLemma DEF TypeOK
<1>3. ~Stale(replay, WireSeq(s))
  <2>1. CASE replay.replay_init
    BY <1>1, <2>1, AheadIsNewer DEF IInv, AllAhead
  <2>2. CASE ~replay.replay_init
    BY <2>2 DEF Stale
  <2>3. QED
    BY <2>1, <2>2
<1>4. verdict'.is = "accepted" /\ replay' = Accept(replay, WireSeq(s))
  BY <1>3 DEF Arrive
<1>5. replay'.last_seq = WireSeq(s)
  <2>1. ~replay.replay_init \/ SDiff(WireSeq(s), replay.last_seq) > 0
    BY <1>1, AheadIsNewer DEF IInv, AllAhead
  <2>2. QED
    BY <1>1, <1>2, <1>3, <1>4, <2>1, AcceptLemma DEF LastInWindow
<1>6. counter'[s] = WireSeq(s) + 1
  BY <1>1 DEF Arrive, Advance, TypeOK
<1>7. Lead' \in Nat /\ Lead' > 0
  BY LeadBound DEF TypeOK, Lead
<1>8. Ahead(s)'
  BY <1>2, <1>5, <1>6, <1>7, Consts DEF Ahead
<1>9. QED
  <2>1. \A t \in Streams : t = s
    BY DEF OneDurableStream
  <2>2. AllAhead'
    BY <1>8, <2>1 DEF AllAhead
  <2>3. NoFalseReplay'
    BY <1>4 DEF NoFalseReplay
  <2>4. QED
    BY <2>2, <2>3

LEMMA IInvStep ==
    ASSUME OneDurableStream, IInv, [Next]_vars
    PROVE  IInv'
<1>1. TypeOK' /\ LastInWindow'
  BY TypeStep DEF IInv
<1>2. AllAhead' /\ NoFalseReplay'
  <2>1. ASSUME NEW s \in Streams, Lose(s)
        PROVE  AllAhead' /\ NoFalseReplay'
    <3>1. replay.replay_init => Ahead(s)'
      BY <1>1, <2>1, LoseKeepsAhead DEF IInv, AllAhead
    <3>2. \A t \in Streams : t = s
      BY DEF OneDurableStream
    <3>3. replay' = replay /\ verdict'.is = "lost"
      BY <2>1 DEF Lose
    <3>4. QED
      BY <3>1, <3>2, <3>3 DEF AllAhead, NoFalseReplay
  <2>2. ASSUME NEW s \in Streams, Arrive(s)
        PROVE  AllAhead' /\ NoFalseReplay'
    BY <1>1, <2>2, ArriveStep
  <2>3. ASSUME NEW s \in Streams, SenderRestarts(s)
        PROVE  AllAhead' /\ NoFalseReplay'
    <3>1. replay.replay_init => Ahead(s)'
      BY <1>1, <2>3, RestartKeepsAhead DEF IInv, AllAhead
    <3>2. \A t \in Streams : t = s
      BY DEF OneDurableStream
    <3>3. replay' = replay /\ verdict' = verdict
      BY <2>3 DEF SenderRestarts
    <3>4. QED
      BY <3>1, <3>2, <3>3 DEF IInv, AllAhead, NoFalseReplay
  <2>4. CASE ReceiverRestarts
    <3>1. ~replay'.replay_init /\ verdict' = verdict
      BY <2>4 DEF ReceiverRestarts, FreshReplay
    <3>2. QED
      BY <3>1 DEF IInv, AllAhead, NoFalseReplay
  <2>5. CASE UNCHANGED vars
    BY <2>5 DEF vars, IInv, AllAhead, Ahead, Lead, NoFalseReplay
  <2>6. QED
    BY <2>1, <2>2, <2>3, <2>4, <2>5 DEF Next
<1>3. QED
  BY <1>1, <1>2 DEF IInv

(* A board that keeps its counter is never suspected of a replay, however  *)
(* often it, or the receiver, restarts and however packets get lost, as    *)
(* long as losses in a row and skipped counters stay below half the range: *)
(* the receiver sees only numbers ahead of last_seq (kestrel.c:1857-1869), *)
(* past the rollover of ks_nonce_generate too.                             *)
THEOREM NothingRefused == OneDurableStream /\ Spec => []NoFalseReplay
<1> SUFFICES ASSUME OneDurableStream PROVE Spec => []NoFalseReplay
  BY DEF OneDurableStream
<1>1. Init => IInv
  BY IInvInit
<1>2. IInv /\ [Next]_vars => IInv'
  BY IInvStep
<1>3. IInv => NoFalseReplay
  BY DEF IInv
<1>4. QED
  BY <1>1, <1>2, <1>3, PTL DEF Spec
----
(* The ground link.                                                        *)

UpPacket == [kind : {"heartbeat", "command"}, command : Commands \cup {"none"},
             sealed : BOOLEAN, seq : Seqs, id : Nat]

DownPacket ==
    [kind : {"ack"}, boot : Nat, command : Commands \cup {"none"}, id : Nat, result : {0, 3}]
    \cup [kind : {"heartbeat"}, boot : Nat, mode : {"armed", "disarmed"}, deed : Nat]
    \cup [kind : {"attitude", "gps"}, boot : Nat]

Executed == {"ARM", "DISARM"}

Queues ==
    /\ up \in Seq(UpPacket) /\ down \in Seq(DownPacket) /\ commands \in Seq(Commands)
    /\ sealed \in BOOLEAN /\ resets \in Nat /\ gcs_seq \in Nat
    /\ deed \in 0 .. Len(commands) /\ acked \in 0 .. Len(commands)

(* g_armed is what the last command executed made of it.                   *)
ArmedByDeed == armed = (deed # 0 /\ commands[deed] = "ARM")

(* A command on its way is one the ground station sent, and newer than     *)
(* whatever was executed, acknowledged or read.                            *)
Asked(p) ==
    p.kind = "command" =>
        /\ p.id \in 1 .. Len(commands) /\ p.command = commands[p.id]
        /\ acked < p.id /\ deed < p.id

Newer(p, q) == p.kind = "command" /\ q.kind = "command" => p.id < q.id

Unanswered(p, q) == p.kind = "command" /\ q.kind = "ack" => q.id < p.id

CommandsWait ==
    /\ \A i \in 1 .. Len(up) : Asked(up[i])
    /\ \A i, j \in 1 .. Len(up) : i < j => Newer(up[i], up[j])
    /\ \A i \in 1 .. Len(up), j \in 1 .. Len(down) : Unanswered(up[i], down[j])

(* What a packet of the drone says is true of the commands, and nothing it *)
(* has acknowledged since its start is newer than its deed.                *)
Truthful(p) ==
    /\ p.boot \in 0 .. resets
    /\ p.kind = "ack" =>
          /\ p.id \in 1 .. Len(commands) /\ acked < p.id
          /\ p.command = commands[p.id]
          /\ p.result = 0 <=> p.command \in Executed
          /\ p.boot = resets /\ p.result = 0 => p.id =< deed
    /\ p.kind = "heartbeat" =>
          /\ p.deed \in 0 .. Len(commands)
          /\ p.mode = Mode(p.deed # 0 /\ commands[p.deed] = "ARM")

(* What a packet says of those that follow it.                             *)
Promised(p, q) ==
    p.kind = "ack" =>
        /\ q.kind = "ack" => q.id > p.id
        /\ q.kind = "heartbeat" /\ q.boot = p.boot /\ p.result = 0 => q.deed >= p.id

DroneTells ==
    /\ \A j \in 1 .. Len(down) : Truthful(down[j])
    /\ \A i, j \in 1 .. Len(down) : i < j => Promised(down[i], down[j])

GroundInv == Queues /\ ArmedByDeed /\ CommandsWait /\ DroneTells

LEMMA GroundConsts ==
    /\ Encrypts \subseteq BOOLEAN /\ SeqWrap \in Nat /\ SeqWrap > 0 /\ H \in Nat
    /\ SeqWrap =< 2 * H /\ Seqs = 0 .. 2 * H - 1
BY GroundAssumption, WindowAssumption DEF Seqs

LEMMA QueueTail ==
    ASSUME NEW S, NEW q \in Seq(S), q # <<>>
    PROVE  /\ Head(q) \in S /\ Head(q) = q[1] /\ 1 \in 1 .. Len(q)
           /\ Tail(q) \in Seq(S) /\ Len(q) \in Nat /\ Len(Tail(q)) = Len(q) - 1
           /\ \A i \in 1 .. Len(Tail(q)) : /\ i + 1 \in 1 .. Len(q) /\ 1 < i + 1
                                           /\ Tail(q)[i] = q[i + 1]
BY HeadTailProperties

LEMMA QueueAppend ==
    ASSUME NEW S, NEW q \in Seq(S), NEW e \in S
    PROVE  /\ Append(q, e) \in Seq(S) /\ Len(q) \in Nat /\ Len(Append(q, e)) = Len(q) + 1
           /\ Append(q, e)[Len(q) + 1] = e
           /\ \A i \in 1 .. Len(q) : Append(q, e)[i] = q[i]
           /\ \A i \in 1 .. Len(Append(q, e)) : i = Len(q) + 1 \/ i \in 1 .. Len(q)
BY AppendProperties

(* Packets leave the line, and what is left is said in the same order.     *)
Shortened(q, r) ==
    \E drop \in {0, 1} :
        /\ Len(r) = Len(q) - drop
        /\ \A i \in 1 .. Len(r) : i + drop \in 1 .. Len(q) /\ r[i] = q[i + drop]

LEMMA TailShortens ==
    ASSUME NEW S, NEW q \in Seq(S), q # <<>> PROVE Shortened(q, Tail(q))
BY QueueTail DEF Shortened

LEMMA SameShortens == ASSUME NEW S, NEW q \in Seq(S) PROVE Shortened(q, q)
<1>1. Len(q) \in Nat
  BY LenProperties
<1>2. /\ Len(q) = Len(q) - 0
      /\ \A i \in 1 .. Len(q) : i + 0 \in 1 .. Len(q) /\ q[i] = q[i + 0]
  BY <1>1
<1>3. QED
  BY <1>2 DEF Shortened

(* Nothing the drone or the line does to the queues, but for handling a    *)
(* command and sending, can make a promise false.                          *)
LEMMA LessOnTheLine ==
    ASSUME GroundInv, up' \in Seq(UpPacket), down' \in Seq(DownPacket),
           Shortened(up, up'), Shortened(down, down'),
           UNCHANGED <<sealed, resets, deed, armed, commands, acked>>, gcs_seq' = gcs_seq
    PROVE  GroundInv'
<1>1. Queues' /\ ArmedByDeed'
  BY DEF GroundInv, Queues, ArmedByDeed
<1>2. PICK u \in {0, 1} :
        /\ Len(up') = Len(up) - u
        /\ \A i \in 1 .. Len(up') : i + u \in 1 .. Len(up) /\ up'[i] = up[i + u]
  BY DEF Shortened
<1>3. PICK d \in {0, 1} :
        /\ Len(down') = Len(down) - d
        /\ \A i \in 1 .. Len(down') : i + d \in 1 .. Len(down) /\ down'[i] = down[i + d]
  BY DEF Shortened
<1>4. CommandsWait'
  <2>1. \A i \in 1 .. Len(up') : Asked(up[i])'
    BY <1>2 DEF GroundInv, CommandsWait, Asked
  <2>2. \A i, j \in 1 .. Len(up') : i < j => Newer(up'[i], up'[j])
    <3>1. SUFFICES ASSUME NEW i \in 1 .. Len(up'), NEW j \in 1 .. Len(up'), i < j
                   PROVE  Newer(up[i + u], up[j + u])
      BY <1>2
    <3>2. i + u < j + u /\ i + u \in 1 .. Len(up) /\ j + u \in 1 .. Len(up)
      BY <1>2, <3>1
    <3>3. QED
      BY <3>2 DEF GroundInv, CommandsWait
  <2>3. \A i \in 1 .. Len(up'), j \in 1 .. Len(down') : Unanswered(up'[i], down'[j])
    BY <1>2, <1>3 DEF GroundInv, CommandsWait
  <2>4. QED
    BY <2>1, <2>2, <2>3 DEF CommandsWait, Newer, Unanswered
<1>5. DroneTells'
  <2>1. \A j \in 1 .. Len(down') : Truthful(down[j])'
    <3>1. SUFFICES ASSUME NEW j \in 1 .. Len(down') PROVE Truthful(down[j])'
      OBVIOUS
    <3>2. PICK p : p = down'[j]
      OBVIOUS
    <3>3. Truthful(p)
      BY <1>3, <3>1, <3>2 DEF GroundInv, DroneTells
    <3>4. Truthful(p)'
      BY <3>3 DEF Truthful
    <3>5. QED
      BY <3>2, <3>4 DEF Truthful
  <2>2. \A i, j \in 1 .. Len(down') : i < j => Promised(down'[i], down'[j])
    <3>1. SUFFICES ASSUME NEW i \in 1 .. Len(down'), NEW j \in 1 .. Len(down'), i < j
                   PROVE  Promised(down[i + d], down[j + d])
      BY <1>3
    <3>2. i + d < j + d /\ i + d \in 1 .. Len(down) /\ j + d \in 1 .. Len(down)
      BY <1>3, <3>1
    <3>3. QED
      BY <3>2 DEF GroundInv, DroneTells
  <2>3. QED
    BY <2>1, <2>2 DEF DroneTells, Promised
<1>6. QED
  BY <1>1, <1>4, <1>5 DEF GroundInv

(* A packet is sent towards the ground station.                            *)
LEMMA DroneSays ==
    ASSUME GroundInv, NEW e \in DownPacket, down' = Append(down, e),
           Shortened(up, up'), up' \in Seq(UpPacket),
           UNCHANGED <<sealed, resets, commands, acked, gcs_seq>>,
           deed' \in 0 .. Len(commands), deed =< deed', ArmedByDeed',
           Truthful(e)', \A j \in 1 .. Len(down) : Promised(down[j], e),
           \A i \in 1 .. Len(up') : /\ Unanswered(up'[i], e)
                                    /\ up'[i].kind = "command" => deed' < up'[i].id
    PROVE  GroundInv'
<1>1. /\ down \in Seq(DownPacket) /\ down' \in Seq(DownPacket) /\ Len(down) \in Nat
      /\ Len(down') = Len(down) + 1 /\ down'[Len(down) + 1] = e
      /\ \A j \in 1 .. Len(down) : down'[j] = down[j]
      /\ \A j \in 1 .. Len(down') : j = Len(down) + 1 \/ j \in 1 .. Len(down)
  BY QueueAppend DEF GroundInv, Queues
<1>2. Queues'
  BY <1>1 DEF GroundInv, Queues
<1>3. PICK u \in {0, 1} :
        /\ Len(up') = Len(up) - u
        /\ \A i \in 1 .. Len(up') : i + u \in 1 .. Len(up) /\ up'[i] = up[i + u]
  BY DEF Shortened
<1>4. CommandsWait'
  <2>1. ASSUME NEW i \in 1 .. Len(up') PROVE Asked(up[i])'
    BY <1>3, <2>1 DEF GroundInv, CommandsWait, Asked
  <2>2. \A i, j \in 1 .. Len(up') : i < j => Newer(up'[i], up'[j])
    <3>1. SUFFICES ASSUME NEW i \in 1 .. Len(up'), NEW j \in 1 .. Len(up'), i < j
                   PROVE  Newer(up[i + u], up[j + u])
      BY <1>3
    <3>2. i + u < j + u /\ i + u \in 1 .. Len(up) /\ j + u \in 1 .. Len(up)
      BY <1>3, <3>1
    <3>3. QED
      BY <3>2 DEF GroundInv, CommandsWait
  <2>3. ASSUME NEW i \in 1 .. Len(up'), NEW j \in 1 .. Len(down')
        PROVE  Unanswered(up'[i], down'[j])
    <3>1. CASE j = Len(down) + 1
      BY <1>1, <3>1
    <3>2. CASE j \in 1 .. Len(down)
      BY <1>1, <1>3, <3>2 DEF GroundInv, CommandsWait
    <3>3. QED
      BY <1>1, <3>1, <3>2
  <2>4. QED
    BY <2>1, <2>2, <2>3 DEF CommandsWait, Newer, Unanswered
<1>5. DroneTells'
  <2>1. ASSUME NEW j \in 1 .. Len(down') PROVE Truthful(down[j])'
    <3>1. CASE j = Len(down) + 1
      BY <1>1, <3>1 DEF Truthful
    <3>2. CASE j \in 1 .. Len(down)
      <4>1. PICK p : p = down[j]
        OBVIOUS
      <4>2. Truthful(p)
        BY <3>2, <4>1 DEF GroundInv, DroneTells
      <4>3. p.kind = "ack" => p.id \in Int
        BY <4>2 DEF Truthful, GroundInv, Queues
      <4>4. Truthful(p)'
        BY <4>2, <4>3 DEF Truthful, GroundInv, Queues
      <4>5. QED
        BY <1>1, <3>2, <4>1, <4>4 DEF Truthful
    <3>3. QED
      BY <1>1, <3>1, <3>2
  <2>2. ASSUME NEW i \in 1 .. Len(down'), NEW j \in 1 .. Len(down'), i < j
        PROVE  Promised(down'[i], down'[j])
    <3>1. i \in 1 .. Len(down)
      BY <1>1, <2>2
    <3>2. CASE j = Len(down) + 1
      BY <1>1, <3>1, <3>2
    <3>3. CASE j \in 1 .. Len(down)
      BY <1>1, <2>2, <3>1, <3>3 DEF GroundInv, DroneTells
    <3>4. QED
      BY <1>1, <3>2, <3>3
  <2>3. QED
    BY <2>1, <2>2 DEF DroneTells, Promised
<1>6. QED
  BY <1>2, <1>4, <1>5 DEF GroundInv

LEMMA GroundStart == GroundInit => GroundInv
<1>1. SUFFICES ASSUME GroundInit PROVE GroundInv
  OBVIOUS
<1>2. /\ up = <<>> /\ down = <<>> /\ commands = <<>> /\ deed = 0 /\ acked = 0
      /\ armed = FALSE /\ resets = 0 /\ sealed \in BOOLEAN /\ gcs_seq = 0
  BY <1>1, GroundConsts DEF GroundInit
<1>3. 1 .. Len(up) = {} /\ 1 .. Len(down) = {} /\ 0 \in 0 .. Len(commands)
  BY <1>2
<1>4. Queues /\ ArmedByDeed
  <2>1. \A S : <<>> \in Seq(S)
    BY EmptySeq
  <2>2. up \in Seq(UpPacket) /\ down \in Seq(DownPacket) /\ commands \in Seq(Commands)
    BY <1>2, <2>1
  <2>3. QED
    BY <1>2, <1>3, <2>2 DEF Queues, ArmedByDeed
<1>5. CommandsWait /\ DroneTells
  BY <1>3 DEF CommandsWait, DroneTells
<1>6. QED
  BY <1>4, <1>5 DEF GroundInv

LEMMA HandleStep ==
    ASSUME GroundInv, up # <<>>, up' = Tail(up), Head(up).kind = "command", Handle(Head(up)),
           UNCHANGED <<sealed, resets, commands, acked, gcs_seq>>
    PROVE  GroundInv'
<1>1. PICK p : p = Head(up)
  OBVIOUS
<1>2. /\ p \in UpPacket /\ p = up[1] /\ p.kind = "command" /\ 1 \in 1 .. Len(up)
      /\ up' \in Seq(UpPacket) /\ Shortened(up, up')
      /\ \A i \in 1 .. Len(up') : i + 1 \in 1 .. Len(up) /\ 1 < i + 1 /\ up'[i] = up[i + 1]
  BY <1>1, QueueTail, TailShortens DEF GroundInv, Queues
<1>3. /\ p.id \in 1 .. Len(commands) /\ p.command = commands[p.id]
      /\ acked < p.id /\ deed < p.id
  BY <1>2 DEF GroundInv, CommandsWait, Asked
<1>4. /\ p.command \in Commands \cup {"none"} /\ p.id \in Nat /\ resets \in Nat
      /\ deed \in 0 .. Len(commands) /\ Len(commands) \in Nat
  BY <1>2, LenProperties DEF UpPacket, GroundInv, Queues
<1>5. PICK e : e = Ack(p)
  OBVIOUS
<1>6. /\ e.kind = "ack" /\ e.boot = resets /\ e.command = p.command /\ e.id = p.id
      /\ e.result = (IF p.command \in Executed THEN 0 ELSE 3)
  BY <1>5 DEF Ack, Executed
<1>7. e \in DownPacket
  BY <1>4, <1>5 DEF Ack, DownPacket
<1>8. /\ down' = Append(down, e)
      /\ deed' = IF p.command \in Executed THEN p.id ELSE deed
      /\ armed' = CASE p.command = "ARM" -> TRUE [] p.command = "DISARM" -> FALSE
                     [] OTHER -> armed
  BY <1>1, <1>5 DEF Handle, Executed
<1>9. deed' \in 0 .. Len(commands) /\ deed =< deed'
  BY <1>3, <1>4, <1>8
<1>10. ArmedByDeed'
  <2>1. CASE p.command = "ARM"
    <3>1. armed' = TRUE /\ deed' = p.id
      BY <1>8, <2>1 DEF Executed
    <3>2. commands' = commands /\ p.id # 0
      BY <1>3, <1>4
    <3>3. QED
      BY <1>3, <2>1, <3>1, <3>2 DEF ArmedByDeed
  <2>2. CASE p.command = "DISARM"
    <3>1. armed' = FALSE /\ deed' = p.id
      BY <1>8, <2>2 DEF Executed
    <3>2. commands' = commands
      OBVIOUS
    <3>3. QED
      BY <1>3, <2>2, <3>1, <3>2 DEF ArmedByDeed
  <2>3. CASE p.command \notin Executed
    BY <1>8, <2>3 DEF ArmedByDeed, Executed, GroundInv
  <2>4. QED
    BY <2>1, <2>2, <2>3 DEF Executed
<1>11. Truthful(e)'
  BY <1>3, <1>4, <1>6, <1>8 DEF Truthful
<1>12. ASSUME NEW j \in 1 .. Len(down) PROVE Promised(down[j], e)
  <2>1. Unanswered(p, down[j])
    BY <1>2 DEF GroundInv, CommandsWait
  <2>2. QED
    BY <1>2, <1>6, <2>1 DEF Unanswered, Promised
<1>13. ASSUME NEW i \in 1 .. Len(up')
       PROVE  Unanswered(up'[i], e) /\ (up'[i].kind = "command" => deed' < up'[i].id)
  <2>1. Newer(p, up'[i]) /\ Asked(up'[i])
    BY <1>2 DEF GroundInv, CommandsWait
  <2>2. QED
    BY <1>2, <1>6, <1>8, <2>1 DEF Newer, Unanswered, Asked
<1>14. QED
  BY <1>2, <1>7, <1>8, <1>9, <1>10, <1>11, <1>12, <1>13, DroneSays

LEMMA TimerStep ==
    ASSUME GroundInv, NEW k \in 1 .. 3, down' = Append(down, Telemetry(k)),
           UNCHANGED <<up, sealed, resets, deed, armed, commands, acked, gcs_seq>>
    PROVE  GroundInv'
<1>1. PICK e : e = Telemetry(k)
  OBVIOUS
<1>2. resets \in Nat /\ deed \in 0 .. Len(commands) /\ Len(commands) \in Nat
  BY LenProperties DEF GroundInv, Queues
<1>3. /\ e \in DownPacket /\ e.boot = resets /\ e.kind # "ack"
      /\ e.kind = "heartbeat" => e.mode = Mode(armed) /\ e.deed = deed
  <2>1. CASE k = 1
    <3>1. e = [kind |-> "heartbeat", boot |-> resets, mode |-> Mode(armed), deed |-> deed]
      BY <1>1, <2>1 DEF Telemetry, Timers
    <3>2. Mode(armed) \in {"armed", "disarmed"} /\ deed \in Nat
      BY <1>2 DEF Mode
    <3>3. QED
      BY <1>2, <3>1, <3>2 DEF DownPacket
  <2>2. CASE k # 1
    <3>1. \E kind \in {"attitude", "gps"} : e = [kind |-> kind, boot |-> resets]
      BY <1>1, <2>2 DEF Telemetry, Timers
    <3>2. QED
      BY <1>2, <3>1 DEF DownPacket
  <2>3. QED
    BY <2>1, <2>2
<1>4. Mode(armed) = Mode(deed # 0 /\ commands[deed] = "ARM")
  BY DEF GroundInv, ArmedByDeed
<1>5. Truthful(e)'
  BY <1>2, <1>3, <1>4 DEF Truthful
<1>6. ASSUME NEW j \in 1 .. Len(down) PROVE Promised(down[j], e)
  <2>1. Truthful(down[j])
    BY DEF GroundInv, DroneTells
  <2>2. QED
    BY <1>2, <1>3, <2>1 DEF Truthful, Promised
<1>7. ASSUME NEW i \in 1 .. Len(up)
      PROVE  Unanswered(up[i], e) /\ (up[i].kind = "command" => deed < up[i].id)
  BY <1>3 DEF GroundInv, CommandsWait, Asked, Unanswered
<1>8. up \in Seq(UpPacket) /\ Shortened(up, up)
  BY SameShortens DEF GroundInv, Queues
<1>9. ArmedByDeed'
  BY DEF GroundInv, ArmedByDeed
<1>10. up' = up /\ deed' = deed /\ deed =< deed /\ down' = Append(down, e)
  BY <1>1, <1>2
<1>11. QED
  BY <1>2, <1>3, <1>5, <1>6, <1>7, <1>8, <1>9, <1>10, DroneSays

LEMMA ReceiveStep == ASSUME GroundInv, Receive PROVE GroundInv'
<1>1. PICK p : p = Head(down)
  OBVIOUS
<1>2. /\ down # <<>> /\ down' = Tail(down)
      /\ acked' = IF p.kind = "ack" THEN p.id ELSE acked
      /\ UNCHANGED <<up, sealed, resets, deed, armed, commands, gcs_seq>>
  BY <1>1 DEF Receive, drone
<1>3. /\ p \in DownPacket /\ p = down[1] /\ 1 \in 1 .. Len(down) /\ down' \in Seq(DownPacket)
      /\ \A i \in 1 .. Len(down') :
            i + 1 \in 1 .. Len(down) /\ 1 < i + 1 /\ down'[i] = down[i + 1]
      /\ Len(down') \in Nat
  BY <1>1, <1>2, QueueTail, LenProperties DEF GroundInv, Queues
<1>4. Truthful(p)
  BY <1>3 DEF GroundInv, DroneTells
<1>5. Queues' /\ ArmedByDeed'
  <2>1. acked' \in 0 .. Len(commands)
    BY <1>2, <1>4 DEF Truthful, GroundInv, Queues
  <2>2. QED
    BY <1>2, <1>3, <2>1 DEF GroundInv, Queues, ArmedByDeed
<1>6. CommandsWait'
  <2>1. ASSUME NEW i \in 1 .. Len(up) PROVE Asked(up[i])'
    <3>1. Asked(up[i]) /\ Unanswered(up[i], p)
      BY <1>3 DEF GroundInv, CommandsWait
    <3>2. QED
      BY <1>2, <3>1 DEF Asked, Unanswered
  <2>2. \A i \in 1 .. Len(up), j \in 1 .. Len(down') : Unanswered(up[i], down'[j])
    BY <1>3 DEF GroundInv, CommandsWait
  <2>3. QED
    BY <1>2, <2>1, <2>2 DEF GroundInv, CommandsWait, Newer, Unanswered
<1>7. DroneTells'
  <2>1. ASSUME NEW j \in 1 .. Len(down') PROVE Truthful(down[j])'
    <3>1. PICK q : q = down'[j]
      OBVIOUS
    <3>2. Truthful(q) /\ Promised(p, q)
      BY <1>3, <3>1 DEF GroundInv, DroneTells
    <3>3. p.kind = "ack" /\ q.kind = "ack" => p.id < q.id
      BY <1>4, <3>2 DEF Promised, Truthful
    <3>4. Truthful(q)'
      BY <1>2, <3>2, <3>3 DEF Truthful
    <3>5. QED
      BY <3>1, <3>4 DEF Truthful
  <2>2. ASSUME NEW i \in 1 .. Len(down'), NEW j \in 1 .. Len(down'), i < j
        PROVE  Promised(down'[i], down'[j])
    <3>1. i + 1 < j + 1
      BY <1>3, <2>2
    <3>2. QED
      BY <1>3, <3>1 DEF GroundInv, DroneTells
  <2>3. QED
    BY <2>1, <2>2 DEF DroneTells, Promised
<1>8. QED
  BY <1>5, <1>6, <1>7 DEF GroundInv
LEMMA DrainStep == ASSUME GroundInv, Drain PROVE GroundInv'
<1>1. /\ up # <<>> /\ up' = Tail(up)
      /\ UNCHANGED <<sealed, resets, commands, acked, gcs_seq>>
      /\ \/ UNCHANGED <<armed, deed, down>>
         \/ Head(up).kind = "command" /\ Handle(Head(up))
  BY DEF Drain, station
<1>2. CASE UNCHANGED <<armed, deed, down>>
  <2>1. up \in Seq(UpPacket) /\ down \in Seq(DownPacket)
    BY DEF GroundInv, Queues
  <2>2. /\ up' \in Seq(UpPacket) /\ Shortened(up, up')
        /\ down' \in Seq(DownPacket) /\ Shortened(down, down')
    BY <1>1, <1>2, <2>1, QueueTail, TailShortens, SameShortens
  <2>3. QED
    BY <1>1, <1>2, <2>2, LessOnTheLine
<1>3. CASE Head(up).kind = "command" /\ Handle(Head(up))
  BY <1>1, <1>3, HandleStep
<1>4. QED
  BY <1>1, <1>2, <1>3

(* A packet less on the line, or nothing but time.                         *)
LEMMA LineStep ==
    ASSUME GroundInv, UNCHANGED <<sealed, resets, deed, armed, commands, acked, gcs_seq>>,
           up' = up \/ (up # <<>> /\ up' = Tail(up)),
           down' = down \/ (down # <<>> /\ down' = Tail(down))
    PROVE  GroundInv'
<1>1. up \in Seq(UpPacket) /\ down \in Seq(DownPacket)
  BY DEF GroundInv, Queues
<1>2. ASSUME NEW S, NEW q \in Seq(S), NEW r, r = q \/ (q # <<>> /\ r = Tail(q))
      PROVE  r \in Seq(S) /\ Shortened(q, r)
  <2>1. CASE r = q
    BY <1>2, <2>1, SameShortens
  <2>2. CASE q # <<>> /\ r = Tail(q)
    BY <1>2, <2>2, QueueTail, TailShortens
  <2>3. QED
    BY <1>2, <2>1, <2>2
<1>3. up' \in Seq(UpPacket) /\ Shortened(up, up')
  BY <1>1, <1>2
<1>4. down' \in Seq(DownPacket) /\ Shortened(down, down')
  BY <1>1, <1>2
<1>5. QED
  BY <1>3, <1>4, LessOnTheLine

(* A reset empties what was on its way to the drone, and what the drone    *)
(* said before promises nothing for the next start.                        *)
LEMMA RebootStep ==
    ASSUME GroundInv, Reboot, down' = down \/ down' = <<>>,
           sealed' \in BOOLEAN, gcs_seq' \in Nat, UNCHANGED <<commands, acked>>
    PROVE  GroundInv'
<1>1. armed' = FALSE /\ deed' = 0 /\ up' = <<>> /\ resets' = resets + 1
  BY DEF Reboot
<1>2. /\ up' \in Seq(UpPacket) /\ down' \in Seq(DownPacket)
      /\ 1 .. Len(up') = {} /\ resets \in Nat /\ resets' \in Nat
      /\ Len(commands) \in Nat
  <2>1. \A S : <<>> \in Seq(S)
    BY EmptySeq
  <2>2. down \in Seq(DownPacket) /\ commands \in Seq(Commands) /\ resets \in Nat
    BY DEF GroundInv, Queues
  <2>3. 1 .. Len(up') = {}
    BY <1>1
  <2>4. Len(commands) \in Nat
    BY <2>2, LenProperties
  <2>5. up' \in Seq(UpPacket) /\ down' \in Seq(DownPacket)
    BY <1>1, <2>1, <2>2
  <2>6. QED
    BY <1>1, <2>2, <2>3, <2>4, <2>5
<1>3. Queues' /\ ArmedByDeed'
  <2>1. /\ commands' = commands /\ acked' = acked /\ commands \in Seq(Commands)
        /\ acked \in 0 .. Len(commands)
    BY DEF GroundInv, Queues
  <2>2. deed' \in 0 .. Len(commands)
    BY <1>1, <1>2
  <2>3. Queues'
    BY <1>2, <2>1, <2>2 DEF Queues
  <2>4. QED
    BY <1>1, <2>3 DEF ArmedByDeed
<1>4. CommandsWait'
  BY <1>2 DEF CommandsWait
<1>5. DroneTells'
  <2>1. CASE down' = <<>>
    <3>1. 1 .. Len(down') = {}
      BY <2>1, EmptySeq
    <3>2. QED
      BY <3>1 DEF DroneTells
  <2>2. CASE down' = down
    <3>1. ASSUME NEW j \in 1 .. Len(down') PROVE Truthful(down[j])'
      <4>1. PICK p : p = down[j]
        OBVIOUS
      <4>2. Truthful(p)
        BY <2>2, <3>1, <4>1 DEF GroundInv, DroneTells
      <4>3. p.boot \in 0 .. resets' /\ p.boot # resets'
        BY <1>1, <1>2, <4>2 DEF Truthful
      <4>4. Truthful(p)'
        BY <4>2, <4>3 DEF Truthful
      <4>5. QED
        BY <2>2, <4>1, <4>4 DEF Truthful
    <3>2. QED
      BY <2>2, <3>1 DEF GroundInv, DroneTells, Promised
  <2>3. QED
    BY <2>1, <2>2
<1>6. QED
  BY <1>3, <1>4, <1>5 DEF GroundInv

LEMMA RestartStep == ASSUME GroundInv, Restart PROVE GroundInv'
<1>1. /\ sealed' \in BOOLEAN /\ gcs_seq' = 0 /\ down' = <<>>
      /\ UNCHANGED <<commands, acked>>
      /\ Reboot \/ UNCHANGED <<armed, deed, resets, up>>
  BY GroundConsts DEF Restart, drone
<1>2. CASE Reboot
  BY <1>1, <1>2, RebootStep
<1>3. CASE UNCHANGED <<armed, deed, resets, up>>
  <2>1. down' \in Seq(DownPacket) /\ 1 .. Len(down') = {}
    BY <1>1, EmptySeq
  <2>2. Queues' /\ ArmedByDeed'
    BY <1>1, <1>3, <2>1 DEF GroundInv, Queues, ArmedByDeed
  <2>3. CommandsWait'
    <3>1. ASSUME NEW i \in 1 .. Len(up') PROVE Asked(up[i])'
      BY <1>1, <1>3, <3>1 DEF GroundInv, CommandsWait, Asked
    <3>2. QED
      BY <1>1, <1>3, <2>1, <3>1 DEF GroundInv, CommandsWait, Newer
  <2>4. DroneTells'
    BY <2>1 DEF DroneTells
  <2>5. QED
    BY <2>2, <2>3, <2>4 DEF GroundInv
<1>4. QED
  BY <1>1, <1>2, <1>3

(* The ground station sends: a heartbeat, or a command newer than all.     *)
LEMMA SendStep ==
    ASSUME GroundInv, NEW kind \in {"heartbeat", "command"},
           NEW command \in Commands \cup {"none"}, Send(kind, command),
           \/ kind = "heartbeat" /\ commands' = commands
           \/ /\ kind = "command" /\ command \in Commands
              /\ commands' = Append(commands, command),
           UNCHANGED <<down, sealed, resets, deed, armed, acked>>
    PROVE  GroundInv'
<1>1. PICK e : e = [kind |-> kind, command |-> command, sealed |-> sealed,
                    seq |-> gcs_seq % SeqWrap, id |-> Len(commands')]
  OBVIOUS
<1>2. /\ commands' \in Seq(Commands) /\ Len(commands) \in Nat /\ Len(commands') \in Nat
      /\ Len(commands) =< Len(commands')
      /\ \A n \in 1 .. Len(commands) : commands'[n] = commands[n]
      /\ kind = "command" =>
            /\ Len(commands') = Len(commands) + 1
            /\ commands'[Len(commands')] = command
  <2>1. commands \in Seq(Commands)
    BY DEF GroundInv, Queues
  <2>2. CASE kind = "heartbeat" /\ commands' = commands
    BY <2>1, <2>2, LenProperties
  <2>3. CASE kind = "command" /\ command \in Commands /\ commands' = Append(commands, command)
    BY <2>1, <2>3, QueueAppend
  <2>4. QED
    BY <2>2, <2>3
<1>3. gcs_seq \in Nat /\ gcs_seq % SeqWrap \in Seqs
  <2>1. gcs_seq \in Nat
    BY DEF GroundInv, Queues
  <2>2. gcs_seq % SeqWrap \in 0 .. SeqWrap - 1
    BY <2>1, GroundConsts
  <2>3. QED
    BY <2>1, <2>2, GroundConsts
<1>4. e \in UpPacket /\ e.kind = kind /\ e.command = command /\ e.id = Len(commands')
  BY <1>1, <1>2, <1>3 DEF UpPacket, GroundInv, Queues
<1>5. up \in Seq(UpPacket) /\ up' = Append(up, e) /\ gcs_seq' = gcs_seq + 1
  BY <1>1 DEF Send, GroundInv, Queues
<1>6. /\ up' \in Seq(UpPacket) /\ Len(up) \in Nat /\ Len(up') = Len(up) + 1
      /\ up'[Len(up) + 1] = e
      /\ \A i \in 1 .. Len(up) : up'[i] = up[i]
      /\ \A i \in 1 .. Len(up') : i = Len(up) + 1 \/ i \in 1 .. Len(up)
  BY <1>4, <1>5, QueueAppend
<1>7. deed \in 0 .. Len(commands) /\ acked \in 0 .. Len(commands)
  BY DEF GroundInv, Queues
<1>8. Queues'
  BY <1>2, <1>3, <1>5, <1>6, <1>7 DEF GroundInv, Queues
<1>9. ArmedByDeed'
  BY <1>2, <1>7 DEF GroundInv, ArmedByDeed
<1>10. ASSUME NEW i \in 1 .. Len(up) PROVE Asked(up[i]) /\ Asked(up[i])'
  <2>1. PICK p : p = up[i]
    OBVIOUS
  <2>2. Asked(p)
    BY <2>1 DEF GroundInv, CommandsWait
  <2>3. Asked(p)'
    BY <1>2, <2>2 DEF Asked
  <2>4. QED
    BY <1>6, <2>1, <2>2, <2>3 DEF Asked
<1>11. CommandsWait'
  <2>1. ASSUME NEW i \in 1 .. Len(up') PROVE Asked(up[i])'
    <3>1. CASE i = Len(up) + 1
      <4>1. Asked(e)'
        BY <1>2, <1>4, <1>7 DEF Asked
      <4>2. QED
        BY <1>6, <3>1, <4>1 DEF Asked
    <3>2. CASE i \in 1 .. Len(up)
      BY <1>10, <3>2
    <3>3. QED
      BY <1>6, <3>1, <3>2
  <2>2. ASSUME NEW i \in 1 .. Len(up'), NEW j \in 1 .. Len(up'), i < j
        PROVE  Newer(up'[i], up'[j])
    <3>1. i \in 1 .. Len(up)
      BY <1>6, <2>2
    <3>2. CASE j = Len(up) + 1
      <4>1. Asked(up[i])
        BY <1>10, <3>1
      <4>2. kind = "command" /\ up[i].kind = "command" => up[i].id < e.id
        BY <1>2, <1>4, <4>1 DEF Asked
      <4>3. QED
        BY <1>4, <1>6, <3>1, <3>2, <4>2 DEF Newer
    <3>3. CASE j \in 1 .. Len(up)
      BY <1>6, <2>2, <3>1, <3>3 DEF GroundInv, CommandsWait
    <3>4. QED
      BY <1>6, <3>2, <3>3
  <2>3. ASSUME NEW i \in 1 .. Len(up'), NEW j \in 1 .. Len(down)
        PROVE  Unanswered(up'[i], down[j])
    <3>1. CASE i = Len(up) + 1
      <4>1. Truthful(down[j])
        BY DEF GroundInv, DroneTells
      <4>2. QED
        BY <1>2, <1>4, <1>6, <3>1, <4>1 DEF Truthful, Unanswered
    <3>2. CASE i \in 1 .. Len(up)
      BY <1>6, <3>2 DEF GroundInv, CommandsWait
    <3>3. QED
      BY <1>6, <3>1, <3>2
  <2>4. QED
    BY <2>1, <2>2, <2>3 DEF CommandsWait, Newer, Unanswered
<1>12. DroneTells'
  <2>1. ASSUME NEW j \in 1 .. Len(down) PROVE Truthful(down[j])'
    <3>1. PICK p : p = down[j]
      OBVIOUS
    <3>2. Truthful(p)
      BY <3>1 DEF GroundInv, DroneTells
    <3>3. Truthful(p)'
      <4>1. p.kind = "ack" => p.id \in 1 .. Len(commands') /\ p.command = commands'[p.id]
        BY <1>2, <3>2 DEF Truthful
      <4>2. p.kind = "heartbeat" =>
              /\ p.deed \in 0 .. Len(commands')
              /\ p.mode = Mode(p.deed # 0 /\ commands'[p.deed] = "ARM")
        <5>1. ASSUME p.kind = "heartbeat"
              PROVE  /\ p.deed \in 0 .. Len(commands)
                     /\ p.mode = Mode(p.deed # 0 /\ commands[p.deed] = "ARM")
          BY <3>2, <5>1 DEF Truthful
        <5>2. ASSUME p.kind = "heartbeat", p.deed # 0
              PROVE  commands'[p.deed] = commands[p.deed]
          BY <1>2, <5>1, <5>2
        <5>3. QED
          BY <1>2, <5>1, <5>2 DEF Mode
      <4>3. QED
        BY <3>2, <4>1, <4>2 DEF Truthful
    <3>4. QED
      BY <3>1, <3>3 DEF Truthful
  <2>2. QED
    BY <2>1 DEF GroundInv, DroneTells, Promised
<1>13. QED
  BY <1>8, <1>9, <1>11, <1>12 DEF GroundInv

LEMMA GroundStep == GroundInv /\ [GroundNext]_ground_vars => GroundInv'
<1> SUFFICES ASSUME GroundInv, [GroundNext]_ground_vars PROVE GroundInv'
  OBVIOUS
<1>1. CASE ReadClock
  BY <1>1, LineStep DEF ReadClock, line
<1>2. CASE Drain
  BY <1>2, DrainStep
<1>3. CASE Drained
  BY <1>3, LineStep DEF Drained, station, line
<1>4. ASSUME NEW k \in 1 .. 3, Timer(k) PROVE GroundInv'
  <2>1. /\ UNCHANGED <<up, sealed, resets, deed, armed, commands, acked, gcs_seq>>
        /\ down' = down \/ down' = Append(down, Telemetry(k))
    BY <1>4 DEF Timer, station
  <2>2. QED
    BY <2>1, TimerStep, LineStep
<1>5. CASE DroneReset
  BY <1>5, RebootStep DEF DroneReset, station, GroundInv, Queues
<1>6. CASE Beat
  BY <1>6, SendStep DEF Beat, drone
<1>7. ASSUME NEW command \in Commands, Key(command) PROVE GroundInv'
  BY <1>7, SendStep DEF Key, drone
<1>8. CASE Receive
  BY <1>8, ReceiveStep
<1>9. CASE Restart
  BY <1>9, RestartStep
<1>10. CASE LoseUp
  BY <1>10, LineStep DEF LoseUp, drone, station
<1>11. CASE LoseDown
  BY <1>11, LineStep DEF LoseDown, drone, station
<1>12. CASE UNCHANGED ground_vars
  BY <1>12, LineStep DEF ground_vars, drone, station, line
<1>13. QED
  BY <1>1, <1>2, <1>3, <1>4, <1>5, <1>6, <1>7, <1>8, <1>9, <1>10, <1>11, <1>12
  DEF GroundNext, Loop

(* The window holds the packet accepted last, and a line of finite length  *)
(* is never overrun.                                                       *)
GroundKept ==
    GroundTypeOK /\ GroundInv /\ (g_parser.replay_init => 0 \in g_parser.replay_window)

LEMMA GroundNumbers ==
    /\ Clock \in Nat /\ Clock > 0 /\ MaxLine \in Nat /\ MaxLine > 0 /\ LoopTime \in Nat
    /\ FreshReplay \in Replay /\ ~FreshReplay.replay_init
    /\ \A k \in 1 .. 3 : Timers[k] \in {"now", "drain", "heartbeat", "attitude", "gps"}
<1>1. /\ Heartbeat \in 1 .. Clock - 1 /\ MaxLine \in Nat \ {0} /\ LoopTime \in Nat \ {0}
  BY GroundAssumption
<1>2. FreshReplay \in Replay /\ ~FreshReplay.replay_init
  BY WindowConsts DEF FreshReplay, Replay
<1>3. \A k \in 1 .. 3 : Timers[k] \in {"now", "drain", "heartbeat", "attitude", "gps"}
  BY DEF Timers
<1>4. Clock \in Int
  BY GroundAssumption
<1>5. QED
  BY <1>1, <1>2, <1>3, <1>4

LEMMA GroundKeptInit == GroundInit => GroundKept
<1>1. SUFFICES ASSUME GroundInit PROVE GroundKept
  OBVIOUS
<1>2. GroundInv
  BY <1>1, GroundStart
<1>3. /\ at \in {"now", "drain", "heartbeat", "attitude", "gps"}
      /\ now \in 0 .. Clock - 1 /\ last \in [1 .. 3 -> 0 .. Clock - 1]
      /\ armed \in BOOLEAN /\ g_parser \in Replay /\ ~g_parser.replay_init
      /\ view \in {"unknown", "armed", "disarmed"}
  <2>1. 0 \in 0 .. Clock - 1
    BY GroundNumbers
  <2>2. last \in [1 .. 3 -> 0 .. Clock - 1]
    BY <1>1, <2>1 DEF GroundInit
  <2>3. g_parser \in Replay /\ ~g_parser.replay_init
    BY <1>1, GroundNumbers DEF GroundInit
  <2>4. QED
    BY <1>1, <2>1, <2>2, <2>3 DEF GroundInit
<1>4. Len(up) =< MaxLine /\ Len(down) =< MaxLine
  <2>1. up = <<>> /\ down = <<>>
    BY <1>1 DEF GroundInit
  <2>2. QED
    BY <2>1, GroundNumbers
<1>5. QED
  BY <1>2, <1>3, <1>4 DEF GroundKept, GroundTypeOK, GroundInv, Queues

LEMMA DrainKept ==
    ASSUME GroundKept, Drain
    PROVE  /\ g_parser' \in Replay /\ (g_parser'.replay_init => 0 \in g_parser'.replay_window)
           /\ armed' \in BOOLEAN /\ Len(up') =< MaxLine /\ Len(down') =< MaxLine
<1>1. /\ Head(up) \in UpPacket /\ Len(up) \in Nat /\ Len(Tail(up)) = Len(up) - 1
  BY QueueTail DEF Drain, GroundKept, GroundInv, Queues
<1>2. Head(up).seq \in Seqs
  BY <1>1 DEF UpPacket
<1>3. g_parser' = g_parser
      \/ (~Stale(g_parser, Head(up).seq) /\ g_parser' = Accept(g_parser, Head(up).seq))
  BY DEF Drain, Heard
<1>4. g_parser' \in Replay /\ (g_parser'.replay_init => 0 \in g_parser'.replay_window)
  BY <1>2, <1>3, AcceptLemma DEF GroundKept, GroundTypeOK
<1>5. Len(up') =< MaxLine
  BY <1>1, GroundNumbers DEF Drain, GroundKept, GroundTypeOK
<1>6. (armed' = armed /\ down' = down) \/ Handle(Head(up))
  BY DEF Drain
<1>7. CASE armed' = armed /\ down' = down
  BY <1>4, <1>5, <1>7 DEF GroundKept, GroundTypeOK
<1>8. CASE Handle(Head(up))
  <2>1. armed' \in BOOLEAN
    <3>1. armed \in BOOLEAN
      BY DEF GroundKept, GroundTypeOK
    <3>2. armed' \in {TRUE, FALSE, armed}
      BY <1>8 DEF Handle
    <3>3. QED
      BY <3>1, <3>2
  <2>2. Len(down) < MaxLine /\ down' = Append(down, Ack(Head(up)))
    BY <1>8 DEF Handle
  <2>3. Len(down') = Len(down) + 1 /\ Len(down) \in Nat
    BY <2>2, AppendProperties, LenProperties DEF GroundKept, GroundInv, Queues
  <2>4. Len(down') =< MaxLine
    BY <2>2, <2>3, GroundNumbers
  <2>5. QED
    BY <1>4, <1>5, <2>1, <2>4
<1>9. QED
  BY <1>6, <1>7, <1>8

LEMMA TimerKept ==
    ASSUME GroundKept, NEW k \in 1 .. 3, Timer(k)
    PROVE  /\ at' \in {"now", "drain", "heartbeat", "attitude", "gps"}
           /\ last' \in [1 .. 3 -> 0 .. Clock - 1] /\ Len(down') =< MaxLine
<1>1. at' \in {"now", "drain", "heartbeat", "attitude", "gps"}
  <2>1. CASE k = 3
    BY <2>1 DEF Timer
  <2>2. CASE k # 3
    <3>1. at' = Timers[k + 1] /\ k + 1 \in 1 .. 3
      BY <2>2 DEF Timer
    <3>2. QED
      BY <3>1, GroundNumbers
  <2>3. QED
    BY <2>1, <2>2
<1>2. last' \in [1 .. 3 -> 0 .. Clock - 1]
  BY DEF Timer, GroundKept, GroundTypeOK
<1>3. Len(down') =< MaxLine
  <2>1. CASE down' = down
    BY <2>1 DEF GroundKept, GroundTypeOK
  <2>2. CASE Len(down) < MaxLine /\ down' = Append(down, Telemetry(k))
    <3>1. Len(down') = Len(down) + 1 /\ Len(down) \in Nat
      BY <2>2, AppendProperties, LenProperties DEF GroundKept, GroundInv, Queues
    <3>2. QED
      BY <2>2, <3>1, GroundNumbers
  <2>3. QED
    BY <2>1, <2>2 DEF Timer
<1>4. QED
  BY <1>1, <1>2, <1>3

LEMMA RebootKept ==
    ASSUME Reboot
    PROVE  /\ at' \in {"now", "drain", "heartbeat", "attitude", "gps"}
           /\ now' \in 0 .. Clock - 1 /\ last' \in [1 .. 3 -> 0 .. Clock - 1]
           /\ armed' \in BOOLEAN /\ Len(up') =< MaxLine
           /\ g_parser' \in Replay /\ (g_parser'.replay_init => 0 \in g_parser'.replay_window)
<1>1. 0 \in 0 .. Clock - 1 /\ Len(<<>>) =< MaxLine
  BY GroundNumbers
<1>2. QED
  BY <1>1, GroundNumbers DEF Reboot

LEMMA SendKept ==
    ASSUME GroundKept, NEW kind, NEW command, Send(kind, command) PROVE Len(up') =< MaxLine
<1>1. Len(up) < MaxLine /\ Len(up) \in Nat
  BY LenProperties DEF Send, GroundKept, GroundInv, Queues
<1>2. Len(up') = Len(up) + 1
  BY AppendProperties DEF Send, GroundKept, GroundInv, Queues
<1>3. QED
  BY <1>1, <1>2, GroundNumbers

LEMMA ShorterKept ==
    ASSUME NEW S, NEW q \in Seq(S), q # <<>>, Len(q) =< MaxLine PROVE Len(Tail(q)) =< MaxLine
BY QueueTail, GroundNumbers

LEMMA ReceiveKept ==
    ASSUME GroundKept, Receive
    PROVE  view' \in {"unknown", "armed", "disarmed"} /\ Len(down') =< MaxLine
<1>1. Len(down') =< MaxLine
  BY ShorterKept DEF Receive, GroundKept, GroundTypeOK, GroundInv, Queues
<1>2. Head(down) \in DownPacket
  BY QueueTail DEF Receive, GroundKept, GroundInv, Queues
<1>3. Head(down).kind = "heartbeat" => Head(down).mode \in {"armed", "disarmed"}
  BY <1>2 DEF DownPacket
<1>4. view' = IF Head(down).kind = "heartbeat" THEN Head(down).mode ELSE view
  BY DEF Receive
<1>5. view \in {"unknown", "armed", "disarmed"}
  BY DEF GroundKept, GroundTypeOK
<1>6. QED
  BY <1>1, <1>3, <1>4, <1>5

LEMMA GroundKeptStep == GroundKept /\ [GroundNext]_ground_vars => GroundKept'
<1> SUFFICES ASSUME GroundKept, [GroundNext]_ground_vars PROVE GroundKept'
  OBVIOUS
<1>1. GroundInv'
  BY GroundStep DEF GroundKept
<1>2. deed' \in 0 .. Len(commands)' /\ acked' \in 0 .. Len(commands)'
  BY <1>1 DEF GroundInv, Queues
<1> DEFINE Here == at \in {"now", "drain", "heartbeat", "attitude", "gps"}
           Times == now \in 0 .. Clock - 1 /\ last \in [1 .. 3 -> 0 .. Clock - 1]
           Parser == /\ armed \in BOOLEAN /\ g_parser \in Replay
                     /\ g_parser.replay_init => 0 \in g_parser.replay_window
           Up == Len(up) =< MaxLine
           Down == Len(down) =< MaxLine
           Seen == view \in {"unknown", "armed", "disarmed"}
<1>3. now \in 0 .. Clock - 1 /\ last \in [1 .. 3 -> 0 .. Clock - 1] /\ Up /\ Down
  BY DEF GroundKept, GroundTypeOK
<1>4. Here' /\ Times' /\ Parser' /\ Up' /\ Down' /\ Seen' => GroundKept'
  BY <1>1, <1>2 DEF GroundKept, GroundTypeOK
<1>5. /\ at' = at => Here'
      /\ UNCHANGED <<now, last>> => Times'
      /\ UNCHANGED <<armed, g_parser>> => Parser'
      /\ up' = up => Up'
      /\ down' = down => Down'
      /\ view' = view => Seen'
  BY DEF GroundKept, GroundTypeOK
<1>6. CASE ReadClock
  <2>1. PICK d \in 1 .. LoopTime : now' = (now + d) % Clock
    BY <1>6 DEF ReadClock
  <2>2. now + d \in Int
    BY <1>3, <2>1, GroundNumbers
  <2>3. now' \in 0 .. Clock - 1
    BY <2>1, <2>2, GroundNumbers
  <2>4. UNCHANGED <<last, armed, g_parser, up, down, view>> /\ at' = "drain"
    BY <1>6 DEF ReadClock, line
  <2>5. Times' /\ Here'
    BY <1>3, <2>3, <2>4
  <2>6. QED
    BY <1>4, <1>5, <2>4, <2>5
<1>7. CASE Drain
  <2>1. UNCHANGED <<at, now, last, view>>
    BY <1>7 DEF Drain, station
  <2>2. Parser' /\ Up' /\ Down'
    BY <1>7, DrainKept
  <2>3. QED
    BY <1>4, <1>5, <2>1, <2>2
<1>8. CASE Drained
  <2>1. at' = Timers[1] /\ UNCHANGED <<now, last, armed, g_parser, up, down, view>>
    BY <1>8 DEF Drained, station, line
  <2>2. Here'
    BY <2>1, GroundNumbers
  <2>3. QED
    BY <1>4, <1>5, <2>1, <2>2
<1>9. ASSUME NEW k \in 1 .. 3, Timer(k) PROVE GroundKept'
  <2>1. UNCHANGED <<now, armed, g_parser, up, view>>
    BY <1>9 DEF Timer, station
  <2>2. Here' /\ Times' /\ Down'
    BY <1>3, <1>9, <2>1, TimerKept
  <2>3. QED
    BY <1>4, <1>5, <2>1, <2>2
<1>10. CASE DroneReset
  <2>1. Reboot /\ UNCHANGED <<down, view>>
    BY <1>10 DEF DroneReset, station
  <2>2. Here' /\ Times' /\ Parser' /\ Up'
    BY <2>1, RebootKept
  <2>3. QED
    BY <1>4, <1>5, <2>1, <2>2
<1>11. CASE Beat
  <2>1. UNCHANGED <<at, now, last, armed, g_parser, down, view>>
    BY <1>11 DEF Beat, drone
  <2>2. Up'
    BY <1>11, SendKept DEF Beat
  <2>3. QED
    BY <1>4, <1>5, <2>1, <2>2
<1>12. ASSUME NEW command \in Commands, Key(command) PROVE GroundKept'
  <2>1. UNCHANGED <<at, now, last, armed, g_parser, down, view>>
    BY <1>12 DEF Key, drone
  <2>2. Up'
    BY <1>12, SendKept DEF Key
  <2>3. QED
    BY <1>4, <1>5, <2>1, <2>2
<1>13. CASE Receive
  <2>1. UNCHANGED <<at, now, last, armed, g_parser, up>>
    BY <1>13 DEF Receive, drone
  <2>2. Seen' /\ Down'
    BY <1>13, ReceiveKept
  <2>3. QED
    BY <1>4, <1>5, <2>1, <2>2
<1>14. CASE Restart
  <2>1. Down' /\ Seen'
    BY <1>14, GroundNumbers DEF Restart
  <2>2. Reboot \/ UNCHANGED <<at, now, last, armed, g_parser, up>>
    BY <1>14 DEF Restart, drone
  <2>3. Here' /\ Times' /\ Parser' /\ Up'
    BY <1>5, <2>2, RebootKept
  <2>4. QED
    BY <1>4, <2>1, <2>3
<1>15. CASE LoseUp
  <2>1. UNCHANGED <<at, now, last, armed, g_parser, down, view>>
    BY <1>15 DEF LoseUp, drone, station
  <2>2. Up'
    BY <1>3, <1>15, ShorterKept DEF LoseUp, GroundKept, GroundInv, Queues
  <2>3. QED
    BY <1>4, <1>5, <2>1, <2>2
<1>16. CASE LoseDown
  <2>1. UNCHANGED <<at, now, last, armed, g_parser, up, view>>
    BY <1>16 DEF LoseDown, drone, station
  <2>2. Down'
    BY <1>3, <1>16, ShorterKept DEF LoseDown, GroundKept, GroundInv, Queues
  <2>3. QED
    BY <1>4, <1>5, <2>1, <2>2
<1>17. CASE UNCHANGED ground_vars
  BY <1>4, <1>5, <1>17 DEF ground_vars, drone, station, line
<1>18. QED
  BY <1>6, <1>7, <1>8, <1>9, <1>10, <1>11, <1>12, <1>13, <1>14, <1>15, <1>16, <1>17
  DEF GroundNext, Loop

(* The drone's clock and timers, its parser, the line and what the ground  *)
(* station shows stay in their ranges: neither queue holds more than       *)
(* MaxLine packets, since a write waits for room, millis() wraps where it  *)
(* must, and only commands that were sent are executed or acknowledged     *)
(* (KestrelDroneESP32_USB.ino, loop; kestrel_gcs_usb.py, main, rx_thread). *)
THEOREM GroundTypes == GroundSpec => []GroundTypeOK
<1>1. GroundKept => GroundTypeOK
  BY DEF GroundKept
<1>2. QED
  BY <1>1, GroundKeptInit, GroundKeptStep, PTL DEF GroundSpec

(* What the drone tells the ground station is what it did, whatever is     *)
(* lost, reset or restarted and however long the line: acknowledgements    *)
(* come one at most for a command, in order and with its result, and a     *)
(* heartbeat says what the last command executed made of g_armed           *)
(* (handle_command, send_cmd_ack and send_heartbeat).                      *)
THEOREM DroneToldAsDone == GroundSpec => []ToldAsDone
<1>1. GroundInv => ToldAsDone
  <2>1. SUFFICES ASSUME GroundInv, NEW i \in 1 .. Len(down),
                        NEW p, p = down[i]
                 PROVE  /\ p.kind = "ack" =>
                              /\ p.id > acked
                              /\ p.command = commands[p.id]
                              /\ p.result = 0 <=> p.command \in {"ARM", "DISARM"}
                        /\ p.kind = "heartbeat" =>
                              p.mode = Mode(p.deed # 0 /\ commands[p.deed] = "ARM")
                        /\ p.kind = "ack" => \A j \in i + 1 .. Len(down) :
                              /\ down[j].kind = "ack" => down[j].id > p.id
                              /\ down[j].kind = "heartbeat" /\ down[j].boot = p.boot
                                 /\ p.result = 0 => down[j].deed >= p.id
    BY DEF ToldAsDone
  <2>2. Truthful(p)
    BY <2>1 DEF GroundInv, DroneTells
  <2>3. p.kind = "ack" => p.id > acked
    BY <2>1, <2>2 DEF Truthful, GroundInv, Queues
  <2>4. ASSUME NEW j \in i + 1 .. Len(down) PROVE Promised(p, down[j]) /\ Truthful(down[j])
    <3>1. down \in Seq(DownPacket) /\ Len(down) \in Nat
      BY <2>1, LenProperties DEF GroundInv, Queues
    <3>2. j \in 1 .. Len(down) /\ i < j
      BY <2>1, <3>1
    <3>3. QED
      BY <2>1, <3>2 DEF GroundInv, DroneTells
  <2>5. ASSUME p.kind = "ack", NEW j \in i + 1 .. Len(down)
        PROVE  /\ down[j].kind = "ack" => down[j].id > p.id
               /\ down[j].kind = "heartbeat" /\ down[j].boot = p.boot
                  /\ p.result = 0 => down[j].deed >= p.id
    <3>1. Promised(p, down[j])
      BY <2>4
    <3>2. QED
      BY <2>5, <3>1 DEF Promised
  <2>6. QED
    BY <2>2, <2>3, <2>5 DEF Truthful, Executed
<1>2. QED
  BY <1>1, GroundStart, GroundStep, PTL DEF GroundSpec

(* A ground station that sets the encrypted bit of every packet.           *)
NothingHeard ==
    /\ GroundInv /\ sealed = TRUE /\ armed = FALSE /\ acked = 0
    /\ \A i \in 1 .. Len(up) : up[i].sealed
    /\ \A j \in 1 .. Len(down) : down[j].kind # "ack"

LEMMA NothingHeardStep ==
    ASSUME Encrypts = {TRUE}, NothingHeard, [GroundNext]_ground_vars PROVE NothingHeard'
<1>1. GroundInv'
  BY GroundStep DEF NothingHeard
<1>2. up \in Seq(UpPacket) /\ down \in Seq(DownPacket)
  BY DEF NothingHeard, GroundInv, Queues
<1> DEFINE Deaf == sealed = TRUE /\ armed = FALSE /\ acked = 0
           Up == \A i \in 1 .. Len(up) : up[i].sealed
           Down == \A j \in 1 .. Len(down) : down[j].kind # "ack"
<1>3. Deaf /\ Up /\ Down
  BY DEF NothingHeard
<1>4. Deaf' /\ Up' /\ Down' => NothingHeard'
  BY <1>1 DEF NothingHeard
<1>5. /\ UNCHANGED <<sealed, armed, acked>> => Deaf'
      /\ up' = up => Up'
      /\ down' = down => Down'
  BY <1>3
<1>6. up # <<>> /\ up' = Tail(up) => Up'
  BY <1>2, <1>3, QueueTail
<1>7. down # <<>> /\ down' = Tail(down) => Down'
  BY <1>2, <1>3, QueueTail
<1>8. (up' = <<>> => Up') /\ (down' = <<>> => Down')
  OBVIOUS
<1>9. CASE Drain
  <2>1. up # <<>> /\ up' = Tail(up) /\ UNCHANGED <<sealed, acked>>
    BY <1>9 DEF Drain, station
  <2>2. Head(up).sealed
    BY <1>2, <1>3, <2>1, QueueTail
  <2>3. UNCHANGED <<armed, down>>
    BY <1>9, <2>2 DEF Drain, Heard
  <2>4. QED
    BY <1>4, <1>5, <1>6, <2>1, <2>3
<1>10. ASSUME NEW k \in 1 .. 3, Timer(k) PROVE NothingHeard'
  <2>1. UNCHANGED <<up, sealed, armed, acked>>
    BY <1>10 DEF Timer, station
  <2>2. Down'
    <3>1. CASE down' = down
      BY <1>5, <3>1
    <3>2. CASE down' = Append(down, Telemetry(k))
      <4>1. Telemetry(k).kind = Timers[k]
        BY DEF Telemetry
      <4>2. Telemetry(k).kind # "ack"
        BY <4>1 DEF Timers
      <4>3. Len(down') = Len(down) + 1 /\ Len(down) \in Nat
        BY <1>2, <3>2, AppendProperties, LenProperties
      <4>4. ASSUME NEW j \in 1 .. Len(down') PROVE down'[j].kind # "ack"
        <5>1. j = Len(down) + 1 \/ j \in 1 .. Len(down)
          BY <4>3
        <5>2. CASE j = Len(down) + 1
          BY <1>2, <3>2, <4>2, <5>2, AppendProperties
        <5>3. CASE j \in 1 .. Len(down)
          BY <1>2, <1>3, <3>2, <5>3, AppendProperties
        <5>4. QED
          BY <5>1, <5>2, <5>3
      <4>5. QED
        BY <4>4
    <3>3. QED
      BY <1>10, <3>1, <3>2 DEF Timer
  <2>3. QED
    BY <1>4, <1>5, <2>1, <2>2
<1>11. ASSUME NEW kind, NEW command, Send(kind, command),
              UNCHANGED <<sealed, armed, acked, down>>
       PROVE  NothingHeard'
  <2>1. PICK e : e = [kind |-> kind, command |-> command, sealed |-> sealed,
                      seq |-> gcs_seq % SeqWrap, id |-> Len(commands')]
    OBVIOUS
  <2>2. up' = Append(up, e) /\ e.sealed
    BY <1>3, <1>11, <2>1 DEF Send
  <2>3. /\ Len(up) \in Nat /\ Len(up') = Len(up) + 1 /\ up'[Len(up) + 1] = e
        /\ \A i \in 1 .. Len(up) : up'[i] = up[i]
    <3>1. up \in Seq(UpPacket \cup {e}) /\ e \in UpPacket \cup {e}
      BY <1>2
    <3>2. QED
      BY <2>2, <3>1, QueueAppend
  <2>4. ASSUME NEW i \in 1 .. Len(up') PROVE up'[i].sealed
    <3>1. i = Len(up) + 1 \/ i \in 1 .. Len(up)
      BY <2>3
    <3>2. QED
      BY <1>3, <2>2, <2>3, <3>1
  <2>5. QED
    BY <1>4, <1>5, <1>11, <2>4
<1>12. CASE Beat
  BY <1>11, <1>12 DEF Beat, drone
<1>13. ASSUME NEW command \in Commands, Key(command) PROVE NothingHeard'
  BY <1>11, <1>13 DEF Key, drone
<1>14. CASE Receive
  <2>1. down # <<>> /\ down' = Tail(down) /\ UNCHANGED <<up, sealed, armed>>
    BY <1>14 DEF Receive, drone
  <2>2. Head(down).kind # "ack"
    BY <1>2, <1>3, <2>1, QueueTail
  <2>3. acked' = acked
    BY <1>14, <2>2 DEF Receive
  <2>4. QED
    BY <1>4, <1>5, <1>7, <2>1, <2>3
<1>15. CASE DroneReset
  <2>1. up' = <<>> /\ armed' = FALSE /\ UNCHANGED <<down, sealed, acked>>
    BY <1>15 DEF DroneReset, Reboot, station
  <2>2. QED
    BY <1>3, <1>4, <1>5, <1>8, <2>1
<1>16. CASE Restart
  <2>1. sealed' = TRUE /\ acked' = acked /\ down' = <<>>
    BY <1>16 DEF Restart
  <2>2. (armed' = FALSE /\ up' = <<>>) \/ UNCHANGED <<armed, up>>
    BY <1>16 DEF Restart, Reboot, drone
  <2>3. QED
    BY <1>3, <1>4, <1>5, <1>8, <2>1, <2>2
<1>17. CASE LoseUp
  BY <1>4, <1>5, <1>6, <1>17 DEF LoseUp, drone, station
<1>18. CASE LoseDown
  BY <1>4, <1>5, <1>7, <1>18 DEF LoseDown, drone, station
<1>19. CASE ReadClock \/ Drained \/ UNCHANGED ground_vars
  BY <1>4, <1>5, <1>19 DEF ReadClock, Drained, ground_vars, drone, station, line
<1>20. QED
  BY <1>9, <1>10, <1>12, <1>13, <1>14, <1>15, <1>16, <1>17, <1>18, <1>19
  DEF GroundNext, Loop

(* Encrypted commands of kestrel_gcs_usb.py are never executed and never   *)
(* acknowledged, however long it runs: build_packet puts the encrypted flag*)
(* where ks_parse_char does not read it, and the drone's CRC test fails.   *)
THEOREM SealedNeverAnswered ==
    Encrypts = {TRUE} /\ GroundSpec => [](~armed /\ acked = 0)
<1> SUFFICES ASSUME Encrypts = {TRUE} PROVE GroundSpec => [](~armed /\ acked = 0)
  OBVIOUS
<1>1. GroundInit => NothingHeard
  <2>1. SUFFICES ASSUME GroundInit PROVE NothingHeard
    OBVIOUS
  <2>2. up = <<>> /\ down = <<>> /\ sealed = TRUE /\ armed = FALSE /\ acked = 0
    BY <2>1 DEF GroundInit
  <2>3. 1 .. Len(up) = {} /\ 1 .. Len(down) = {}
    BY <2>2
  <2>4. QED
    BY <2>1, <2>2, <2>3, GroundStart DEF NothingHeard
<1>2. NothingHeard /\ [GroundNext]_ground_vars => NothingHeard'
  BY NothingHeardStep
<1>3. NothingHeard => ~armed /\ acked = 0
  BY DEF NothingHeard
<1>4. QED
  BY <1>1, <1>2, <1>3, PTL DEF GroundSpec
====
