---- MODULE ReplayWindow_proofs ----
(***************************************************************************)
(* Proofs about ReplayWindow for every window width, counter width and     *)
(* seed: a session re-keyed before half of the counter's range is used up  *)
(* hands over each packet at most once.                                    *)
(***************************************************************************)
EXTENDS ReplayWindow, SequenceTheorems, TLAPS

----
(* Numbering: with at most one rollover, and the skipped value, the i-th   *)
(* packet's place is wire[1] + i - 1 before the rollover and one more      *)
(* after it.                                                               *)
Numbering ==
    /\ \A i \in 1 .. Len(wire) :
          /\ wire[i] < 2 * H - 1
          /\ wire[i] >= wire[1] => wire[i] = wire[1] + i - 1
          /\ wire[i] < wire[1] => wire[i] + 2 * H = wire[1] + i
    /\ Len(wire) > 0 => counter = wire[Len(wire)] + 1

(* Newest(t): t is the latest packet accepted and the bitmap is exactly    *)
(* the set of accepted packets fewer than W places behind it.              *)
Newest(t) ==
    /\ t \in 1 .. Len(wire)
    /\ Delivered(t)
    /\ replay.last_seq = wire[t]
    /\ \A i \in 1 .. Len(wire) : Delivered(i) =>
          /\ i =< t
          /\ Place(t) - Place(i) < W => Place(t) - Place(i) \in replay.replay_window
    /\ \A b \in replay.replay_window :
          \E i \in 1 .. Len(wire) : Delivered(i) /\ Place(t) - Place(i) = b

Tracking ==
    /\ replay.replay_init <=> delivered # <<>>
    /\ delivered # <<>> => \E t \in 1 .. Len(wire) : Newest(t)

IInv == TypeOK /\ Numbering /\ Tracking /\ AtMostOnce

----
(* The arithmetic behind the places of two packets i and j of one session  *)
(* whose first counter is w.                                               *)
Unrolled(w, c) == IF c >= w THEN c ELSE c + 2 * H

LEMMA RolloverArith ==
    ASSUME NEW w \in 0 .. 2 * H - 1,
           NEW c \in 0 .. 2 * H - 1, NEW d \in 0 .. 2 * H - 1,
           NEW i \in Nat, NEW j \in Nat, i > 0, j > 0, i < H, j < H,
           c >= w => c = w + i - 1, c < w => c + 2 * H = w + i,
           d >= w => d = w + j - 1, d < w => d + 2 * H = w + j
    PROVE  /\ Unrolled(w, c) \in Int
           /\ i < j => Unrolled(w, c) < Unrolled(w, d)
           /\ i # j => Unrolled(w, c) # Unrolled(w, d)
           /\ Unrolled(w, c) - Unrolled(w, d) < H
           /\ SDiff(c, d) = Unrolled(w, c) - Unrolled(w, d)
<1>1. H \in Nat
  BY WindowAssumption
<1>2. CASE c >= w /\ d >= w
  BY <1>1, <1>2 DEF Unrolled, SDiff
<1>3. CASE c >= w /\ d < w
  BY <1>1, <1>3 DEF Unrolled, SDiff
<1>4. CASE c < w /\ d >= w
  BY <1>1, <1>4 DEF Unrolled, SDiff
<1>5. CASE c < w /\ d < w
  BY <1>1, <1>5 DEF Unrolled, SDiff
<1>6. QED
  BY <1>1, <1>2, <1>3, <1>4, <1>5

(* Places grow with the packet's number and differ by less than H, so the  *)
(* signed difference the parser computes is the difference of the places.  *)
LEMMA PlaceLemma ==
    ASSUME TypeOK, Numbering, Quota < H,
           NEW i \in 1 .. Len(wire), NEW j \in 1 .. Len(wire)
    PROVE  /\ Place(i) \in Int
           /\ i < j => Place(i) < Place(j)
           /\ i # j => Place(i) # Place(j)
           /\ Place(i) - Place(j) < H
           /\ SDiff(wire[i], wire[j]) = Place(i) - Place(j)
<1> DEFINE n == Len(wire)
<1>1. /\ n \in Nat /\ n =< Quota /\ Quota \in Nat /\ H \in Nat
      /\ \A k \in 1 .. n : wire[k] \in 0 .. 2 * H - 1
  BY SessionAssumption, WindowAssumption DEF TypeOK, Seqs
<1>2. /\ wire[1] \in 0 .. 2 * H - 1 /\ wire[i] \in 0 .. 2 * H - 1
      /\ wire[j] \in 0 .. 2 * H - 1
  BY <1>1
<1>3. /\ wire[i] >= wire[1] => wire[i] = wire[1] + i - 1
      /\ wire[i] < wire[1] => wire[i] + 2 * H = wire[1] + i
      /\ wire[j] >= wire[1] => wire[j] = wire[1] + j - 1
      /\ wire[j] < wire[1] => wire[j] + 2 * H = wire[1] + j
  BY DEF Numbering
<1>4. i \in 1 .. n /\ j \in 1 .. n
  OBVIOUS
<1>5. /\ i \in Nat /\ j \in Nat /\ i < H /\ j < H /\ i > 0 /\ j > 0
  BY <1>1, <1>4, Quota < H
<1>6. /\ Place(i) = Unrolled(wire[1], wire[i])
      /\ Place(j) = Unrolled(wire[1], wire[j])
  BY DEF Place, Unrolled
<1>7. /\ Unrolled(wire[1], wire[i]) \in Int
      /\ i < j => Unrolled(wire[1], wire[i]) < Unrolled(wire[1], wire[j])
      /\ i # j => Unrolled(wire[1], wire[i]) # Unrolled(wire[1], wire[j])
      /\ Unrolled(wire[1], wire[i]) - Unrolled(wire[1], wire[j]) < H
      /\ SDiff(wire[i], wire[j]) =
            Unrolled(wire[1], wire[i]) - Unrolled(wire[1], wire[j])
  BY <1>2, <1>3, <1>5, RolloverArith, SMTT(30)
<1>8. QED
  BY <1>6, <1>7

(* The first place is the seed, so a session is numbered from its start.   *)
LEMMA InitIInv == Init => IInv
<1> SUFFICES ASSUME Init PROVE IInv
  OBVIOUS
<1>1. TypeOK
  BY SessionAssumption, WindowAssumption
  DEF Init, TypeOK, Seqs, Replay, FreshReplay
<1>2. Numbering
  BY DEF Init, Numbering
<1>3. Tracking /\ AtMostOnce
  BY DEF Init, Tracking, AtMostOnce, FreshReplay
<1>4. QED
  BY <1>1, <1>2, <1>3 DEF IInv

(* Accept keeps the type of the replay fields, also when a packet fewer    *)
(* than W places behind sets a bit.                                        *)
LEMMA AcceptType ==
    ASSUME NEW r \in Replay, NEW s \in Seqs, ~Stale(r, s),
           SDiff(s, r.last_seq) # -H
    PROVE  Accept(r, s) \in Replay
<1> DEFINE d == SDiff(s, r.last_seq)
<1>1. /\ W \in Nat \ {0} /\ H \in Nat /\ W < H /\ d \in Int
      /\ r.last_seq \in Seqs
  BY WindowAssumption DEF SDiff, Seqs, Replay
<1>2. CASE r.replay_init /\ d <= 0
  <2>1. -d < W
    BY <1>1, <1>2 DEF Stale, Back
  <2>2. -d \in 0 .. W - 1
    BY <1>1, <1>2, <2>1
  <2>3. Accept(r, s) = [r EXCEPT !.replay_window = @ \cup {-d}]
    BY <1>2 DEF Accept
  <2>4. QED
    BY <2>2, <2>3 DEF Replay
<1>3. CASE ~(r.replay_init /\ d <= 0)
  <2>1. (IF r.replay_init THEN Shifted(r.replay_window, d) ELSE {}) \subseteq 0 .. W - 1
    BY DEF Shifted
  <2>2. {0} \subseteq 0 .. W - 1
    BY <1>1
  <2>3. Accept(r, s) =
          [replay_init |-> TRUE, last_seq |-> s,
           replay_window |->
             {0} \cup (IF r.replay_init THEN Shifted(r.replay_window, d) ELSE {})]
    BY <1>3 DEF Accept
  <2>4. QED
    BY <2>1, <2>2, <2>3 DEF Replay
<1>4. QED
  BY <1>2, <1>3

(* The counter after c, the n-th one of a session whose first counter is w.*)
LEMMA NextArith ==
    ASSUME NEW w \in 0 .. 2 * H - 2, NEW c \in 0 .. 2 * H - 2,
           NEW n \in Nat, n > 0, n < H - 1,
           c >= w => c = w + n - 1, c < w => c + 2 * H = w + n,
           NEW e, e = IF c = 2 * H - 2 THEN 0 ELSE c + 1
    PROVE  /\ e >= w => e = w + n
           /\ e < w => e + 2 * H = w + n + 1
<1>1. H \in Nat
  BY WindowAssumption
<1>2. CASE c = 2 * H - 2
  BY <1>1, <1>2
<1>3. CASE c # 2 * H - 2
  <2>1. e = c + 1
    BY <1>3
  <2>2. CASE c >= w
    BY <1>1, <1>3, <2>1, <2>2
  <2>3. CASE c < w
    BY <1>1, <1>3, <2>1, <2>3
  <2>4. QED
    BY <1>1, <2>2, <2>3
<1>4. QED
  BY <1>2, <1>3

(* Sending keeps the numbering: the next counter is the next place, or 0   *)
(* with the skipped value when the counter rolls over.                     *)
LEMMA SendIInv == ASSUME IInv, Quota < H, Send PROVE IInv'
<1> DEFINE n == Len(wire)
<1>1. /\ n \in Nat /\ Quota \in Nat /\ H \in Nat \ {0} /\ n < Quota
      /\ wire \in Seq(Seqs) /\ counter \in Seqs
      /\ Issued \in 0 .. 2 * H - 2
  BY SessionAssumption, WindowAssumption
  DEF Send, IInv, TypeOK, Seqs, Issued
<1>2. /\ wire' = Append(wire, Issued) /\ counter' = Issued + 1
      /\ replay' = replay /\ delivered' = delivered
  BY DEF Send
<1>3. /\ wire' \in Seq(Seqs) /\ Len(wire') = n + 1
      /\ wire'[n + 1] = Issued
      /\ \A i \in 1 .. n : wire'[i] = wire[i]
  <2>1. Issued \in Seqs
    BY <1>1 DEF Seqs
  <2>2. QED
    BY <1>1, <1>2, <2>1
<1>4. TypeOK'
  <2>1. delivered \in Seq(1 .. n) /\ 1 .. n \subseteq 1 .. n + 1
    BY <1>1 DEF IInv, TypeOK
  <2>2. delivered' \in Seq(1 .. Len(wire'))
    BY <1>2, <1>3, <2>1, SeqMonotonic
  <2>3. counter' \in Seqs /\ Len(wire') =< Quota
    BY <1>1, <1>2, <1>3 DEF Seqs
  <2>4. QED
    BY <1>2, <1>3, <2>2, <2>3 DEF IInv, TypeOK
<1>5. Numbering'
  <2>1. \A i \in 1 .. n :
           /\ wire[i] < 2 * H - 1
           /\ wire[i] >= wire[1] => wire[i] = wire[1] + i - 1
           /\ wire[i] < wire[1] => wire[i] + 2 * H = wire[1] + i
    BY DEF IInv, Numbering
  <2>2. \A i \in 1 .. n :
           /\ wire'[i] < 2 * H - 1
           /\ wire'[i] >= wire'[1] => wire'[i] = wire'[1] + i - 1
           /\ wire'[i] < wire'[1] => wire'[i] + 2 * H = wire'[1] + i
    BY <1>1, <1>3, <2>1
  <2>3. CASE n = 0
    BY <1>1, <1>2, <1>3, <2>2, <2>3 DEF Numbering
  <2>4. CASE n > 0
    <3>1. /\ 1 \in 1 .. n /\ n \in 1 .. n
          /\ wire[1] \in 0 .. 2 * H - 2 /\ wire[n] \in 0 .. 2 * H - 2
      <4>1. 1 \in 1 .. n /\ n \in 1 .. n
        BY <1>1, <2>4
      <4>2. wire[1] \in Seqs /\ wire[n] \in Seqs
        BY <1>1, <4>1, ElementOfSeq
      <4>3. QED
        BY <1>1, <2>1, <4>1, <4>2 DEF Seqs
    <3>2. counter = wire[n] + 1
      BY <2>4 DEF IInv, Numbering
    <3>3. Issued = IF wire[n] = 2 * H - 2 THEN 0 ELSE wire[n] + 1
      BY <1>1, <3>1, <3>2 DEF Issued
    <3>4. /\ wire[n] >= wire[1] => wire[n] = wire[1] + n - 1
          /\ wire[n] < wire[1] => wire[n] + 2 * H = wire[1] + n
      BY <2>1, <3>1
    <3>5. /\ Issued >= wire[1] => Issued = wire[1] + n
          /\ Issued < wire[1] => Issued + 2 * H = wire[1] + n + 1
      BY <1>1, <2>4, <3>1, <3>3, <3>4, Quota < H, NextArith
    <3>6. /\ wire'[n + 1] < 2 * H - 1
          /\ wire'[n + 1] >= wire'[1] => wire'[n + 1] = wire'[1] + (n + 1) - 1
          /\ wire'[n + 1] < wire'[1] => wire'[n + 1] + 2 * H = wire'[1] + (n + 1)
      BY <1>1, <1>3, <3>1, <3>5, SMTT(30)
    <3>7. QED
      BY <1>1, <1>2, <1>3, <2>2, <3>6 DEF Numbering
  <2>5. QED
    BY <1>1, <2>3, <2>4
<1>6. Tracking'
  <2>1. ASSUME NEW i PROVE Delivered(i)' <=> Delivered(i)
    BY <1>2 DEF Delivered
  <2>2. ASSUME NEW i, Delivered(i) PROVE i \in 1 .. n
    BY <2>2, ElementOfSeq DEF Delivered, IInv, TypeOK
  <2>3. ASSUME NEW i \in 1 .. n PROVE Place(i)' = Place(i)
    BY <1>1, <1>3, <2>3 DEF Place
  <2>4. ASSUME NEW t \in 1 .. n, Newest(t) PROVE Newest(t)'
    <3>1. t \in 1 .. Len(wire') /\ Delivered(t)' /\ replay.last_seq' = wire'[t]
      BY <1>1, <1>2, <1>3, <2>1, <2>4 DEF Newest
    <3>2. ASSUME NEW i \in 1 .. Len(wire'), Delivered(i)'
          PROVE  /\ i =< t
                 /\ Place(t)' - Place(i)' < W =>
                       Place(t)' - Place(i)' \in replay'.replay_window
      BY <1>2, <2>1, <2>2, <2>3, <2>4, <3>2 DEF Newest
    <3>3. ASSUME NEW b \in replay'.replay_window
          PROVE  \E i \in 1 .. Len(wire') : Delivered(i)' /\ Place(t)' - Place(i)' = b
      <4>1. PICK i \in 1 .. n : Delivered(i) /\ Place(t) - Place(i) = b
        BY <1>2, <2>4, <3>3 DEF Newest
      <4>2. i \in 1 .. Len(wire')
        BY <1>1, <1>3
      <4>3. QED
        BY <2>1, <2>3, <4>1, <4>2
    <3>4. QED
      BY <3>1, <3>2, <3>3, <1>2 DEF Newest
  <2>5. \A t \in 1 .. n : t \in 1 .. Len(wire')
    BY <1>1, <1>3
  <2>6. QED
    BY <1>2, <2>4, <2>5 DEF IInv, Tracking
<1>7. AtMostOnce'
  BY <1>2 DEF IInv, AtMostOnce
<1>8. QED
  BY <1>4, <1>5, <1>6, <1>7 DEF IInv

(* What one acceptance does to the window of a session: the packet had not *)
(* been delivered, and the newest packet and bitmap follow.                *)
LEMMA ReceiveTracking ==
    ASSUME IInv, Quota < H, NEW p \in 1 .. Len(wire), Receive(p)
    PROVE  ~Delivered(p) /\ replay' \in Replay /\ Tracking'
<1> DEFINE n == Len(wire)
<1>1. /\ n \in Nat /\ H \in Nat /\ W \in Nat \ {0} /\ W < H
      /\ replay \in Replay /\ wire \in Seq(Seqs) /\ delivered \in Seq(1 .. n)
      /\ wire[p] \in Seqs
  <2>1. wire \in Seq(Seqs)
    BY DEF IInv, TypeOK
  <2>2. wire[p] \in Seqs
    BY <2>1, ElementOfSeq
  <2>3. QED
    BY <2>1, <2>2, WindowAssumption DEF IInv, TypeOK
<1>2. /\ wire' = wire /\ delivered' = Append(delivered, p)
      /\ replay' = Accept(replay, wire[p]) /\ ~Stale(replay, wire[p])
  BY DEF Receive
<1>3. ASSUME NEW i PROVE Delivered(i)' <=> (Delivered(i) \/ i = p)
  BY <1>1, <1>2, AppendProperties DEF Delivered
<1>4. ASSUME NEW i PROVE Place(i)' = Place(i)
  BY <1>2 DEF Place
<1>5. delivered' # <<>>
  BY <1>1, <1>2, AppendProperties
<1>6. ASSUME NEW i, Delivered(i) PROVE i \in 1 .. n
  BY <1>6, ElementOfSeq DEF Delivered, IInv, TypeOK
<1>7. /\ \A i \in 1 .. n : Place(i) \in Int
      /\ \A i, j \in 1 .. n :
            /\ i < j => Place(i) < Place(j)
            /\ Place(i) - Place(j) < H
            /\ SDiff(wire[i], wire[j]) = Place(i) - Place(j)
  BY PlaceLemma DEF IInv
<1>8. CASE ~replay.replay_init
  <2>1. delivered = <<>>
    BY <1>8 DEF IInv, Tracking
  <2>2. ~Delivered(p)
    BY <2>1 DEF Delivered
  <2>3. replay' = [replay_init |-> TRUE, last_seq |-> wire[p], replay_window |-> {0}]
    BY <1>2, <1>8 DEF Accept
  <2>4. replay' \in Replay
    BY <1>1, <2>3 DEF Replay
  <2>5. \A i : Delivered(i)' <=> i = p
    BY <1>3, <2>1 DEF Delivered
  <2>6. Newest(p)'
    BY <1>1, <1>2, <1>4, <1>7, <2>3, <2>5 DEF Newest
  <2>7. Tracking'
    BY <1>2, <1>5, <2>3, <2>6 DEF Tracking
  <2>8. QED
    BY <2>2, <2>4, <2>7
<1>9. CASE replay.replay_init
  <2>1. PICK t \in 1 .. n : Newest(t)
    BY <1>9 DEF IInv, Tracking
  <2> DEFINE d == Place(p) - Place(t)
  <2>2. /\ SDiff(wire[p], replay.last_seq) = d
        /\ d \in Int /\ d < H /\ -d < H
        /\ Place(p) \in Int /\ Place(t) \in Int
    <3>1. Place(t) - Place(p) < H
      BY <1>7
    <3>2. QED
      BY <1>7, <2>1, <3>1 DEF Newest
  <2>3. Back(d) = {-d}
    BY <1>1, <2>2 DEF Back
  <2>4. replay' \in Replay
    BY <1>1, <1>2, <2>2, AcceptType
  <2>5. replay.last_seq = wire[t] /\ Delivered(t)
    BY <2>1 DEF Newest
  <2>6. CASE d <= 0
    <3>1. -d < W /\ -d \notin replay.replay_window
      BY <1>1, <1>2, <1>9, <2>2, <2>3, <2>6 DEF Stale
    <3>2. ~Delivered(p)
      BY <2>1, <2>2, <3>1 DEF Newest
    <3>3. replay' = [replay EXCEPT !.replay_window = @ \cup {-d}]
      BY <1>2, <1>9, <2>2, <2>6 DEF Accept
    <3>4. /\ replay'.replay_init /\ replay'.last_seq = wire[t]
          /\ replay'.replay_window = replay.replay_window \cup {-d}
      BY <1>1, <1>9, <2>5, <3>3 DEF Replay
    <3>5. p =< t
      BY <1>1, <1>7, <2>2, <2>6
    <3>6. ASSUME NEW i \in 1 .. n, Delivered(i)'
          PROVE  /\ i =< t
                 /\ Place(t) - Place(i) < W =>
                       Place(t) - Place(i) \in replay'.replay_window
      <4>1. CASE i = p
        BY <2>2, <3>4, <3>5, <4>1
      <4>2. CASE Delivered(i)
        BY <2>1, <3>4, <4>2 DEF Newest
      <4>3. QED
        BY <1>3, <3>6, <4>1, <4>2
    <3>7. ASSUME NEW b \in replay'.replay_window
          PROVE  \E i \in 1 .. n : Delivered(i)' /\ Place(t) - Place(i) = b
      <4>1. CASE b = -d
        BY <1>3, <2>2, <4>1
      <4>2. CASE b \in replay.replay_window
        BY <1>3, <2>1, <4>2 DEF Newest
      <4>3. QED
        BY <3>4, <3>7, <4>1, <4>2
    <3>8. Newest(t)'
      BY <1>2, <1>3, <1>4, <2>5, <3>4, <3>6, <3>7 DEF Newest
    <3>9. Tracking'
      BY <1>2, <1>5, <3>4, <3>8 DEF Tracking
    <3>10. QED
      BY <2>4, <3>2, <3>9
  <2>7. CASE d > 0
    <3>1. t < p
      BY <1>1, <1>7, <2>2, <2>7
    <3>2. ~Delivered(p)
      BY <1>1, <2>1, <3>1 DEF Newest
    <3>3. replay' = [replay_init |-> TRUE, last_seq |-> wire[p],
                     replay_window |-> {0} \cup Shifted(replay.replay_window, d)]
      BY <1>2, <1>9, <2>2, <2>7 DEF Accept
    <3>4. /\ replay'.replay_init /\ replay'.last_seq = wire[p]
          /\ replay'.replay_window = {0} \cup Shifted(replay.replay_window, d)
      BY <3>3
    <3>5. ASSUME NEW i \in 1 .. n, Delivered(i)'
          PROVE  /\ i =< p
                 /\ Place(p) - Place(i) < W =>
                       Place(p) - Place(i) \in replay'.replay_window
      <4>1. CASE i = p
        BY <1>7, <3>4, <4>1
      <4>2. CASE Delivered(i)
        <5>1. /\ i =< t /\ Place(i) \in Int
              /\ Place(t) - Place(i) < W =>
                    Place(t) - Place(i) \in replay.replay_window
          BY <1>7, <2>1, <4>2 DEF Newest
        <5>2. Place(t) - Place(i) \in Nat
          BY <1>1, <1>7, <2>2, <5>1, SMTT(30)
        <5>3. Place(p) - Place(i) = (Place(t) - Place(i)) + d
          BY <2>2, <5>1
        <5>4. ASSUME Place(p) - Place(i) < W
              PROVE  Place(p) - Place(i) \in Shifted(replay.replay_window, d)
          <6>1. W \in Nat /\ Place(t) \in Int /\ Place(i) \in Int
                /\ Place(p) \in Int /\ d \in Int
            BY <1>1, <2>2, <5>1
          <6>2. Place(t) - Place(i) < W
            BY <2>7, <5>3, <5>4, <6>1
          <6>3. Place(t) - Place(i) \in replay.replay_window
            BY <5>1, <6>2
          <6>4. Place(p) - Place(i) \in 0 .. W - 1
            BY <2>7, <5>2, <5>3, <5>4, <6>1
          <6>5. QED
            BY <5>3, <6>3, <6>4 DEF Shifted
        <5>5. QED
          BY <1>1, <3>1, <3>4, <5>1, <5>4
      <4>3. QED
        BY <1>3, <3>5, <4>1, <4>2
    <3>6. ASSUME NEW b \in replay'.replay_window
          PROVE  \E i \in 1 .. n : Delivered(i)' /\ Place(p) - Place(i) = b
      <4>1. CASE b = 0
        BY <1>3, <2>2, <4>1
      <4>2. CASE b \in Shifted(replay.replay_window, d)
        <5>1. PICK a \in replay.replay_window : b = a + d
          BY <4>2 DEF Shifted
        <5>2. PICK i \in 1 .. n : Delivered(i) /\ Place(t) - Place(i) = a
          BY <2>1 DEF Newest
        <5>3. Place(p) - Place(i) = b
          BY <1>7, <2>2, <5>1, <5>2
        <5>4. QED
          BY <1>3, <5>2, <5>3
      <4>3. QED
        BY <3>4, <3>6, <4>1, <4>2
    <3>7. Newest(p)'
      BY <1>2, <1>3, <1>4, <3>4, <3>5, <3>6 DEF Newest
    <3>8. Tracking'
      BY <1>2, <1>5, <3>4, <3>7 DEF Tracking
    <3>9. QED
      BY <2>4, <3>2, <3>8
  <2>8. QED
    BY <2>2, <2>6, <2>7
<1>10. QED
  BY <1>8, <1>9

(* Accepting a packet keeps the invariant.                                 *)
LEMMA ReceiveIInv ==
    ASSUME IInv, Quota < H, NEW p \in 1 .. Len(wire), Receive(p)
    PROVE  IInv'
<1>1. ~Delivered(p) /\ replay' \in Replay /\ Tracking'
  BY ReceiveTracking
<1>2. wire' = wire /\ counter' = counter /\ delivered' = Append(delivered, p)
  BY DEF Receive
<1>3. delivered \in Seq(1 .. Len(wire))
  BY DEF IInv, TypeOK
<1>4. TypeOK'
  BY <1>1, <1>2, <1>3 DEF IInv, TypeOK
<1>5. Numbering'
  BY <1>2 DEF IInv, Numbering
<1>6. AtMostOnce'
  BY <1>1, <1>2, <1>3, AppendProperties DEF IInv, AtMostOnce, Delivered
<1>7. QED
  BY <1>1, <1>4, <1>5, <1>6 DEF IInv

(* So does a restart of the receiver, which forgets window and history.    *)
LEMMA ParserInitIInv == ASSUME IInv, ParserInit PROVE IInv'
<1>1. /\ wire' = wire /\ counter' = counter
      /\ delivered' = <<>> /\ replay' = FreshReplay
  BY DEF ParserInit
<1>2. TypeOK'
  BY <1>1, WindowAssumption DEF IInv, TypeOK, Replay, FreshReplay, Seqs
<1>3. Numbering'
  BY <1>1 DEF IInv, Numbering
<1>4. Tracking' /\ AtMostOnce'
  BY <1>1 DEF Tracking, AtMostOnce, FreshReplay
<1>5. QED
  BY <1>2, <1>3, <1>4 DEF IInv

(* Every step of a session shorter than half of the counter's range keeps  *)
(* the invariant.                                                          *)
LEMMA NextIInv == ASSUME IInv, Quota < H, [Next]_vars PROVE IInv'
<1>1. CASE Send
  BY <1>1, SendIInv
<1>2. ASSUME NEW p \in 1 .. Len(wire), Receive(p) PROVE IInv'
  BY <1>2, ReceiveIInv
<1>3. CASE ParserInit
  BY <1>3, ParserInitIInv
<1>4. CASE UNCHANGED vars
  <2>1. /\ counter' = counter /\ wire' = wire
        /\ replay' = replay /\ delivered' = delivered
    BY <1>4 DEF vars
  <2>2. TypeOK' /\ Numbering' /\ AtMostOnce'
    BY <2>1 DEF IInv, TypeOK, Numbering, AtMostOnce
  <2>3. ASSUME NEW t, Newest(t) PROVE Newest(t)'
    BY <2>1, <2>3 DEF Newest, Place, Delivered
  <2>4. Tracking'
    BY <2>1, <2>3 DEF IInv, Tracking
  <2>5. QED
    BY <2>2, <2>4 DEF IInv
<1>5. QED
  BY <1>1, <1>2, <1>3, <1>4 DEF Next

----
(* For every window width, counter width and seed: while fewer than half   *)
(* of the counter's values are used per session, IInv always holds.        *)
THEOREM Invariance == ASSUME Quota < H PROVE Spec => []IInv
<1>1. Init => IInv
  BY InitIInv
<1>2. ASSUME IInv, [Next]_vars PROVE IInv'
  BY <1>2, NextIInv, Quota < H
<1>3. QED
  BY <1>1, <1>2, PTL DEF Spec

(* Type correctness: the counter and the bitmap never leave their widths.  *)
THEOREM TypeCorrect == ASSUME Quota < H PROVE Spec => []TypeOK
<1>1. IInv => TypeOK
  BY DEF IInv
<1>2. QED
  BY <1>1, Invariance, PTL, Quota < H

(* No packet reaches the application twice, whatever the link duplicates,  *)
(* delays or reorders.                                                     *)
THEOREM NoReplay == ASSUME Quota < H PROVE Spec => []AtMostOnce
<1>1. IInv => AtMostOnce
  BY DEF IInv
<1>2. QED
  BY <1>1, Invariance, PTL, Quota < H

(* last_seq is always the counter of the latest packet accepted.           *)
THEOREM HighestIsKept == ASSUME Quota < H PROVE Spec => []HighestKept
<1>1. IInv => HighestKept
  <2>1. SUFFICES ASSUME IInv, delivered # <<>> PROVE HighestKept
    BY DEF HighestKept
  <2>2. PICK t \in 1 .. Len(wire) : Newest(t)
    BY <2>1 DEF IInv, Tracking
  <2>3. QED
    BY <2>2 DEF Newest, HighestKept
<1>2. QED
  BY <1>1, Invariance, PTL, Quota < H

(* A packet not yet accepted and fewer than W places behind the latest one *)
(* is never refused: the window costs no packet that is merely reordered.  *)
THEOREM ReorderingIsTolerated ==
    ASSUME Quota < H PROVE Spec => []ReorderTolerated
<1>1. ASSUME IInv PROVE ReorderTolerated
  <2>1. SUFFICES ASSUME NEW p \in 1 .. Len(wire), ~Delivered(p),
                        \A t \in 1 .. Len(wire) :
                            Delivered(t) => Place(t) - Place(p) < W,
                        Stale(replay, wire[p])
                 PROVE  FALSE
    BY DEF ReorderTolerated
  <2>2. delivered # <<>>
    BY <1>1, <2>1 DEF Stale, IInv, Tracking
  <2>3. PICK t \in 1 .. Len(wire) : Newest(t)
    BY <1>1, <2>2 DEF IInv, Tracking
  <2> DEFINE d == Place(p) - Place(t)
  <2>4. /\ SDiff(wire[p], replay.last_seq) = d /\ H \in Nat /\ W \in Nat
        /\ d \in Int /\ Place(t) - Place(p) < H
        /\ Place(p) \in Int /\ Place(t) \in Int
    BY <1>1, <2>3, PlaceLemma, Quota < H, WindowAssumption DEF Newest, IInv
  <2>5. d <= 0 /\ Place(t) - Place(p) < W
    BY <2>1, <2>3, <2>4 DEF Stale, Newest
  <2>6. Back(d) = {-d} /\ -d = Place(t) - Place(p)
    BY <2>4 DEF Back
  <2>7. Place(t) - Place(p) \in replay.replay_window
    BY <2>1, <2>4, <2>5, <2>6 DEF Stale
  <2>8. PICK i \in 1 .. Len(wire) : Delivered(i) /\ Place(t) - Place(i) = Place(t) - Place(p)
    BY <2>3, <2>7 DEF Newest
  <2>9. Place(i) = Place(p)
    BY <1>1, <2>4, <2>8, PlaceLemma, Quota < H DEF IInv
  <2>10. i = p
    BY <1>1, <2>9, PlaceLemma, Quota < H DEF IInv
  <2>11. QED
    BY <2>1, <2>8, <2>10
<1>2. QED
  BY <1>1, Invariance, PTL, Quota < H

(* Every step of the session is a step of the abstract at-most-once link   *)
(* or leaves it unchanged.                                                 *)
THEOREM LinkImplemented == ASSUME Quota < H PROVE Spec => ImplementsLink
<1>1. Init => Link!Init
  BY DEF Init, Link!Init
<1>2. ASSUME IInv, [Next]_vars PROVE [Link!Next]_Link!vars
  <2>1. CASE Send
    <3>1. Len(wire') = Len(wire) + 1
      BY <1>2, <2>1 DEF Send, IInv, TypeOK
    <3>2. QED
      BY <2>1, <3>1 DEF Send, Link!Next, Link!Issue
  <2>2. ASSUME NEW p \in 1 .. Len(wire), Receive(p) PROVE Link!Deliver(p)
    <3>1. ~Delivered(p)
      BY <1>2, <2>2, ReceiveTracking, Quota < H
    <3>2. QED
      BY <2>2, <3>1 DEF Receive, Delivered, Link!Deliver
  <2>3. CASE ParserInit
    BY <2>3 DEF ParserInit, Link!Next, Link!Restart
  <2>4. CASE UNCHANGED vars
    BY <2>4 DEF vars, Link!vars
  <2>5. QED
    BY <1>2, <2>1, <2>2, <2>3, <2>4 DEF Next, Link!Next
<1>3. QED
  BY <1>1, <1>2, Invariance, PTL, Quota < H DEF Spec, ImplementsLink, Link!Spec
====
