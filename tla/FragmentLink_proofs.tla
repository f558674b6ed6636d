---- MODULE FragmentLink_proofs ----
(***************************************************************************)
(* Proofs about FragmentLink for all sizes, times, keys and messages: what *)
(* is put together is a message as it was sent, slots stay consistent, and *)
(* a message whose fragments arrive is handed over.                        *)
(*                                                                         *)
(* Facts about recursive data (the sum total_len) are proved by looking at *)
(* the smallest counterexample: Smallest takes the place of induction.     *)
(***************************************************************************)
EXTENDS FragmentLink, FiniteSetTheorems, SequenceTheorems, WellFoundedInduction, TLAPS

(* The number of fragments of a payload, and the length of the i-th.       *)
Pieces(p) == (Len(p) + FragMax - 1) \div FragMax

PieceLen(p, i) == IF i = Pieces(p) - 1 THEN Len(p) - i * FragMax ELSE FragMax

(* The p-th byte of a payload says that it is the p-th.                    *)
Content == Keys \X Tags \X (Nat \ {0})

Payloads == {p \in Seq(Content) : \A j \in 1 .. Len(p) : p[j][3] = j}

(* A slot holds the fragments of payload p that it has received.           *)
Filled(slot, p) ==
    \A i \in slot.received :
       /\ slot.frag_lens[i] = PieceLen(p, i)
       /\ \A j \in 1 .. PieceLen(p, i) : slot.data[i * FragMax + j - 1] = p[i * FragMax + j]

Holds(slot, p) ==
    /\ slot.frag_total = Pieces(p) /\ Pieces(p) \in 2 .. MaxFragments
    /\ slot.received \subseteq 0 .. Pieces(p) - 1
    /\ slot.frags_received = Cardinality(slot.received)
    /\ Filled(slot, p)

----
LEMMA Consts ==
    /\ FragMax \in Nat /\ FragMax > 0 /\ MaxFragments \in Nat /\ MaxFragments > 0
    /\ Timeout \in Nat /\ TimeMod \in Nat /\ Timeout < TimeMod
    /\ Slots \subseteq Nat /\ 0 \notin Slots /\ Lengths \subseteq Nat
    /\ StartTime \subseteq 0 .. TimeMod - 1 /\ MaxMessages \in Nat
    /\ Delay \in Nat /\ Period \in Nat /\ Quiet \in Nat
    /\ Delay =< Timeout /\ Delay + Timeout < Period /\ Quiet + Timeout < TimeMod
    /\ Keys # {} /\ IsFiniteSet(Keys)
    /\ Indices = 0 .. MaxFragments - 1
BY FragmentAssumption, TrafficAssumption DEF Indices

(* Every nonempty set of naturals has a smallest element.                  *)
LEMMA Smallest ==
    ASSUME NEW S, S \subseteq Nat, S # {}
    PROVE  \E n \in S : \A m \in S : n =< m
<1>1. IsWellFoundedOn(OpToRel(<, Nat), Nat)
  BY NatLessThanWellFounded
<1> DEFINE R == OpToRel(<, Nat)
<1> HIDE DEF R
<1>2. IsWellFoundedOn(R, Nat)
  BY <1>1 DEF R
<1>3. PICK n \in S : \A m \in S : ~(<<m, n>> \in R)
  BY <1>2, WFMin
<1>4. \A m \in S : <<m, n>> \in R <=> m < n
  BY DEF R, OpToRel
<1>5. n \in Nat /\ \A m \in S : m \in Nat /\ ~(m < n)
  BY <1>3, <1>4
<1>6. \A m \in S : n =< m
  BY <1>5
<1>7. QED
  BY <1>6

LEMMA MinLemma ==
    ASSUME NEW S, S \subseteq Nat, S # {}
    PROVE  Min(S) \in S /\ \A m \in S : Min(S) =< m
BY Smallest DEF Min

(* Products are opaque to the provers but for these facts.                 *)
LEMMA Multiples ==
    ASSUME NEW a \in Int, NEW b \in Int, NEW f \in Nat
    PROVE  /\ a * f \in Int /\ (a + 1) * f = a * f + f /\ (a - 1) * f = a * f - f
           /\ a =< b => a * f =< b * f
           /\ a >= 0 => a * f >= 0
OBVIOUS

LEMMA DivLemma ==
    ASSUME NEW a \in Nat, NEW b \in Nat \ {0}
    PROVE  (a \div b) \in Nat /\ (a \div b) * b =< a /\ a < (a \div b) * b + b
OBVIOUS

(* The fragments of a payload cover it without gaps.                       *)
LEMMA PiecesLemma ==
    ASSUME NEW p, Len(p) \in Nat
    PROVE  /\ Pieces(p) \in Nat /\ Len(p) =< Pieces(p) * FragMax
           /\ Pieces(p) * FragMax < Len(p) + FragMax
           /\ \A i \in 0 .. Pieces(p) - 1 :
                 /\ i * FragMax \in Nat
                 /\ PieceLen(p, i) \in 1 .. FragMax
                 /\ i * FragMax + PieceLen(p, i) =< Len(p)
                 /\ i < Pieces(p) - 1 => PieceLen(p, i) = FragMax
<1> DEFINE n == Pieces(p)
<1>1. n \in Nat /\ n * FragMax =< Len(p) + FragMax - 1 /\ Len(p) + FragMax - 1 < n * FragMax + FragMax
  <2>1. Len(p) + FragMax - 1 \in Nat /\ FragMax \in Nat \ {0}
    BY Consts
  <2>2. QED
    BY <2>1, DivLemma DEF Pieces
<1> HIDE DEF n
<1>2. n * FragMax \in Int /\ Len(p) =< n * FragMax /\ n * FragMax < Len(p) + FragMax
  BY <1>1, Consts, Multiples
<1>3. ASSUME NEW i \in 0 .. n - 1
      PROVE  /\ i * FragMax \in Nat
             /\ PieceLen(p, i) \in 1 .. FragMax
             /\ i * FragMax + PieceLen(p, i) =< Len(p)
             /\ i < n - 1 => PieceLen(p, i) = FragMax
  <2>1. i \in Nat /\ i + 1 \in Int /\ n - 1 \in Int
    BY <1>1
  <2>2. i * FragMax \in Int /\ i * FragMax >= 0
    BY <2>1, Consts, Multiples
  <2>3. CASE i = n - 1
    <3>1. i * FragMax = n * FragMax - FragMax
      BY <1>1, <2>3, Consts, Multiples
    <3>2. PieceLen(p, i) = Len(p) - i * FragMax
      BY <2>3 DEF PieceLen, n
    <3>3. PieceLen(p, i) \in Int /\ PieceLen(p, i) >= 1 /\ PieceLen(p, i) =< FragMax
      BY <1>2, <2>2, <3>1, <3>2, Consts
    <3>4. i * FragMax + PieceLen(p, i) = Len(p)
      BY <2>2, <3>2
    <3>5. ~(i < n - 1)
      BY <1>1, <2>3
    <3>6. QED
      BY <2>2, <3>3, <3>4, <3>5, Consts
  <2>4. CASE i # n - 1
    <3>1. PieceLen(p, i) = FragMax /\ i + 1 =< n - 1
      BY <1>1, <2>4 DEF PieceLen, n
    <3>2. i * FragMax + FragMax = (i + 1) * FragMax
      BY <2>1, Consts, Multiples
    <3>3. (i + 1) * FragMax =< (n - 1) * FragMax
      BY <2>1, <3>1, Consts, Multiples
    <3>4. (n - 1) * FragMax = n * FragMax - FragMax
      BY <1>1, Consts, Multiples
    <3>5. (i + 1) * FragMax \in Int
      BY <2>1, Consts, Multiples
    <3>6. i * FragMax + FragMax =< Len(p)
      BY <1>2, <2>2, <3>2, <3>3, <3>4, <3>5, Consts
    <3>7. QED
      BY <2>2, <3>1, <3>6, Consts
  <2>5. QED
    BY <2>3, <2>4
<1>4. QED
  BY <1>1, <1>2, <1>3 DEF n

(* What ks_fragment_split makes of a payload.                              *)
LEMMA SplitLemma ==
    ASSUME NEW k \in Keys, NEW p \in Payloads
    PROVE  /\ DOMAIN Split(k, p) = (IF Pieces(p) > MaxFragments THEN {} ELSE 0 .. Pieces(p) - 1)
           /\ DOMAIN Split(k, p) \subseteq Indices
           /\ \A i \in DOMAIN Split(k, p) :
                 /\ Split(k, p)[i].key = k
                 /\ Split(k, p)[i].fragmented = (Pieces(p) > 1)
                 /\ Split(k, p)[i].frag_index = i /\ Split(k, p)[i].frag_total = Pieces(p)
                 /\ Len(Split(k, p)[i].payload) = PieceLen(p, i)
                 /\ \A j \in 1 .. PieceLen(p, i) :
                       Split(k, p)[i].payload[j] = p[i * FragMax + j]
<1> DEFINE n == Pieces(p)
           D == IF n > MaxFragments THEN {} ELSE 0 .. n - 1
           To(i) == IF i = n - 1 THEN Len(p) ELSE (i + 1) * FragMax
<1>1. Len(p) \in Nat /\ p \in Seq(Content)
  BY LenProperties DEF Payloads
<1>2. n \in Nat /\ \A i \in 0 .. n - 1 :
         /\ i * FragMax \in Nat /\ PieceLen(p, i) \in 1 .. FragMax
         /\ i * FragMax + PieceLen(p, i) =< Len(p)
  BY <1>1, PiecesLemma
<1>3. Split(k, p) =
        [i \in D |-> [key |-> k, fragmented |-> n > 1, frag_index |-> i, frag_total |-> n,
                      payload |-> SubSeq(p, i * FragMax + 1, To(i))]]
  BY DEF Split, Pieces
<1>4. D \subseteq Indices
  BY <1>2, Consts
<1>5. ASSUME NEW i \in D
      PROVE  /\ i * FragMax \in Nat /\ PieceLen(p, i) \in 1 .. FragMax
             /\ To(i) = i * FragMax + PieceLen(p, i) /\ To(i) \in 1 .. Len(p)
  <2>1. i \in 0 .. n - 1
    OBVIOUS
  <2>2. (i + 1) * FragMax = i * FragMax + FragMax
    BY <1>2, <2>1, Consts, Multiples
  <2>3. To(i) = i * FragMax + PieceLen(p, i)
    BY <1>1, <1>2, <2>1, <2>2 DEF PieceLen
  <2>4. QED
    BY <1>1, <1>2, <2>1, <2>3, Consts
<1> HIDE DEF D, To, n
<1>6. ASSUME NEW i \in D
      PROVE  /\ Len(SubSeq(p, i * FragMax + 1, To(i))) = PieceLen(p, i)
             /\ \A j \in 1 .. PieceLen(p, i) :
                   SubSeq(p, i * FragMax + 1, To(i))[j] = p[i * FragMax + j]
  <2>1. /\ i * FragMax + 1 \in 1 .. Len(p) + 1 /\ To(i) \in (i * FragMax + 1) - 1 .. Len(p)
        /\ i * FragMax \in Nat /\ PieceLen(p, i) \in Nat
    BY <1>1, <1>5, <1>6, Consts
  <2>2. /\ Len(SubSeq(p, i * FragMax + 1, To(i))) = To(i) - (i * FragMax + 1) + 1
        /\ \A j \in 1 .. To(i) - (i * FragMax + 1) + 1 :
              SubSeq(p, i * FragMax + 1, To(i))[j] = p[(i * FragMax + 1) + j - 1]
    BY <1>1, <2>1, SubSeqProperties
  <2>3. To(i) - (i * FragMax + 1) + 1 = PieceLen(p, i)
    BY <1>5, <1>6, <2>1
  <2>4. ASSUME NEW j \in 1 .. PieceLen(p, i)
        PROVE  SubSeq(p, i * FragMax + 1, To(i))[j] = p[i * FragMax + j]
    <3>1. (i * FragMax + 1) + j - 1 = i * FragMax + j
      BY <2>1
    <3>2. QED
      BY <2>2, <2>3, <3>1
  <2>5. QED
    BY <2>2, <2>3, <2>4
<1>7. /\ DOMAIN Split(k, p) = D
      /\ \A i \in D : Split(k, p)[i] =
            [key |-> k, fragmented |-> n > 1, frag_index |-> i, frag_total |-> n,
             payload |-> SubSeq(p, i * FragMax + 1, To(i))]
  BY <1>3
<1>8. DOMAIN Split(k, p) = (IF Pieces(p) > MaxFragments THEN {} ELSE 0 .. Pieces(p) - 1)
  BY <1>7 DEF D, n
<1>9. \A i \in D : /\ Split(k, p)[i].key = k /\ Split(k, p)[i].fragmented = (n > 1)
                   /\ Split(k, p)[i].frag_index = i /\ Split(k, p)[i].frag_total = n
                   /\ Split(k, p)[i].payload = SubSeq(p, i * FragMax + 1, To(i))
  BY <1>7
<1>10. ASSUME NEW i \in D
       PROVE  /\ Len(Split(k, p)[i].payload) = PieceLen(p, i)
              /\ \A j \in 1 .. PieceLen(p, i) : Split(k, p)[i].payload[j] = p[i * FragMax + j]
  <2>1. PICK s : s = SubSeq(p, i * FragMax + 1, To(i)) /\ Split(k, p)[i].payload = s
    BY <1>9
  <2>2. Len(s) = PieceLen(p, i) /\ \A j \in 1 .. PieceLen(p, i) : s[j] = p[i * FragMax + j]
    BY <1>6, <2>1
  <2>3. QED
    BY <2>1, <2>2
<1>11. DOMAIN Split(k, p) = D
  BY <1>7
<1>12. QED
  BY <1>4, <1>8, <1>9, <1>10, <1>11 DEF n

(* Any lengths can be added up, ...                                        *)
LEMMA SumsExist ==
    ASSUME NEW lens \in [Indices -> Nat]
    PROVE  \E h \in [0 .. MaxFragments -> Nat] :
              h[0] = 0 /\ \A n \in 1 .. MaxFragments : h[n] = h[n - 1] + lens[n - 1]
<1> DEFINE Sums(m, h) == h[0] = 0 /\ \A n \in 1 .. m : h[n] = h[n - 1] + lens[n - 1]
           Open == {m \in 0 .. MaxFragments : ~\E h \in [0 .. m -> Nat] : Sums(m, h)}
<1>1. SUFFICES ASSUME MaxFragments \in Open PROVE FALSE
  <2>1. MaxFragments \in 0 .. MaxFragments
    BY Consts
  <2>2. QED
    BY <2>1
<1>2. PICK m \in Open : \A l \in Open : m =< l
  <2>1. Open \subseteq 0 .. MaxFragments
    OBVIOUS
  <2>2. Open # {}
    BY <1>1
  <2> HIDE DEF Open
  <2>3. Open \subseteq Nat
    BY <2>1, Consts
  <2>4. QED
    BY <2>2, <2>3, Smallest
<1>3. m \in 0 .. MaxFragments
  OBVIOUS
<1>4. m # 0
  <2>1. [n \in 0 .. 0 |-> 0] \in [0 .. 0 -> Nat] /\ Sums(0, [n \in 0 .. 0 |-> 0])
    OBVIOUS
  <2>2. QED
    BY <1>2, <2>1
<1>5. m - 1 \in 0 .. MaxFragments /\ m - 1 \notin Open
  <2>1. m - 1 \in 0 .. MaxFragments /\ ~(m =< m - 1)
    BY <1>3, <1>4, Consts
  <2> HIDE DEF Open
  <2>2. QED
    BY <1>2, <2>1
<1>6. PICK h \in [0 .. m - 1 -> Nat] : Sums(m - 1, h)
  BY <1>5
<1> DEFINE g == [n \in 0 .. m |-> IF n = m THEN h[m - 1] + lens[m - 1] ELSE h[n]]
<1>7. m - 1 \in Indices /\ m - 1 \in 0 .. m - 1
  BY <1>3, <1>4, Consts
<1>8. h[m - 1] + lens[m - 1] \in Nat
  BY <1>6, <1>7
<1>9. g \in [0 .. m -> Nat]
  BY <1>6, <1>8, <1>3
<1>10. g[0] = 0
  BY <1>3, <1>4, <1>6
<1>11. ASSUME NEW n \in 1 .. m PROVE g[n] = g[n - 1] + lens[n - 1]
  <2>1. g[n - 1] = h[n - 1]
    BY <1>3
  <2>2. CASE n = m
    BY <2>1, <2>2, <1>3
  <2>3. CASE n # m
    <3>1. n \in 1 .. m - 1 /\ n \in 0 .. m
      BY <2>3, <1>3
    <3>2. QED
      BY <1>6, <2>1, <2>3, <3>1
  <2>4. QED
    BY <2>2, <2>3
<1>12. QED
  BY <1>2, <1>9, <1>10, <1>11

(* ... and total_len is what any such sum of the first m of them is.       *)
LEMMA TotalLemma ==
    ASSUME NEW lens \in [Indices -> Nat], NEW m \in 0 .. MaxFragments, NEW g,
           g[0] = 0, \A n \in 1 .. m : g[n] = g[n - 1] + lens[n - 1]
    PROVE  TotalLen(lens, m) = g[m]
<1> DEFINE F(h) == [n \in 0 .. MaxFragments |-> IF n = 0 THEN 0 ELSE h[n - 1] + lens[n - 1]]
           f == CHOOSE h : h = F(h)
<1>1. \E h : h = F(h)
  <2>1. PICK h \in [0 .. MaxFragments -> Nat] :
           h[0] = 0 /\ \A n \in 1 .. MaxFragments : h[n] = h[n - 1] + lens[n - 1]
    BY SumsExist
  <2>2. h = F(h)
    BY <2>1, Consts
  <2>3. QED
    BY <2>2
<1>2. f = F(f)
  <2> HIDE DEF F
  <2> QED
    BY <1>1
<1>3. TotalLen(lens, m) = f[m]
  BY DEF TotalLen
<1> HIDE DEF f
<1>4. f[0] = 0 /\ \A n \in 1 .. m : f[n] = f[n - 1] + lens[n - 1]
  BY <1>2, Consts
<1> DEFINE Off == {n \in 0 .. m : f[n] # g[n]}
<1>5. SUFFICES ASSUME Off # {} PROVE FALSE
  BY <1>3
<1>6. PICK n \in Off : \A l \in Off : n =< l
  <2>1. Off \subseteq Nat /\ Off # {}
    BY <1>5, Consts
  <2> HIDE DEF Off
  <2>2. QED
    BY <2>1, Smallest
<1>7. n \in 1 .. m /\ n - 1 \in 0 .. m /\ ~(n =< n - 1)
  BY <1>4, <1>6
<1>8. f[n - 1] = g[n - 1]
  BY <1>6, <1>7
<1>9. QED
  BY <1>4, <1>6, <1>7, <1>8

(* The lengths of a payload's fragments add up to its own.                 *)
LEMMA WholeLength ==
    ASSUME NEW p \in Payloads, Pieces(p) \in 1 .. MaxFragments,
           NEW lens \in [Indices -> Nat],
           \A i \in 0 .. Pieces(p) - 1 : lens[i] = PieceLen(p, i)
    PROVE  TotalLen(lens, Pieces(p)) = Len(p)
<1> DEFINE n == Pieces(p)
           g == [i \in 0 .. n |-> IF i = n THEN Len(p) ELSE i * FragMax]
<1>1. /\ Len(p) \in Nat /\ n \in 1 .. MaxFragments
      /\ \A i \in 0 .. n - 1 : /\ i * FragMax \in Nat
                               /\ PieceLen(p, i) = IF i = n - 1 THEN Len(p) - i * FragMax
                                                   ELSE FragMax
  BY PiecesLemma, LenProperties DEF Payloads, PieceLen
<1> HIDE DEF n
<1>2. g[0] = 0 /\ g[n] = Len(p)
  BY <1>1, Consts
<1>3. ASSUME NEW i \in 1 .. n PROVE g[i] = g[i - 1] + lens[i - 1]
  <2>1. i - 1 \in 0 .. n - 1 /\ g[i - 1] = (i - 1) * FragMax /\ i \in Int
    BY <1>1
  <2>2. lens[i - 1] = IF i = n THEN Len(p) - (i - 1) * FragMax ELSE FragMax
    BY <1>1, <2>1 DEF n
  <2>3. CASE i = n
    BY <1>1, <1>2, <2>1, <2>2, <2>3
  <2>4. CASE i # n
    <3>1. g[i] = i * FragMax /\ i \in 0 .. n - 1
      BY <1>1, <2>4
    <3>2. (i - 1) * FragMax = i * FragMax - FragMax
      BY <2>1, Consts, Multiples
    <3>3. QED
      BY <1>1, <2>1, <2>2, <2>4, <3>1, <3>2, Consts
  <2>5. QED
    BY <2>3, <2>4
<1>4. n \in 0 .. MaxFragments
  BY <1>1
<1> HIDE DEF g
<1>5. TotalLen(lens, n) = g[n]
  BY <1>2, <1>3, <1>4, TotalLemma
<1>6. QED
  BY <1>2, <1>5 DEF n

(* What the loop copies out of a slot that holds every fragment of p is p. *)
LEMMA AssembledLemma ==
    ASSUME NEW p \in Payloads, NEW slot, slot.frag_lens \in [Indices -> Nat],
           Holds(slot, p), slot.frags_received = slot.frag_total
    PROVE  Assembled(slot) = p
<1> DEFINE n == Pieces(p)
<1>1. /\ Len(p) \in Nat /\ n \in 2 .. MaxFragments /\ slot.frag_total = n
      /\ Len(p) =< n * FragMax
      /\ p = [j \in 1 .. Len(p) |-> p[j]]
      /\ \A i \in 0 .. n - 1 : i * FragMax \in Nat
  BY PiecesLemma, LenProperties DEF Payloads, Holds
<1> HIDE DEF n
<1>2. slot.received = 0 .. n - 1
  <2>1. IsFiniteSet(0 .. n - 1) /\ Cardinality(0 .. n - 1) = n
    <3>1. 0 \in Int /\ n - 1 \in Int /\ n \in Int /\ ~(0 > n - 1) /\ n - 1 - 0 + 1 = n
      BY <1>1, Consts
    <3>2. QED
      BY <3>1, FS_Interval
  <2>2. slot.received \in SUBSET (0 .. n - 1) /\ Cardinality(slot.received) = n
    BY <1>1 DEF Holds, n
  <2>3. QED
    BY <2>1, <2>2, FS_Subset
<1>3. TotalLen(slot.frag_lens, n) = Len(p)
  BY <1>1, <1>2, WholeLength DEF Holds, Filled, n
<1>4. ASSUME NEW q \in 1 .. Len(p) PROVE slot.data[q - 1] = p[q]
  <2> DEFINE i == (q - 1) \div FragMax
             j == q - i * FragMax
  <2>1. i \in Nat /\ i * FragMax =< q - 1 /\ q - 1 < i * FragMax + FragMax
    <3>1. PICK a \in Nat, b \in Nat \ {0} : a = q - 1 /\ b = FragMax
      BY <1>4, Consts
    <3>2. (a \div b) \in Nat /\ (a \div b) * b =< a /\ a < (a \div b) * b + b
      BY <3>1, DivLemma
    <3>3. QED
      BY <3>1, <3>2
  <2> HIDE DEF i
  <2>2. i * FragMax \in Int /\ (i + 1) * FragMax = i * FragMax + FragMax
    BY <2>1, Consts, Multiples
  <2>3. i =< n - 1
    <3>1. SUFFICES ASSUME n =< i PROVE FALSE
      BY <1>1, <2>1
    <3>2. n * FragMax =< i * FragMax /\ n * FragMax \in Int
      BY <1>1, <2>1, <3>1, Consts, Multiples, SMTT(30)
    <3>3. QED
      BY <1>1, <2>1, <2>2, <3>2
  <2>4. i \in 0 .. n - 1 /\ j \in 1 .. FragMax
    <3>1. i \in 0 .. n - 1
      BY <1>1, <2>1, <2>3, Consts
    <3>2. q \in Int /\ i * FragMax \in Int
      BY <1>4, <1>1, <2>2
    <3>3. j \in Int /\ j >= 1 /\ j =< FragMax
      BY <2>1, <3>2, Consts
    <3>4. QED
      BY <3>1, <3>3, Consts
  <2>5. j \in 1 .. PieceLen(p, i)
    BY <1>1, <2>2, <2>4, <1>4 DEF PieceLen, n
  <2>6. slot.data[i * FragMax + j - 1] = p[i * FragMax + j]
    BY <1>2, <2>4, <2>5 DEF Holds, Filled
  <2>7. i * FragMax + j = q /\ i * FragMax + j - 1 = q - 1
    BY <1>4, <2>2
  <2>8. QED
    BY <2>6, <2>7
<1>5. Assembled(slot) = [q \in 1 .. Len(p) |-> slot.data[q - 1]]
  BY <1>1, <1>3 DEF Assembled
<1>6. QED
  BY <1>1, <1>4, <1>5

(* Cells of different fragments are different, and all cells exist.        *)
LEMMA CellLemma ==
    ASSUME NEW p \in Payloads, Pieces(p) =< MaxFragments,
           NEW i \in 0 .. Pieces(p) - 1, NEW j \in 1 .. PieceLen(p, i)
    PROVE  /\ i * FragMax \in Nat /\ j \in 1 .. FragMax
           /\ i * FragMax + j \in 1 .. Len(p) /\ Len(p) =< FragMax * MaxFragments
           /\ i * FragMax + j - 1 \in Cells
           /\ \A l \in 0 .. Pieces(p) - 1 : l # i =>
                 i * FragMax + j - 1 - l * FragMax \notin 0 .. PieceLen(p, l) - 1
<1> DEFINE n == Pieces(p)
<1>1. /\ Len(p) \in Nat /\ n \in Nat /\ Len(p) =< n * FragMax /\ n =< MaxFragments
      /\ i \in 0 .. n - 1
      /\ \A l \in 0 .. n - 1 : /\ l * FragMax \in Nat /\ PieceLen(p, l) \in 1 .. FragMax
                               /\ l * FragMax + PieceLen(p, l) =< Len(p)
  BY PiecesLemma, LenProperties DEF Payloads
<1> HIDE DEF n
<1>2. n * FragMax =< MaxFragments * FragMax /\ MaxFragments * FragMax = FragMax * MaxFragments
      /\ n * FragMax \in Int /\ MaxFragments * FragMax \in Int
  BY <1>1, Consts, Multiples
<1>3. /\ PieceLen(p, i) \in 1 .. FragMax /\ i * FragMax \in Nat /\ i \in Int
      /\ i * FragMax + PieceLen(p, i) =< Len(p) /\ Len(p) \in Nat
  BY <1>1
<1>4. j \in 1 .. FragMax /\ i * FragMax + j \in 1 .. Len(p)
  <2>1. j \in Int /\ 1 =< j /\ j =< PieceLen(p, i) /\ PieceLen(p, i) =< FragMax
    BY <1>3
  <2>2. 1 =< i * FragMax + j /\ i * FragMax + j =< Len(p)
    BY <1>3, <2>1
  <2>3. QED
    BY <1>3, <2>1, <2>2, Consts
<1>5. Len(p) =< FragMax * MaxFragments
  BY <1>1, <1>2
<1>6. i * FragMax + j - 1 \in Cells
  BY <1>1, <1>2, <1>3, <1>4, <1>5 DEF Cells
<1>7. ASSUME NEW l \in 0 .. n - 1, l # i,
             i * FragMax + j - 1 - l * FragMax \in 0 .. PieceLen(p, l) - 1
      PROVE  FALSE
  <2>1. l \in Int /\ l * FragMax \in Nat /\ PieceLen(p, l) \in 1 .. FragMax
    BY <1>1, <1>7
  <2>2. l * FragMax =< i * FragMax + j - 1 /\ i * FragMax + j - 1 < l * FragMax + FragMax
    BY <1>3, <1>4, <1>7, <2>1, Consts
  <2>3. CASE l < i
    <3>1. (l + 1) * FragMax =< i * FragMax /\ (l + 1) * FragMax = l * FragMax + FragMax
      BY <1>3, <2>1, <2>3, Consts, Multiples
    <3>2. QED
      BY <1>3, <1>4, <2>1, <2>2, <3>1, Consts
  <2>4. CASE i < l
    <3>1. (i + 1) * FragMax =< l * FragMax /\ (i + 1) * FragMax = i * FragMax + FragMax
      BY <1>3, <2>1, <2>4, Consts, Multiples
    <3>2. QED
      BY <1>3, <1>4, <2>1, <2>2, <3>1, Consts
  <2>5. QED
    BY <1>3, <1>7, <2>1, <2>3, <2>4
<1>8. QED
  BY <1>3, <1>4, <1>5, <1>6, <1>7 DEF n

(* A fragment goes to its own place and is counted once.                   *)
LEMMA StoredLemma ==
    ASSUME NEW p \in Payloads, NEW slot \in Slot, Holds(slot, p),
           NEW f, NEW i \in 0 .. Pieces(p) - 1, f.frag_index = i,
           Len(f.payload) = PieceLen(p, i),
           \A j \in 1 .. PieceLen(p, i) : f.payload[j] = p[i * FragMax + j]
    PROVE  /\ Stored(slot, f) \in Slot /\ Holds(Stored(slot, f), p)
           /\ Stored(slot, f).received = slot.received \cup {i}
           /\ Stored(slot, f).active = slot.active /\ Stored(slot, f).key = slot.key
           /\ Stored(slot, f).start = slot.start
           /\ Stored(slot, f).frag_total = slot.frag_total
<1>1. CASE i \in slot.received
  <2>1. Stored(slot, f) = slot /\ slot.received \cup {i} = slot.received
    BY <1>1 DEF Stored
  <2>2. QED
    BY <2>1
<1>2. CASE i \notin slot.received
  <2> DEFINE offset == i * FragMax
             lens == [slot.frag_lens EXCEPT ![i] = Len(f.payload)]
             data == [c \in Cells |-> IF c - offset \in 0 .. Len(f.payload) - 1
                                      THEN f.payload[c - offset + 1] ELSE slot.data[c]]
             new == [slot EXCEPT !.received = slot.received \cup {i},
                                 !.frags_received = slot.frags_received + 1,
                                 !.frag_lens = lens, !.data = data]
  <2>1. Stored(slot, f) = new
    <3>1. slot = [active |-> slot.active, key |-> slot.key, frag_total |-> slot.frag_total,
                  frags_received |-> slot.frags_received, received |-> slot.received,
                  frag_lens |-> slot.frag_lens, data |-> slot.data, start |-> slot.start]
      BY DEF Slot
    <3>2. QED
      BY <1>2, <3>1 DEF Stored
  <2>2. /\ slot.active \in BOOLEAN /\ slot.key \in Keys /\ slot.frag_total \in 0 .. MaxFragments
        /\ slot.frags_received \in 0 .. MaxFragments /\ slot.received \in SUBSET Indices
        /\ slot.frag_lens \in [Indices -> 0 .. FragMax]
        /\ slot.data \in [Cells -> {Empty} \cup (Keys \X Tags \X (1 .. FragMax * MaxFragments))]
        /\ slot.start \in 0 .. TimeMod - 1
    BY DEF Slot
  <2>3. /\ Pieces(p) \in 2 .. MaxFragments /\ slot.received \subseteq 0 .. Pieces(p) - 1
        /\ slot.frags_received = Cardinality(slot.received) /\ i \in Indices
        /\ Filled(slot, p) /\ Pieces(p) \in Nat /\ Pieces(p) =< MaxFragments
    BY Consts DEF Holds
  <2>4. PieceLen(p, i) \in 1 .. FragMax
    BY PiecesLemma, LenProperties DEF Payloads
  <2>5. lens \in [Indices -> 0 .. FragMax]
    BY <2>2, <2>3, <2>4, Consts, SMTT(30)
  <2>6. ASSUME NEW c \in Cells, c - offset \in 0 .. Len(f.payload) - 1
        PROVE  f.payload[c - offset + 1] \in Keys \X Tags \X (1 .. FragMax * MaxFragments)
    <3> DEFINE j == c - offset + 1
    <3>1. offset \in Nat /\ c \in Int
      BY PiecesLemma, LenProperties, <2>6 DEF Payloads, Cells
    <3>2. j \in 1 .. PieceLen(p, i)
      <4>1. c - offset \in 0 .. PieceLen(p, i) - 1
        BY <2>6
      <4>2. c - offset \in Int /\ 0 =< c - offset /\ c - offset =< PieceLen(p, i) - 1
        BY <2>4, <4>1
      <4> HIDE DEF offset
      <4>3. QED
        BY <2>4, <4>2
    <3> HIDE DEF j
    <3>3. /\ f.payload[j] = p[i * FragMax + j] /\ i * FragMax + j \in 1 .. Len(p)
          /\ Len(p) =< FragMax * MaxFragments
      BY <2>3, <3>2, CellLemma
    <3>4. p[i * FragMax + j] \in Content /\ p[i * FragMax + j][3] = i * FragMax + j
      BY <3>3, ElementOfSeq DEF Payloads
    <3>5. i * FragMax + j \in 1 .. FragMax * MaxFragments
      BY <3>3, LenProperties, Consts DEF Payloads
    <3>6. f.payload[j] \in Keys \X Tags \X (1 .. FragMax * MaxFragments)
      BY <3>3, <3>4, <3>5 DEF Content
    <3>7. QED
      BY <3>6 DEF j
  <2>7. data \in [Cells -> {Empty} \cup (Keys \X Tags \X (1 .. FragMax * MaxFragments))]
    BY <2>2, <2>6
  <2>8. /\ IsFiniteSet(slot.received)
        /\ Cardinality(slot.received \cup {i}) = slot.frags_received + 1
        /\ Cardinality(slot.received \cup {i}) =< MaxFragments
    <3>1. IsFiniteSet(0 .. Pieces(p) - 1) /\ Cardinality(0 .. Pieces(p) - 1) = Pieces(p)
      <4>1. 0 \in Int /\ Pieces(p) - 1 \in Int /\ ~(0 > Pieces(p) - 1)
            /\ Pieces(p) - 1 - 0 + 1 = Pieces(p)
        BY <2>3
      <4>2. QED
        BY <4>1, FS_Interval
    <3>2. slot.received \cup {i} \in SUBSET (0 .. Pieces(p) - 1)
      BY <2>3
    <3>3. /\ IsFiniteSet(slot.received)
          /\ Cardinality(slot.received \cup {i}) =< Cardinality(0 .. Pieces(p) - 1)
      BY <2>3, <3>1, <3>2, FS_Subset
    <3>4. Cardinality(slot.received \cup {i}) = Cardinality(slot.received) + 1
      BY <1>2, <3>3, FS_AddElement
    <3>5. QED
      BY <2>2, <2>3, <3>1, <3>3, <3>4, Consts
  <2>9. /\ lens[i] = PieceLen(p, i) /\ \A l \in Indices : l # i => lens[l] = slot.frag_lens[l]
    BY <2>2, <2>3
  <2>10. ASSUME NEW l \in slot.received \cup {i}, NEW j \in 1 .. PieceLen(p, l)
         PROVE  data[l * FragMax + j - 1] = p[l * FragMax + j]
    <3>1. l \in 0 .. Pieces(p) - 1
      BY <2>3
    <3>2. /\ l * FragMax + j - 1 \in Cells /\ l * FragMax \in Nat /\ j \in Int
          /\ l # i => l * FragMax + j - 1 - offset \notin 0 .. PieceLen(p, i) - 1
      BY <2>3, <2>10, <3>1, CellLemma
    <3>6. offset \in Nat
      BY PiecesLemma, LenProperties DEF Payloads
    <3>3. CASE l = i
      <4>1. /\ l * FragMax + j - 1 - offset = j - 1 /\ j - 1 + 1 = j
            /\ j - 1 \in 0 .. PieceLen(p, i) - 1
        BY <2>4, <2>10, <3>2, <3>3
      <4>2. QED
        BY <2>10, <3>2, <3>3, <4>1
    <3>4. CASE l # i
      <4>1. l \in slot.received
        BY <3>4
      <4>2. slot.data[l * FragMax + j - 1] = p[l * FragMax + j]
        BY <2>3, <2>10, <4>1 DEF Filled
      <4>3. PICK c \in Cells : c = l * FragMax + j - 1 /\ c - offset \notin 0 .. Len(f.payload) - 1
        <5> DEFINE c == l * FragMax + j - 1
        <5>1. c \in Cells /\ c - offset \notin 0 .. PieceLen(p, i) - 1
          BY <2>4, <3>2, <3>4, <3>6
        <5>2. Len(f.payload) = PieceLen(p, i)
          OBVIOUS
        <5>3. c \in Cells /\ c - offset \notin 0 .. Len(f.payload) - 1
          BY <5>1, <5>2
        <5> HIDE DEF c
        <5>4. \E b \in Cells : b = c /\ b - offset \notin 0 .. Len(f.payload) - 1
          BY <5>3
        <5>5. QED
          BY <5>4 DEF c
      <4>4. data[c] = slot.data[c]
        BY <4>3
      <4> HIDE DEF data
      <4>5. QED
        BY <4>2, <4>3, <4>4
    <3>5. QED
      BY <3>3, <3>4
  <2> HIDE DEF lens, data
  <2>11. /\ new.received = slot.received \cup {i} /\ new.frags_received = slot.frags_received + 1
         /\ new.frag_lens = lens /\ new.data = data /\ new.active = slot.active
         /\ new.key = slot.key /\ new.start = slot.start /\ new.frag_total = slot.frag_total
    BY DEF Slot
  <2>12. new \in Slot
    <3>1. slot.frags_received + 1 \in 0 .. MaxFragments
      BY <2>2, <2>8, Consts
    <3>2. slot.received \cup {i} \in SUBSET Indices
      BY <2>2, <2>3
    <3>3. QED
      BY <2>2, <2>5, <2>7, <3>1, <3>2 DEF Slot
  <2> HIDE DEF new
  <2>13. Filled(new, p)
    <3>1. \A l \in slot.received \cup {i} : lens[l] = PieceLen(p, l)
      BY <2>2, <2>3, <2>9 DEF Filled
    <3>2. QED
      BY <2>10, <2>11, <3>1 DEF Filled
  <2>14. Holds(new, p)
    BY <2>3, <2>8, <2>11, <2>13 DEF Holds
  <2>15. QED
    BY <2>1, <2>11, <2>12, <2>14
<1>3. QED
  BY <1>1, <1>2

----
(***************************************************************************)
(* The inductive invariant.  Elapsed is the time a slot has been open, as  *)
(* the receiver computes it.  An open slot is either current, it has       *)
(* fragments of the last message of its key only, or outdated: the key has *)
(* a newer message, and then the slot has been open for so long that it is *)
(* evicted before a fragment of that message is looked at.                 *)
(***************************************************************************)
Elapsed(slot) == (now - slot.start) % TimeMod

Current(slot) ==
    /\ age[slot.key] =< Elapsed(slot) + Delay
    /\ age[slot.key] < Period => Elapsed(slot) =< age[slot.key]
    /\ Holds(slot, message[slot.key])
    /\ slot.received \subseteq arrived[slot.key]

Outdated(slot) == Elapsed(slot) >= age[slot.key] + Period - Delay

Counted(slot) ==
    /\ slot.frags_received = Cardinality(slot.received)
    /\ slot.received \subseteq 0 .. slot.frag_total - 1
    /\ slot.frags_received < slot.frag_total

Types ==
    /\ ctx \in Seq(Slot) /\ Len(ctx) \in Slots
    /\ now \in 0 .. TimeMod - 1 /\ idle \in 0 .. Quiet /\ sent \in 0 .. MaxMessages
    /\ message \in [Keys -> Payloads] /\ age \in [Keys -> 0 .. Period]
    /\ arrived \in [Keys -> SUBSET Indices]
    /\ \A k \in Keys : arrived[k] \subseteq DOMAIN Split(k, message[k])
    /\ crowded \in [Keys -> BOOLEAN] /\ done \in [Keys -> BOOLEAN]
    /\ last.key \in Keys /\ last.ret \in {-1, 0, 1}

OpenSlots ==
    \A s \in DOMAIN ctx : ctx[s].active =>
        /\ Elapsed(ctx[s]) =< Timeout + idle
        /\ Current(ctx[s]) \/ Outdated(ctx[s])
        /\ Counted(ctx[s])
        /\ \A t \in DOMAIN ctx : t # s /\ ctx[t].active => ctx[t].key # ctx[s].key

(* A message that is neither complete nor lost to crowding has the slot    *)
(* with what has arrived of it, as long as more may arrive.                *)
Kept(k) == \E s \in DOMAIN ctx : /\ ctx[s].active /\ ctx[s].key = k
                                 /\ Current(ctx[s]) /\ ctx[s].received = arrived[k]

Awaited ==
    \A k \in Keys : ~crowded[k] /\ ~done[k] /\ Pieces(message[k]) \in 2 .. MaxFragments =>
        /\ arrived[k] # DOMAIN Split(k, message[k])
        /\ age[k] =< Delay /\ arrived[k] # {} => Kept(k)

IInv == Types /\ OpenSlots /\ Awaited /\ Whole

----
(* A function on 1 .. n is a sequence of length n.                         *)
LEMMA SeqOfLength ==
    ASSUME NEW S, NEW n \in Nat, NEW f \in [1 .. n -> S]
    PROVE  f \in Seq(S) /\ Len(f) = n /\ DOMAIN f = 1 .. n
<1>1. f \in Seq(S)
  BY SeqDef
<1>2. DOMAIN f = 1 .. Len(f) /\ DOMAIN f = 1 .. n /\ Len(f) \in Nat
  BY <1>1, LenProperties
<1>3. 1 .. Len(f) = 1 .. n
  BY <1>2
<1>4. Len(f) = n
  BY <1>2, <1>3
<1>5. QED
  BY <1>1, <1>2, <1>4

LEMMA CtxLemma ==
    ASSUME Types
    PROVE  /\ Len(ctx) \in Nat /\ Len(ctx) > 0 /\ DOMAIN ctx = 1 .. Len(ctx)
           /\ ctx \in [1 .. Len(ctx) -> Slot]
           /\ \A s \in DOMAIN ctx : ctx[s] \in Slot /\ Elapsed(ctx[s]) \in Nat
<1>1. /\ Len(ctx) \in Nat /\ DOMAIN ctx = 1 .. Len(ctx) /\ ctx \in [1 .. Len(ctx) -> Slot]
  BY LenProperties DEF Types
<1>2. Len(ctx) > 0
  BY <1>1, Consts DEF Types
<1>3. ASSUME NEW s \in DOMAIN ctx PROVE ctx[s] \in Slot /\ Elapsed(ctx[s]) \in Nat
  <2>1. ctx[s] \in Slot
    BY <1>1
  <2>2. ctx[s].start \in 0 .. TimeMod - 1 /\ now \in 0 .. TimeMod - 1
    BY <2>1 DEF Slot, Types
  <2>3. Elapsed(ctx[s]) \in Nat
    BY <2>2, Consts DEF Elapsed
  <2>4. QED
    BY <2>1, <2>3
<1>4. QED
  BY <1>1, <1>2, <1>3

(* What eviction leaves open is current, and it leaves alone what has been *)
(* open for no longer than the timeout.                                    *)
LEMMA EvictLemma ==
    ASSUME Types, OpenSlots
    PROVE  /\ Evict(ctx, now) \in [1 .. Len(ctx) -> Slot]
           /\ \A s \in 1 .. Len(ctx) : Evict(ctx, now)[s].active =>
                 /\ Evict(ctx, now)[s] = ctx[s] /\ ctx[s].active
                 /\ Elapsed(ctx[s]) =< Timeout /\ Current(ctx[s])
           /\ \A s \in 1 .. Len(ctx) : Elapsed(ctx[s]) =< Timeout => Evict(ctx, now)[s] = ctx[s]
<1> DEFINE e == Evict(ctx, now)
<1>1. /\ Len(ctx) \in Nat /\ DOMAIN ctx = 1 .. Len(ctx)
      /\ \A s \in 1 .. Len(ctx) : ctx[s] \in Slot /\ Elapsed(ctx[s]) \in Nat
  BY CtxLemma
<1>2. DOMAIN e = 1 .. Len(ctx)
  BY <1>1 DEF Evict
<1>3. ASSUME NEW s \in 1 .. Len(ctx)
      PROVE  /\ e[s] = IF Elapsed(ctx[s]) > Timeout THEN [ctx[s] EXCEPT !.active = FALSE] ELSE ctx[s]
             /\ e[s] \in Slot
  <2>1. e[s] = IF Elapsed(ctx[s]) > Timeout THEN [ctx[s] EXCEPT !.active = FALSE] ELSE ctx[s]
    BY <1>1 DEF Evict, Elapsed
  <2>2. [ctx[s] EXCEPT !.active = FALSE] \in Slot
    BY <1>1 DEF Slot
  <2>3. QED
    BY <1>1, <2>1, <2>2
<1>4. e \in [1 .. Len(ctx) -> Slot]
  <2>1. e = [s \in 1 .. Len(ctx) |-> e[s]]
    BY <1>1 DEF Evict
  <2> HIDE DEF e
  <2>2. QED
    BY <1>3, <2>1
<1> HIDE DEF e
<1>5. ASSUME NEW s \in 1 .. Len(ctx), e[s].active
      PROVE  e[s] = ctx[s] /\ ctx[s].active /\ Elapsed(ctx[s]) =< Timeout /\ Current(ctx[s])
  <2>1. ASSUME Elapsed(ctx[s]) > Timeout PROVE FALSE
    <3>1. e[s] = [ctx[s] EXCEPT !.active = FALSE]
      BY <1>3, <2>1
    <3>2. e[s].active = FALSE
      BY <1>1, <3>1 DEF Slot
    <3>3. QED
      BY <1>5, <3>2
  <2>2. e[s] = ctx[s] /\ Elapsed(ctx[s]) =< Timeout
    <3>1. Elapsed(ctx[s]) \in Nat /\ ~(Elapsed(ctx[s]) > Timeout)
      BY <1>1, <2>1
    <3>2. e[s] = ctx[s]
      BY <1>3, <3>1
    <3>3. QED
      BY <3>1, <3>2, Consts
  <2>3. Current(ctx[s]) \/ Outdated(ctx[s])
    BY <1>1, <1>5, <2>2 DEF OpenSlots
  <2>4. ctx[s].key \in Keys
    BY <1>1 DEF Slot
  <2>5. age[ctx[s].key] \in 0 .. Period
    BY <2>4 DEF Types
  <2>6. ~Outdated(ctx[s])
    BY <1>1, <2>2, <2>5, Consts DEF Outdated
  <2>7. QED
    BY <1>5, <2>2, <2>3, <2>6
<1>6. ASSUME NEW s \in 1 .. Len(ctx), Elapsed(ctx[s]) =< Timeout PROVE e[s] = ctx[s]
  <2>1. ~(Elapsed(ctx[s]) > Timeout)
    BY <1>1, <1>6, Consts
  <2>2. QED
    BY <1>3, <2>1
<1>7. QED
  BY <1>4, <1>5, <1>6 DEF e

(* The slot a fragment of key goes to: its own, or a free one, or none.    *)
LEMMA SlotForLemma ==
    ASSUME NEW n \in Nat, NEW e \in [1 .. n -> Slot], NEW k \in Keys
    PROVE  \/ /\ SlotFor(e, k) \in 1 .. n /\ e[SlotFor(e, k)].active
              /\ e[SlotFor(e, k)].key = k
           \/ /\ SlotFor(e, k) \in 1 .. n /\ ~e[SlotFor(e, k)].active
              /\ \A s \in 1 .. n : e[s].active => e[s].key # k
           \/ /\ SlotFor(e, k) = 0
              /\ \A s \in 1 .. n : e[s].active /\ e[s].key # k
<1> DEFINE own == {s \in DOMAIN e : e[s].active /\ e[s].key = k}
           free == {s \in DOMAIN e : ~e[s].active}
<1>1. own \subseteq Nat /\ free \subseteq Nat /\ DOMAIN e = 1 .. n
  OBVIOUS
<1>2. /\ own # {} => SlotFor(e, k) = Min(own)
      /\ own = {} /\ free # {} => SlotFor(e, k) = Min(free)
      /\ own = {} /\ free = {} => SlotFor(e, k) = 0
  BY Zenon DEF SlotFor
<1>3. CASE own # {}
  <2>1. SlotFor(e, k) \in own
    <3> HIDE DEF own
    <3> QED
      BY <1>1, <1>2, <1>3, MinLemma
  <2>2. QED
    BY <2>1
<1>4. CASE own = {} /\ free # {}
  <2>1. SlotFor(e, k) \in free
    <3> HIDE DEF own, free
    <3> QED
      BY <1>1, <1>2, <1>4, MinLemma
  <2>2. QED
    BY <1>4, <2>1
<1>5. CASE own = {} /\ free = {}
  BY <1>1, <1>2, <1>5
<1>6. QED
  BY <1>3, <1>4, <1>5

(* What a slot holds is a matter of these fields.                          *)
LEMMA HoldsSame ==
    ASSUME NEW p, NEW slot, NEW S, Holds(slot, p), S.received = slot.received,
           S.frag_total = slot.frag_total, S.frags_received = slot.frags_received,
           S.frag_lens = slot.frag_lens, S.data = slot.data
    PROVE  Holds(S, p)
<1>1. Filled(S, p)
  BY Zenon DEF Holds, Filled
<1>2. QED
  BY <1>1 DEF Holds

(* A fragment opens a free slot with nothing in it.                        *)
LEMMA OpenedLemma ==
    ASSUME NEW p \in Payloads, NEW slot \in Slot, NEW f, f.key \in Keys,
           f.frag_total = Pieces(p), Pieces(p) \in 2 .. MaxFragments,
           slot.active => slot.key = f.key /\ Holds(slot, p)
    PROVE  /\ Opened(slot, f) \in Slot /\ Holds(Opened(slot, f), p)
           /\ Opened(slot, f).active /\ Opened(slot, f).key = f.key
           /\ Opened(slot, f).start = slot.start
           /\ Opened(slot, f).received = IF slot.active THEN slot.received ELSE {}
<1>1. CASE slot.active
  BY <1>1 DEF Opened
<1>2. CASE ~slot.active
  <2> DEFINE new == [slot EXCEPT !.active = TRUE, !.key = f.key, !.frag_total = f.frag_total,
                                 !.frags_received = 0, !.received = {}]
  <2>1. Opened(slot, f) = new
    BY <1>2 DEF Opened
  <2>2. f.frag_total \in 0 .. MaxFragments /\ 0 \in 0 .. MaxFragments
    BY Consts
  <2>3. /\ new \in Slot /\ new.active = TRUE /\ new.key = f.key /\ new.received = {}
        /\ new.frag_total = Pieces(p) /\ new.frags_received = 0 /\ new.start = slot.start
    BY <2>2 DEF Slot
  <2> HIDE DEF new
  <2>4. Holds(new, p)
    BY <2>3, FS_EmptySet DEF Holds, Filled
  <2>5. QED
    BY <1>2, <2>1, <2>3, <2>4
<1>3. QED
  BY <1>1, <1>2

(* What one call does with a fragment of the last message of its key: it   *)
(* is refused for want of a slot or as the whole of an unfragmented        *)
(* message, kept in the key's slot, or it completes the message.           *)
Outcome(k, i, e, n, added) ==
    \/ /\ added.ctx = e /\ added.ret = -1
       /\ n = 0 \/ Pieces(message[k]) = 1
    \/ /\ n \in 1 .. Len(ctx)
       /\ \E S \in Slot :
             /\ added.ctx = [e EXCEPT ![n] = S]
             /\ S.key = k /\ Holds(S, message[k])
             /\ S.received = (IF e[n].active THEN e[n].received ELSE {}) \cup {i}
             /\ \/ /\ S.active /\ added.ret = 0 /\ S.frags_received # S.frag_total
                   /\ S.start = IF e[n].active THEN e[n].start ELSE now
                \/ ~S.active /\ added.ret = 1 /\ added.output = message[k]

LEMMA ArrivalLemma ==
    ASSUME Types, OpenSlots, NEW k \in Keys, NEW i \in OnTheWay(k),
           NEW e, e = Evict(ctx, now), NEW n, n = SlotFor(e, k),
           NEW added, added = AddTimed(ctx, Split(k, message[k])[i], now)
    PROVE  Outcome(k, i, e, n, added)
<1> USE DEF Outcome
<1> DEFINE p == message[k]
           f == Split(k, p)[i]
           slot == Stored(Opened(e[n], f), f)
<1>1. p \in Payloads /\ i \in DOMAIN Split(k, p)
  BY DEF Types, OnTheWay
<1>2. /\ f.key = k /\ f.fragmented = (Pieces(p) > 1) /\ f.frag_index = i
      /\ f.frag_total = Pieces(p) /\ Len(f.payload) = PieceLen(p, i)
      /\ \A j \in 1 .. PieceLen(p, i) : f.payload[j] = p[i * FragMax + j]
  BY <1>1, SplitLemma
<1>3. /\ Pieces(p) \in 1 .. MaxFragments /\ i \in 0 .. Pieces(p) - 1
      /\ PieceLen(p, i) \in 1 .. FragMax
  <2>1. Len(p) \in Nat
    BY <1>1, LenProperties DEF Payloads
  <2>2. Pieces(p) \in Nat /\ i \in 0 .. Pieces(p) - 1 /\ ~(Pieces(p) > MaxFragments)
    BY <1>1, <2>1, SplitLemma, PiecesLemma
  <2>3. QED
    BY <2>1, <2>2, PiecesLemma, Consts
<1> HIDE DEF p, f
<1>4. Malformed(f) <=> Pieces(p) = 1
  <2>1. f.fragmented <=> Pieces(p) > 1
    BY <1>2
  <2>2. ~(f.frag_index >= MaxFragments) /\ ~(Len(f.payload) > FragMax)
    BY <1>2, <1>3, Consts
  <2>3. Pieces(p) > 1 <=> Pieces(p) # 1
    BY <1>3, Consts
  <2>4. QED
    BY <2>1, <2>2, <2>3, Zenon DEF Malformed
<1>5. /\ e \in [1 .. Len(ctx) -> Slot] /\ Len(ctx) \in Nat
      /\ \A s \in 1 .. Len(ctx) : e[s].active => e[s] = ctx[s] /\ Current(ctx[s])
  BY EvictLemma, CtxLemma
<1>6. \/ n \in 1 .. Len(ctx) /\ (e[n].active => e[n].key = k)
      \/ n = 0
  BY <1>5, SlotForLemma
<1>7. n \in Nat /\ SlotFor(e, f.key) = n
  BY <1>2, <1>5, <1>6
<1>8. added = IF n > 0 /\ ~e[n].active /\ Add(e, f).ctx[n].active
              THEN [Add(e, f) EXCEPT !.ctx[n].start = now] ELSE Add(e, f)
  BY <1>7 DEF AddTimed, f, p
<1>9. CASE n = 0 \/ Pieces(p) = 1
  <2>1. Add(e, f) = [ctx |-> e, ret |-> -1, output |-> <<>>]
    <3>1. /\ Malformed(f) \/ SlotFor(e, f.key) = 0
          /\ ~(~Malformed(f) /\ SlotFor(e, f.key) > 0)
      BY <1>4, <1>7, <1>9
    <3> HIDE DEF slot
    <3>2. QED
      BY <3>1, Zenon DEF Add, Refused
  <2>2. ~(n > 0 /\ ~e[n].active /\ Add(e, f).ctx[n].active)
    BY <2>1
  <2>3. added = Add(e, f)
    BY <1>8, <2>2
  <2>4. QED
    BY <1>9, <2>1, <2>3 DEF p
<1>10. CASE n # 0 /\ Pieces(p) # 1
  <2>1. /\ n \in 1 .. Len(ctx) /\ n > 0 /\ e[n] \in Slot /\ Pieces(p) \in 2 .. MaxFragments
        /\ e[n].active => e[n].key = k
    BY <1>3, <1>5, <1>6, <1>10, Consts
  <2>2. e[n].active => Holds(e[n], p)
    BY <1>5, <2>1 DEF Current, p
  <2> DEFINE opened == Opened(e[n], f)
  <2>3. /\ opened \in Slot /\ Holds(opened, p) /\ opened.active /\ opened.key = k
        /\ opened.start = e[n].start
        /\ opened.received = IF e[n].active THEN e[n].received ELSE {}
    BY <1>1, <1>2, <2>1, <2>2, OpenedLemma
  <2>4. /\ slot \in Slot /\ Holds(slot, p) /\ slot.active /\ slot.key = k
        /\ slot.start = e[n].start
        /\ slot.received = opened.received \cup {i}
    <3> HIDE DEF opened
    <3>1. slot = Stored(opened, f)
      BY DEF opened
    <3> HIDE DEF slot
    <3>2. QED
      BY <1>1, <1>2, <1>3, <2>3, <3>1, StoredLemma
  <2>5. ~Malformed(f) /\ ~(n = 0)
    BY <1>4, <1>10
  <2>6. Add(e, f) = IF slot.frags_received = slot.frag_total
                    THEN [ctx |-> [e EXCEPT ![n] = [slot EXCEPT !.active = FALSE]],
                          ret |-> 1, output |-> Assembled(slot)]
                    ELSE [ctx |-> [e EXCEPT ![n] = slot], ret |-> 0, output |-> <<>>]
    BY <1>7, <2>1, <2>5, Zenon DEF Add
  <2> HIDE DEF slot, opened
  <2>7. /\ slot.active \in BOOLEAN
        /\ \A S \in Slot : [e EXCEPT ![n] = S][n] = S
    BY <1>5, <2>1, <2>4 DEF Slot
  <2>8. CASE slot.frags_received = slot.frag_total
    <3> DEFINE S == [slot EXCEPT !.active = FALSE]
    <3>1. /\ S \in Slot /\ S.active = FALSE /\ S.key = slot.key /\ S.received = slot.received
          /\ S.frag_total = slot.frag_total /\ S.frags_received = slot.frags_received
          /\ S.frag_lens = slot.frag_lens /\ S.data = slot.data
      BY <2>4 DEF Slot
    <3>2. /\ Add(e, f).ctx = [e EXCEPT ![n] = S] /\ Add(e, f).ret = 1
          /\ Add(e, f).output = Assembled(slot)
      BY <2>6, <2>8
    <3> HIDE DEF S
    <3>3. added = Add(e, f)
      <4>1. Add(e, f).ctx[n] = S
        BY <2>7, <3>1, <3>2
      <4>2. QED
        BY <1>8, <3>1, <4>1
    <3>4. Holds(S, p)
      BY <2>4, <3>1, HoldsSame
    <3>5. Assembled(slot) = p
      <4>1. slot.frag_lens \in [Indices -> Nat]
        <5>1. slot.frag_lens \in [Indices -> 0 .. FragMax]
          BY <2>4 DEF Slot
        <5>2. QED
          BY <5>1, Consts
      <4>2. QED
        BY <1>1, <2>4, <2>8, <4>1, AssembledLemma
    <3>6. QED
      BY <2>1, <2>3, <2>4, <3>1, <3>2, <3>3, <3>4, <3>5 DEF p
  <2>9. CASE slot.frags_received # slot.frag_total
    <3>1. /\ Add(e, f) = [ctx |-> [e EXCEPT ![n] = slot], ret |-> 0, output |-> <<>>]
          /\ Add(e, f).ctx[n] = slot
      <4>1. Add(e, f) = [ctx |-> [e EXCEPT ![n] = slot], ret |-> 0, output |-> <<>>]
        BY <2>6, <2>9
      <4>2. Add(e, f).ctx = [e EXCEPT ![n] = slot]
        BY <4>1
      <4>3. QED
        BY <2>4, <2>7, <4>1, <4>2
    <3>2. CASE e[n].active
      <4>1. added = Add(e, f)
        BY <1>8, <3>2
      <4>2. added.ctx = [e EXCEPT ![n] = slot] /\ added.ret = 0
        BY <3>1, <4>1
      <4>3. QED
        BY <2>1, <2>3, <2>4, <2>9, <3>2, <4>2 DEF p
    <3>3. CASE ~e[n].active
      <4> DEFINE S == [slot EXCEPT !.start = now]
      <4>1. /\ S \in Slot /\ S.active = slot.active /\ S.key = slot.key
            /\ S.received = slot.received /\ S.start = now
            /\ S.frag_total = slot.frag_total /\ S.frags_received = slot.frags_received
            /\ S.frag_lens = slot.frag_lens /\ S.data = slot.data
        BY <2>4 DEF Slot, Types
      <4>2. added = [Add(e, f) EXCEPT !.ctx[n].start = now]
        BY <1>8, <2>1, <2>4, <3>1, <3>3
      <4>3. added.ctx = [e EXCEPT ![n] = S] /\ added.ret = 0
        <5>1. added = [ctx |-> [[e EXCEPT ![n] = slot] EXCEPT ![n].start = now],
                       ret |-> 0, output |-> <<>>]
          BY <3>1, <4>2
        <5>2. [[e EXCEPT ![n] = slot] EXCEPT ![n].start = now] = [e EXCEPT ![n] = S]
          BY <1>5, <2>1
        <5>3. QED
          BY <5>1, <5>2
      <4> HIDE DEF S
      <4>4. Holds(S, p)
        BY <2>4, <4>1, HoldsSame
      <4>5. QED
        BY <2>1, <2>3, <2>4, <2>9, <3>3, <4>1, <4>3, <4>4 DEF p
    <3>4. QED
      BY <3>2, <3>3
  <2>10. QED
    BY <2>8, <2>9
<1>11. QED
  BY <1>9, <1>10

----
(* A message that is not complete in its slot is a message counted right.  *)
LEMMA CountedLemma ==
    ASSUME NEW p, NEW S, Holds(S, p), S.frags_received # S.frag_total
    PROVE  Counted(S)
<1>1. Pieces(p) \in Nat /\ Pieces(p) > 0
  BY Consts DEF Holds
<1>2. IsFiniteSet(0 .. Pieces(p) - 1) /\ Cardinality(0 .. Pieces(p) - 1) = Pieces(p)
  <2>1. 0 \in Int /\ Pieces(p) - 1 \in Int /\ ~(0 > Pieces(p) - 1) /\ Pieces(p) - 1 - 0 + 1 = Pieces(p)
    BY <1>1
  <2>2. QED
    BY <2>1, FS_Interval
<1>3. /\ S.received \in SUBSET (0 .. Pieces(p) - 1) /\ S.frags_received = Cardinality(S.received)
      /\ S.frag_total = Pieces(p)
  BY DEF Holds
<1>4. Cardinality(S.received) \in Nat /\ Cardinality(S.received) =< Pieces(p)
  BY <1>2, <1>3, FS_Subset, FS_CardinalityType
<1>5. QED
  BY <1>1, <1>3, <1>4 DEF Counted

(* A key without a slot has lost it to more keys than there are slots.     *)
LEMMA CrowdLemma ==
    ASSUME Types, OpenSlots, NEW k \in Keys, age[k] =< Delay,
           SlotFor(Evict(ctx, now), k) = 0
    PROVE  Cardinality(InUse) > Len(ctx)
<1> DEFINE N == Len(ctx)
           g == [s \in 1 .. N |-> ctx[s].key]
<1>1. /\ N \in Nat /\ DOMAIN ctx = 1 .. N
      /\ \A s \in 1 .. N : ctx[s] \in Slot /\ Elapsed(ctx[s]) \in Nat
  BY CtxLemma
<1> HIDE DEF N
<1>2. ASSUME NEW s \in 1 .. N
      PROVE  ctx[s].active /\ ctx[s].key \in InUse /\ ctx[s].key # k
  <2>1. Evict(ctx, now) \in [1 .. N -> Slot]
    BY EvictLemma DEF N
  <2>2. SlotFor(Evict(ctx, now), k) \notin 1 .. N
    OBVIOUS
  <2>3. Evict(ctx, now)[s].active /\ Evict(ctx, now)[s].key # k
    BY <1>1, <2>1, <2>2, SlotForLemma
  <2>4. /\ ctx[s].active /\ ctx[s].key # k /\ Elapsed(ctx[s]) =< Timeout
        /\ Current(ctx[s])
    BY <2>3, EvictLemma DEF N
  <2>5. ctx[s].key \in Keys /\ Elapsed(ctx[s]) \in Nat
    BY <1>1 DEF Slot
  <2>6. age[ctx[s].key] \in Nat /\ age[ctx[s].key] =< Elapsed(ctx[s]) + Delay
    BY <2>4, <2>5, Consts DEF Current, Types
  <2>7. age[ctx[s].key] =< Delay + Timeout
    BY <2>4, <2>5, <2>6, Consts
  <2>8. QED
    BY <2>4, <2>5, <2>7 DEF InUse
<1>3. IsFiniteSet(InUse) /\ k \in InUse
  <2>1. InUse \in SUBSET Keys /\ IsFiniteSet(Keys)
    BY Consts DEF InUse
  <2>2. age[k] \in Nat /\ age[k] =< Delay + Timeout
    BY Consts DEF Types
  <2>3. QED
    BY <2>1, <2>2, FS_Subset DEF InUse
<1>4. /\ g \in [1 .. N -> InUse \ {k}]
      /\ \A s \in 1 .. N, t \in 1 .. N : s # t => g[s] # g[t]
  BY <1>1, <1>2 DEF OpenSlots
<1> HIDE DEF g
<1>5. IsFiniteSet(1 .. N) /\ Cardinality(1 .. N) = N
  BY <1>1, FS_Interval
<1>6. /\ IsFiniteSet(InUse \ {k})
      /\ Cardinality(InUse \ {k}) = Cardinality(InUse) - 1
  BY <1>3, FS_RemoveElement
<1>7. ASSUME Cardinality(InUse \ {k}) < N PROVE FALSE
  <2> DEFINE R == 1 .. N
             T == InUse \ {k}
  <2>1. /\ IsFiniteSet(R) /\ IsFiniteSet(T) /\ Cardinality(T) < Cardinality(R)
        /\ g \in [R -> T]
    BY <1>4, <1>5, <1>6, <1>7
  <2> HIDE DEF R, T
  <2>2. \E x, y \in R : x # y /\ g[x] = g[y]
    BY <2>1, FS_PigeonHole
  <2>3. QED
    BY <1>4, <2>2 DEF R
<1>8. Cardinality(InUse) \in Nat
  BY <1>3, FS_CardinalityType
<1>9. QED
  BY <1>1, <1>6, <1>7, <1>8 DEF N

----
(* A fragment that arrives keeps the invariant: what is open afterwards is *)
(* current, and the slot of the message holds all that has arrived of it.  *)
LEMMA ArrivesStep ==
    ASSUME IInv, NEW k \in Keys, NEW i \in Indices, FragmentArrives(k, i)
    PROVE  IInv'
<1> USE DEF IInv
<1>0. PICK N, e, n, added : /\ N = Len(ctx) /\ e = Evict(ctx, now) /\ n = SlotFor(e, k)
                            /\ added = AddTimed(ctx, Split(k, message[k])[i], now)
  OBVIOUS
<1>1. /\ age[k] =< Delay /\ i \in OnTheWay(k)
      /\ ctx' = added.ctx
      /\ last' = [key |-> k, ret |-> added.ret, output |-> added.output]
      /\ done' = [done EXCEPT ![k] = done[k] \/ added.ret = 1]
      /\ arrived' = [arrived EXCEPT ![k] = arrived[k] \cup {i}]
      /\ crowded' = [crowded EXCEPT ![k] = crowded[k] \/ Cardinality(InUse) > Len(ctx)]
      /\ idle' = 0 /\ now' = now /\ sent' = sent /\ message' = message /\ age' = age
  BY <1>0 DEF FragmentArrives
<1>2. /\ N \in Nat /\ DOMAIN ctx = 1 .. N
      /\ \A s \in 1 .. N : ctx[s] \in Slot /\ Elapsed(ctx[s]) \in Nat
  BY <1>0, CtxLemma
<1>3. /\ e \in [1 .. N -> Slot]
      /\ \A s \in 1 .. N : e[s].active =>
            e[s] = ctx[s] /\ ctx[s].active /\ Elapsed(ctx[s]) =< Timeout /\ Current(ctx[s])
      /\ \A s \in 1 .. N : Elapsed(ctx[s]) =< Timeout => e[s] = ctx[s]
  BY <1>0, EvictLemma
<1>4. n \in 1 .. N /\ e[n].active => e[n].key = k
  BY <1>0, <1>2, <1>3, SlotForLemma
<1>5. n \in 1 .. N => \A s \in 1 .. N : s # n /\ e[s].active => e[s].key # k
  <2>1. SUFFICES ASSUME n \in 1 .. N, NEW s \in 1 .. N, s # n, e[s].active, e[s].key = k
                 PROVE  FALSE
    OBVIOUS
  <2>2. e[n].active /\ e[n].key = k
    BY <1>0, <1>2, <1>3, <2>1, SlotForLemma, SMTT(30)
  <2>3. ctx[s].active /\ ctx[n].active /\ ctx[s].key = ctx[n].key
    BY <1>3, <2>1, <2>2
  <2>4. QED
    BY <1>2, <2>1, <2>3 DEF OpenSlots
<1>6. \/ /\ ctx' = e /\ added.ret = -1
         /\ n = 0 \/ Pieces(message[k]) = 1
      \/ /\ n \in 1 .. N
         /\ \E S \in Slot :
               /\ ctx' = [e EXCEPT ![n] = S]
               /\ S.key = k /\ Holds(S, message[k])
               /\ S.received = (IF e[n].active THEN e[n].received ELSE {}) \cup {i}
               /\ \/ /\ S.active /\ added.ret = 0 /\ S.frags_received # S.frag_total
                     /\ S.start = IF e[n].active THEN e[n].start ELSE now
                  \/ ~S.active /\ added.ret = 1 /\ added.output = message[k]
  <2>1. Types /\ OpenSlots /\ i \in OnTheWay(k)
    BY <1>1
  <2>2. Outcome(k, i, e, n, added)
    BY <1>0, <2>1, ArrivalLemma
  <2>3. QED
    BY <1>0, <1>1, <2>2 DEF Outcome
<1>7. n = 0 => Cardinality(InUse) > N
  BY <1>0, <1>1, CrowdLemma
<1>8. ctx' \in [1 .. N -> Slot] /\ added.ret \in {-1, 0, 1}
  BY <1>3, <1>6
<1>9. ctx' \in Seq(Slot) /\ Len(ctx') = N /\ DOMAIN ctx' = 1 .. N
  BY <1>2, <1>8, SeqOfLength
<1>10. /\ now \in 0 .. TimeMod - 1 /\ message \in [Keys -> Payloads]
       /\ age \in [Keys -> 0 .. Period] /\ arrived \in [Keys -> SUBSET Indices]
       /\ \A l \in Keys : arrived[l] \subseteq DOMAIN Split(l, message[l])
       /\ crowded \in [Keys -> BOOLEAN] /\ done \in [Keys -> BOOLEAN]
       /\ i \in DOMAIN Split(k, message[k])
  BY <1>1 DEF Types, OnTheWay
<1>11. /\ arrived'[k] = arrived[k] \cup {i} /\ \A l \in Keys : l # k => arrived'[l] = arrived[l]
       /\ \A l \in Keys : l # k => crowded'[l] = crowded[l] /\ done'[l] = done[l]
       /\ ~crowded'[k] => ~crowded[k] /\ ~(Cardinality(InUse) > N)
       /\ ~done'[k] => ~done[k] /\ added.ret # 1
  BY <1>0, <1>1, <1>10
<1>12. Types'
  <2>1. Len(ctx') \in Slots
    BY <1>0, <1>9 DEF Types
  <2>2. idle' \in 0 .. Quiet /\ now' \in 0 .. TimeMod - 1 /\ sent' \in 0 .. MaxMessages
    BY <1>1, Consts DEF Types
  <2>3. /\ arrived' \in [Keys -> SUBSET Indices]
        /\ \A l \in Keys : arrived'[l] \subseteq DOMAIN Split(l, message'[l])
    BY <1>1, <1>10, <1>11
  <2>4. done' \in [Keys -> BOOLEAN] /\ crowded' \in [Keys -> BOOLEAN]
    BY <1>1, <1>10
  <2>5. last'.key \in Keys /\ last'.ret \in {-1, 0, 1}
    BY <1>1, <1>8
  <2>6. QED
    BY <1>1, <1>9, <1>10, <2>1, <2>2, <2>3, <2>4, <2>5 DEF Types
<1>13. Whole'
  <2>1. added.ret = 1 => added.output = message[k]
    BY <1>6
  <2>2. last'.ret = added.ret /\ last'.output = added.output /\ last'.key = k
    BY <1>1
  <2>3. QED
    BY <1>1, <2>1, <2>2 DEF Whole
(* A slot that was open before and is left alone, and the one stored to.   *)
<1>14. ASSUME NEW s \in 1 .. N, e[s].active, ctx'[s] = e[s]
       PROVE  /\ ctx'[s] = ctx[s] /\ ctx[s].active
              /\ Elapsed(ctx[s])' =< Timeout /\ Current(ctx[s])' /\ Counted(ctx[s])'
  <2>1. /\ ctx'[s] = ctx[s] /\ ctx[s].active /\ Elapsed(ctx[s]) =< Timeout /\ Current(ctx[s])
        /\ ctx[s].key \in Keys
    BY <1>2, <1>3, <1>14 DEF Slot
  <2>2. Elapsed(ctx[s])' = Elapsed(ctx[s])
    BY <1>1, <2>1 DEF Elapsed
  <2>3. arrived[ctx[s].key] \subseteq arrived'[ctx[s].key]
    BY <1>11, <2>1
  <2>4. Current(ctx[s])'
    BY <1>1, <2>1, <2>2, <2>3 DEF Current
  <2>5. Counted(ctx[s])
    BY <1>2, <2>1 DEF OpenSlots
  <2>6. QED
    BY <2>1, <2>2, <2>4, <2>5 DEF Counted
<1>15. ASSUME n \in 1 .. N, ctx'[n].active, ctx'[n].key = k, Holds(ctx'[n], message[k]),
              ctx'[n].received = (IF e[n].active THEN e[n].received ELSE {}) \cup {i},
              ctx'[n].frags_received # ctx'[n].frag_total,
              ctx'[n].start = IF e[n].active THEN e[n].start ELSE now
       PROVE  Elapsed(ctx[n])' =< Timeout /\ Current(ctx[n])' /\ Counted(ctx[n])'
  <2>1. Counted(ctx[n])'
    <3>1. Counted(ctx'[n])
      BY <1>15, CountedLemma
    <3>2. QED
      BY <3>1 DEF Counted
  <2>2. age[k] \in 0 .. Period
    BY <1>10
  <2>3. CASE e[n].active
    <3>1. /\ e[n] = ctx[n] /\ ctx[n].active /\ Elapsed(ctx[n]) =< Timeout /\ Current(ctx[n])
          /\ ctx[n].key = k
      BY <1>3, <1>4, <1>15, <2>3
    <3>2. Elapsed(ctx[n])' = Elapsed(ctx[n])
      BY <1>1, <1>15, <2>3, <3>1 DEF Elapsed
    <3>3. ctx'[n].received \subseteq arrived'[k]
      BY <1>11, <1>15, <2>3, <3>1 DEF Current
    <3>4. Current(ctx[n])'
      BY <1>1, <1>15, <3>1, <3>2, <3>3 DEF Current
    <3>5. QED
      BY <2>1, <3>1, <3>2, <3>4
  <2>4. CASE ~e[n].active
    <3>1. Elapsed(ctx[n])' = 0
      <4>1. ctx'[n].start = now /\ now - now = 0 /\ 0 % TimeMod = 0
        BY <1>10, <1>15, <2>4, Consts
      <4>2. QED
        BY <1>1, <1>10, <4>1, Consts DEF Elapsed
    <3>2. ctx'[n].received \subseteq arrived'[k]
      BY <1>11, <1>15, <2>4
    <3>3. age[k] =< 0 + Delay /\ (age[k] < Period => 0 =< age[k])
      BY <1>1, <2>2, Consts
    <3>4. Current(ctx[n])'
      BY <1>1, <1>15, <3>1, <3>2, <3>3 DEF Current
    <3>5. QED
      BY <2>1, <3>1, <3>4, Consts
  <2>5. QED
    BY <2>3, <2>4
<1>16. ASSUME NEW s \in 1 .. N, ctx'[s].active
       PROVE  /\ Elapsed(ctx[s])' =< Timeout /\ Current(ctx[s])' /\ Counted(ctx[s])'
              /\ \/ s = n /\ ctx'[s].key = k
                 \/ e[s].active /\ ctx'[s] = e[s] /\ (n \in 1 .. N => s # n)
  <2>1. CASE ctx' = e /\ (n = 0 \/ Pieces(message[k]) = 1)
    <3>1. CASE s = n
      BY <1>4, <1>14, <1>16, <2>1, <3>1
    <3>2. CASE s # n
      BY <1>14, <1>16, <2>1, <3>2
    <3>3. QED
      BY <3>1, <3>2
  <2>2. ASSUME n \in 1 .. N, NEW S \in Slot, ctx' = [e EXCEPT ![n] = S],
               S.key = k, Holds(S, message[k]),
               S.received = (IF e[n].active THEN e[n].received ELSE {}) \cup {i},
               \/ /\ S.active /\ added.ret = 0 /\ S.frags_received # S.frag_total
                  /\ S.start = IF e[n].active THEN e[n].start ELSE now
               \/ ~S.active /\ added.ret = 1 /\ added.output = message[k]
        PROVE  /\ Elapsed(ctx[s])' =< Timeout /\ Current(ctx[s])' /\ Counted(ctx[s])'
               /\ \/ s = n /\ ctx'[s].key = k
                  \/ e[s].active /\ ctx'[s] = e[s] /\ (n \in 1 .. N => s # n)
    <3>1. CASE s = n
      <4>1. ctx'[n] = S
        BY <1>3, <2>2
      <4>2. /\ S.active /\ S.frags_received # S.frag_total
            /\ S.start = IF e[n].active THEN e[n].start ELSE now
        BY <1>16, <2>2, <3>1, <4>1
      <4>3. QED
        BY <1>15, <2>2, <3>1, <4>1, <4>2
    <3>2. CASE s # n
      <4>1. ctx'[s] = e[s]
        BY <1>3, <2>2, <3>2
      <4>2. QED
        BY <1>14, <1>16, <3>2, <4>1
    <3>3. QED
      BY <3>1, <3>2
  <2>3. QED
    BY <1>6, <2>1, <2>2
<1>17. OpenSlots'
  <2>1. ASSUME NEW s \in 1 .. N, NEW t \in 1 .. N, s # t, ctx'[s].active, ctx'[t].active
        PROVE  ctx'[s].key # ctx'[t].key
    <3>1. CASE s = n
      BY <1>4, <1>5, <1>16, <2>1, <3>1
    <3>2. CASE t = n
      BY <1>4, <1>5, <1>16, <2>1, <3>2
    <3>3. CASE s # n /\ t # n
      <4>1. ctx'[s] = ctx[s] /\ ctx'[t] = ctx[t] /\ ctx[s].active /\ ctx[t].active
        BY <1>3, <1>16, <2>1, <3>3
      <4>2. QED
        BY <1>2, <2>1, <4>1 DEF OpenSlots
    <3>4. QED
      BY <3>1, <3>2, <3>3
  <2>2. Timeout =< Timeout + idle' /\ Timeout + idle' = Timeout
    BY <1>1, Consts
  <2>3. ASSUME NEW s \in DOMAIN ctx', ctx'[s].active
        PROVE  /\ Elapsed(ctx[s])' =< Timeout + idle' /\ Current(ctx[s])' /\ Counted(ctx[s])'
               /\ \A t \in DOMAIN ctx' : t # s /\ ctx'[t].active => ctx'[t].key # ctx'[s].key
    BY <1>9, <1>16, <2>1, <2>2, <2>3
  <2>4. QED
    BY <2>3 DEF OpenSlots
(* The slot of a message that is still awaited has survived the eviction.  *)
<1>18. ASSUME NEW l \in Keys, age[l] =< Delay, Kept(l)
       PROVE  \E s \in 1 .. N : /\ e[s].active /\ e[s] = ctx[s] /\ ctx[s].key = l
                               /\ ctx[s].received = arrived[l]
  <2>1. PICK s \in 1 .. N : /\ ctx[s].active /\ ctx[s].key = l
                            /\ Current(ctx[s]) /\ ctx[s].received = arrived[l]
    BY <1>2, <1>18 DEF Kept
  <2>2. age[l] \in 0 .. Period
    BY <1>10
  <2>3. Elapsed(ctx[s]) \in Nat /\ Elapsed(ctx[s]) =< age[l]
    BY <1>2, <1>18, <2>1, <2>2, Consts DEF Current
  <2>4. Elapsed(ctx[s]) =< Timeout
    BY <1>18, <2>2, <2>3, Consts
  <2>5. QED
    BY <1>3, <2>1, <2>4
<1>19. ASSUME NEW l \in Keys, ~crowded'[l], ~done'[l], Pieces(message[l]) \in 2 .. MaxFragments
       PROVE  /\ arrived'[l] # DOMAIN Split(l, message[l])
              /\ age[l] =< Delay /\ arrived'[l] # {} => Kept(l)'
  <2>1. ~crowded[l] /\ ~done[l]
    BY <1>11, <1>19
  <2>2. CASE l # k
    <3>1. arrived'[l] = arrived[l] /\ arrived[l] # DOMAIN Split(l, message[l])
      BY <1>11, <1>19, <2>1, <2>2 DEF Awaited
    <3>2. ASSUME age[l] =< Delay, arrived'[l] # {} PROVE Kept(l)'
      <4>1. Kept(l)
        BY <1>19, <2>1, <3>1, <3>2 DEF Awaited
      <4>2. PICK s \in 1 .. N : /\ e[s].active /\ e[s] = ctx[s] /\ ctx[s].key = l
                                /\ ctx[s].received = arrived[l]
        BY <1>18, <3>2, <4>1
      <4>3. s # n \/ n \notin 1 .. N
        BY <1>4, <2>2, <4>2
      <4>4. ctx'[s] = ctx[s]
        BY <1>3, <1>6, <4>2, <4>3
      <4>5. ctx'[s].active /\ Current(ctx[s])'
        BY <1>14, <4>2, <4>4
      <4>6. QED
        BY <1>9, <3>1, <4>2, <4>4, <4>5 DEF Kept
    <3>3. QED
      BY <3>1, <3>2
  <2>3. CASE l = k
    <3>1. n # 0 /\ Pieces(message[k]) # 1 /\ added.ret # 1
      BY <1>7, <1>11, <1>19, <2>3
    <3>2. PICK S \in Slot :
             /\ n \in 1 .. N /\ ctx' = [e EXCEPT ![n] = S]
             /\ S.key = k /\ Holds(S, message[k])
             /\ S.received = (IF e[n].active THEN e[n].received ELSE {}) \cup {i}
             /\ S.active /\ S.frags_received # S.frag_total
      BY <1>6, <3>1
    <3>3. ctx'[n] = S
      BY <1>3, <3>2
    <3>4. S.received = arrived'[k]
      <4>1. CASE arrived[k] = {}
        <5>1. e[n].active => e[n].received = {}
          BY <1>3, <1>4, <3>2, <4>1 DEF Current
        <5>2. QED
          BY <1>11, <3>2, <4>1, <5>1
      <4>2. CASE arrived[k] # {}
        <5>1. Kept(k)
          BY <1>1, <1>19, <2>1, <2>3, <4>2 DEF Awaited
        <5>2. PICK s \in 1 .. N : /\ e[s].active /\ e[s] = ctx[s] /\ ctx[s].key = k
                                  /\ ctx[s].received = arrived[k]
          BY <1>1, <1>18, <5>1
        <5>3. s = n
          BY <1>5, <3>2, <5>2
        <5>4. QED
          BY <1>11, <3>2, <5>2, <5>3
      <4>3. QED
        BY <4>1, <4>2
    <3>5. arrived'[k] # DOMAIN Split(k, message[k])
      <4>1. DOMAIN Split(k, message[k]) = 0 .. Pieces(message[k]) - 1
        <5>1. ~(Pieces(message[k]) > MaxFragments)
          BY <1>19, <2>3, Consts
        <5>2. QED
          BY <1>10, <5>1, SplitLemma
      <4>2. Cardinality(0 .. Pieces(message[k]) - 1) = Pieces(message[k])
        <5>1. /\ 0 \in Int /\ Pieces(message[k]) - 1 \in Int /\ ~(0 > Pieces(message[k]) - 1)
              /\ Pieces(message[k]) - 1 - 0 + 1 = Pieces(message[k])
          BY <1>19, <2>3, Consts
        <5>2. QED
          BY <5>1, FS_Interval
      <4>3. Cardinality(S.received) # Pieces(message[k])
        BY <3>2 DEF Holds
      <4>4. QED
        BY <3>4, <4>1, <4>2, <4>3
    <3>6. Kept(k)'
      <4>1. Current(ctx[n])' /\ ctx'[n].active /\ ctx'[n].key = k /\ ctx'[n].received = arrived'[k]
        BY <1>16, <3>2, <3>3, <3>4
      <4>2. QED
        BY <1>9, <3>2, <4>1 DEF Kept
    <3>7. QED
      BY <2>3, <3>5, <3>6
  <2>4. QED
    BY <2>2, <2>3
<1>20. Awaited'
  BY <1>1, <1>19 DEF Awaited
<1>21. QED
  BY <1>12, <1>13, <1>17, <1>20

LEMMA ChosenKey == (CHOOSE k \in Keys : TRUE) \in Keys
BY Consts

(* At first no slot is open and nothing is awaited.                        *)
LEMMA InitStep == Init => IInv
<1> SUFFICES ASSUME Init PROVE IInv
  OBVIOUS
<1> DEFINE fresh == FreshSlot(CHOOSE k \in Keys : TRUE)
<1>1. PICK n \in Slots : ctx = [s \in 1 .. n |-> fresh]
  BY DEF Init, FreshCtx
<1>2. fresh \in Slot /\ fresh.active = FALSE
  <2>1. /\ 0 \in 0 .. MaxFragments /\ 0 \in 0 .. FragMax /\ 0 \in 0 .. TimeMod - 1
    BY Consts
  <2>2. QED
    BY <2>1, ChosenKey DEF FreshSlot, Slot
<1> HIDE DEF fresh
<1>3. n \in Nat /\ ctx \in [1 .. n -> Slot]
  BY <1>1, <1>2, Consts
<1>4. ctx \in Seq(Slot) /\ Len(ctx) = n /\ DOMAIN ctx = 1 .. n
  BY <1>3, SeqOfLength
<1>5. \A s \in DOMAIN ctx : ctx[s].active = FALSE
  BY <1>1, <1>2, <1>4
<1>6. message = [k \in Keys |-> <<>>] /\ <<>> \in Payloads
  BY DEF Init, Payloads
<1>7. Types
  <2>1. 0 \in 0 .. Quiet /\ 0 \in 0 .. MaxMessages /\ Period \in 0 .. Period /\ now \in 0 .. TimeMod - 1
    BY Consts DEF Init
  <2>2. last.key \in Keys /\ last.ret = 0
    BY ChosenKey DEF Init, None
  <2>3. QED
    BY <1>4, <1>6, <2>1, <2>2 DEF Init, Types
<1>8. OpenSlots
  BY <1>5 DEF OpenSlots
<1>9. Awaited
  <2>1. Pieces(<<>>) = 0
    BY Consts DEF Pieces
  <2>2. QED
    BY <1>6, <2>1 DEF Awaited
<1>10. Whole
  BY DEF Init, None, Whole
<1>11. QED
  BY <1>7, <1>8, <1>9, <1>10 DEF IInv

(* Slots and bookkeeping of a key that a step leaves alone.                *)
LEMMA SameSlot ==
    ASSUME NEW s, ctx'[s] = ctx[s], now' = now, age'[ctx[s].key] = age[ctx[s].key],
           message'[ctx[s].key] = message[ctx[s].key],
           arrived'[ctx[s].key] = arrived[ctx[s].key]
    PROVE  /\ Elapsed(ctx[s])' = Elapsed(ctx[s])
           /\ Current(ctx[s])' = Current(ctx[s])
           /\ Outdated(ctx[s])' = Outdated(ctx[s])
<1>1. Elapsed(ctx[s])' = Elapsed(ctx[s])
  BY DEF Elapsed
<1>2. QED
  BY <1>1 DEF Current, Outdated

(* A new message makes the slot its key still has outdated.                *)
LEMMA SendStep ==
    ASSUME IInv, NEW k \in Keys, SendMessage(k)
    PROVE  IInv'
<1> USE DEF IInv
<1>1. /\ age[k] = Period /\ sent < MaxMessages /\ sent' = sent + 1
      /\ age' = [age EXCEPT ![k] = 0] /\ arrived' = [arrived EXCEPT ![k] = {}]
      /\ crowded' = [crowded EXCEPT ![k] = FALSE] /\ done' = [done EXCEPT ![k] = FALSE]
      /\ last' = None /\ ctx' = ctx /\ now' = now /\ idle' = idle
  BY DEF SendMessage
<1>2. PICK tag \in Tags, len \in Lengths : message' = [message EXCEPT ![k] = Payload(k, tag, len)]
  BY DEF SendMessage
<1>3. Payload(k, tag, len) \in Payloads
  <2>1. len \in Nat
    BY Consts
  <2>2. Payload(k, tag, len) \in [1 .. len -> Content]
    BY <2>1 DEF Payload, Content
  <2>3. Payload(k, tag, len) \in Seq(Content) /\ Len(Payload(k, tag, len)) = len
    BY <2>1, <2>2, SeqOfLength
  <2>4. QED
    BY <2>3 DEF Payload, Payloads
<1>4. /\ message \in [Keys -> Payloads] /\ age \in [Keys -> 0 .. Period]
      /\ arrived \in [Keys -> SUBSET Indices]
      /\ crowded \in [Keys -> BOOLEAN] /\ done \in [Keys -> BOOLEAN]
      /\ \A l \in Keys : arrived[l] \subseteq DOMAIN Split(l, message[l])
  BY DEF Types
<1>5. /\ arrived'[k] = {} /\ age'[k] = 0
      /\ \A l \in Keys : l # k => /\ message'[l] = message[l] /\ age'[l] = age[l]
                                  /\ arrived'[l] = arrived[l]
                                  /\ crowded'[l] = crowded[l] /\ done'[l] = done[l]
  BY <1>1, <1>2, <1>4
<1>6. message' \in [Keys -> Payloads]
  BY <1>2, <1>3, <1>4
<1>7. Types'
  <2>1. sent' \in 0 .. MaxMessages /\ age' \in [Keys -> 0 .. Period]
    BY <1>1, <1>4, Consts DEF Types
  <2>2. /\ arrived' \in [Keys -> SUBSET Indices]
        /\ \A l \in Keys : arrived'[l] \subseteq DOMAIN Split(l, message'[l])
    BY <1>1, <1>4, <1>5
  <2>3. crowded' \in [Keys -> BOOLEAN] /\ done' \in [Keys -> BOOLEAN]
    BY <1>1, <1>4
  <2>4. last'.key \in Keys /\ last'.ret = 0
    BY <1>1, ChosenKey DEF None
  <2>5. QED
    BY <1>1, <1>6, <2>1, <2>2, <2>3, <2>4 DEF Types
<1>8. Whole'
  BY <1>1 DEF None, Whole
<1>9. \A s \in DOMAIN ctx : ctx[s] \in Slot /\ Elapsed(ctx[s]) \in Nat
  BY CtxLemma
<1>10. ASSUME NEW s \in DOMAIN ctx, ctx[s].key # k
       PROVE  /\ Elapsed(ctx[s])' = Elapsed(ctx[s]) /\ Current(ctx[s])' = Current(ctx[s])
              /\ Outdated(ctx[s])' = Outdated(ctx[s])
  <2>1. ctx[s].key \in Keys
    BY <1>9 DEF Slot
  <2>2. QED
    BY <1>1, <1>5, <1>10, <2>1, SameSlot
<1>11. ASSUME NEW s \in DOMAIN ctx, ctx[s].active
       PROVE  Elapsed(ctx[s])' = Elapsed(ctx[s]) /\ (Current(ctx[s])' \/ Outdated(ctx[s])')
  <2>1. Current(ctx[s]) \/ Outdated(ctx[s])
    BY <1>11 DEF OpenSlots
  <2>2. CASE ctx[s].key # k
    BY <1>10, <2>1, <2>2
  <2>3. CASE ctx[s].key = k
    <3>1. Elapsed(ctx[s])' = Elapsed(ctx[s])
      BY <1>1 DEF Elapsed
    <3>2. Elapsed(ctx[s]) >= Period - Delay
      BY <1>1, <1>9, <2>1, <2>3, Consts DEF Current, Outdated
    <3>3. Outdated(ctx[s])'
      <4>1. age'[ctx'[s].key] = 0
        BY <1>1, <1>5, <2>3
      <4>2. Elapsed(ctx[s])' >= 0 + Period - Delay
        BY <3>1, <3>2, Consts
      <4>3. QED
        BY <4>1, <4>2 DEF Outdated
    <3>4. QED
      BY <3>1, <3>3
  <2>4. QED
    BY <2>2, <2>3
<1>12. OpenSlots'
  BY <1>1, <1>11 DEF OpenSlots, Counted
<1>13. ASSUME NEW l \in Keys, ~crowded'[l], ~done'[l], Pieces(message'[l]) \in 2 .. MaxFragments
       PROVE  /\ arrived'[l] # DOMAIN Split(l, message'[l])
              /\ age'[l] =< Delay /\ arrived'[l] # {} => Kept(l)'
  <2>1. CASE l # k
    <3>1. Kept(l) => Kept(l)'
      BY <1>1, <1>5, <1>10, <2>1 DEF Kept
    <3>2. QED
      BY <1>5, <1>13, <2>1, <3>1 DEF Awaited
  <2>2. CASE l = k
    <3>1. DOMAIN Split(l, message'[l]) = 0 .. Pieces(message'[l]) - 1
      <4>1. ~(Pieces(message'[l]) > MaxFragments) /\ message'[l] \in Payloads
        BY <1>6, <1>13, Consts
      <4>2. QED
        BY <4>1, SplitLemma
    <3>2. 0 \in 0 .. Pieces(message'[l]) - 1
      BY <1>13, Consts
    <3>3. QED
      BY <1>5, <2>2, <3>1, <3>2
  <2>3. QED
    BY <2>1, <2>2
<1>14. Awaited'
  BY <1>13 DEF Awaited
<1>15. QED
  BY <1>7, <1>8, <1>12, <1>14

(* Time since start on a clock that wraps, and one tick later.             *)
LEMMA ClockDiff ==
    ASSUME NEW M \in Nat \ {0}, NEW a \in 0 .. M - 1, NEW b \in 0 .. M - 1
    PROVE  (a - b) % M = IF a >= b THEN a - b ELSE a - b + M
OBVIOUS

LEMMA ClockTick ==
    ASSUME NEW M \in Nat \ {0}, NEW a \in 0 .. M - 1, NEW b \in 0 .. M - 1, NEW c \in 0 .. M - 1,
           c = IF a + 1 = M THEN 0 ELSE a + 1, ((a - b) % M) + 1 < M
    PROVE  (c - b) % M = ((a - b) % M) + 1
<1>1. (a - b) % M = IF a >= b THEN a - b ELSE a - b + M
  BY ClockDiff
<1>2. (c - b) % M = IF c >= b THEN c - b ELSE c - b + M
  BY ClockDiff
<1> DEFINE x == (a - b) % M
           y == (c - b) % M
<1>3. /\ x = IF a >= b THEN a - b ELSE a - b + M
      /\ y = IF c >= b THEN c - b ELSE c - b + M
      /\ x + 1 < M
  BY <1>1, <1>2
<1> HIDE DEF x, y
<1>4. y = x + 1
  BY <1>3
<1>5. QED
  BY <1>4 DEF x, y

(* The clock does not come round while a slot can stay open.               *)
LEMMA TickStep ==
    ASSUME IInv, Tick
    PROVE  IInv'
<1> USE DEF IInv
<1>1. /\ idle < Quiet /\ idle' = idle + 1 /\ now' = (now + 1) % TimeMod
      /\ age' = [k \in Keys |-> IF age[k] < Period THEN age[k] + 1 ELSE Period]
      /\ last' = None
      /\ ctx' = ctx /\ sent' = sent /\ message' = message /\ arrived' = arrived
      /\ crowded' = crowded /\ done' = done
  BY DEF Tick
<1>2. /\ idle \in Nat /\ now \in 0 .. TimeMod - 1
      /\ age \in [Keys -> 0 .. Period]
  BY Consts DEF Types
<1>3. \A k \in Keys : /\ age[k] \in Nat /\ age'[k] \in Nat /\ age'[k] =< age[k] + 1
                      /\ age'[k] < Period => age'[k] = age[k] + 1 /\ age[k] < Period
                      /\ age'[k] =< Delay => age[k] =< Delay
                      /\ age'[k] =< Period
  BY <1>1, <1>2, Consts
<1>4. Types'
  <2>1. idle' \in 0 .. Quiet /\ now' \in 0 .. TimeMod - 1
    BY <1>1, <1>2, Consts DEF Types
  <2>2. age' \in [Keys -> 0 .. Period]
    BY <1>1, <1>3, Consts
  <2>3. last'.key \in Keys /\ last'.ret = 0
    BY <1>1, ChosenKey DEF None
  <2>4. QED
    BY <1>1, <2>1, <2>2, <2>3 DEF Types
<1>5. Whole'
  BY <1>1 DEF None, Whole
<1>6. \A s \in DOMAIN ctx : ctx[s] \in Slot /\ Elapsed(ctx[s]) \in Nat /\ ctx[s].key \in Keys
  BY CtxLemma DEF Slot
<1>7. ASSUME NEW s \in DOMAIN ctx, ctx[s].active
      PROVE  /\ Elapsed(ctx[s])' = Elapsed(ctx[s]) + 1
             /\ Current(ctx[s]) => Current(ctx[s])'
             /\ Outdated(ctx[s]) => Outdated(ctx[s])'
  <2>1. Elapsed(ctx[s])' = Elapsed(ctx[s]) + 1
    <3>1. ctx[s].start \in 0 .. TimeMod - 1
      BY <1>6 DEF Slot
    <3>2. Elapsed(ctx[s]) + 1 < TimeMod
      BY <1>1, <1>2, <1>6, <1>7, Consts DEF OpenSlots
    <3>3. now' = IF now + 1 = TimeMod THEN 0 ELSE now + 1
      BY <1>1, <1>2, Consts
    <3>4. now' \in 0 .. TimeMod - 1 /\ ctx'[s].start = ctx[s].start /\ TimeMod \in Nat \ {0}
      BY <1>1, <1>4, Consts DEF Types
    <3>5. ((now - ctx[s].start) % TimeMod) + 1 < TimeMod
      BY <3>2 DEF Elapsed
    <3>6. (now' - ctx[s].start) % TimeMod = ((now - ctx[s].start) % TimeMod) + 1
      BY <1>2, <3>1, <3>3, <3>4, <3>5, ClockTick
    <3>7. QED
      BY <3>4, <3>6 DEF Elapsed
  <2>2. ASSUME Current(ctx[s]) PROVE Current(ctx[s])'
    <3>1. /\ age[ctx[s].key] =< Elapsed(ctx[s]) + Delay
          /\ age[ctx[s].key] < Period => Elapsed(ctx[s]) =< age[ctx[s].key]
      BY <2>2 DEF Current
    <3>2. /\ age'[ctx[s].key] =< Elapsed(ctx[s])' + Delay
          /\ age'[ctx[s].key] < Period => Elapsed(ctx[s])' =< age'[ctx[s].key]
      BY <1>3, <1>6, <2>1, <3>1, Consts
    <3>3. QED
      BY <1>1, <2>2, <3>2 DEF Current
  <2>3. ASSUME Outdated(ctx[s]) PROVE Outdated(ctx[s])'
    <3>1. Elapsed(ctx[s]) >= age[ctx[s].key] + Period - Delay
      BY <2>3 DEF Outdated
    <3>2. Elapsed(ctx[s])' >= age'[ctx[s].key] + Period - Delay
      BY <1>3, <1>6, <2>1, <3>1, Consts
    <3>3. QED
      BY <1>1, <3>2 DEF Outdated
  <2>4. QED
    BY <2>1, <2>2, <2>3
<1>8. OpenSlots'
  <2>1. ASSUME NEW s \in DOMAIN ctx, ctx[s].active
        PROVE  Elapsed(ctx[s])' =< Timeout + idle'
    BY <1>1, <1>2, <1>6, <1>7, <2>1, Consts DEF OpenSlots
  <2>2. QED
    BY <1>1, <1>7, <2>1 DEF OpenSlots, Counted
<1>9. \A k \in Keys : Kept(k) => Kept(k)'
  BY <1>1, <1>7 DEF Kept
<1>10. Awaited'
  BY <1>1, <1>3, <1>9 DEF Awaited
<1>11. QED
  BY <1>4, <1>5, <1>8, <1>10

LEMMA StutterStep ==
    ASSUME IInv, UNCHANGED vars
    PROVE  IInv'
<1> USE DEF IInv, vars
<1>1. \A s \in DOMAIN ctx : /\ Elapsed(ctx[s])' = Elapsed(ctx[s])
                            /\ Current(ctx[s])' = Current(ctx[s])
                            /\ Outdated(ctx[s])' = Outdated(ctx[s])
  BY SameSlot
<1>2. Types'
  BY DEF Types
<1>3. OpenSlots'
  BY <1>1 DEF OpenSlots, Counted
<1>4. Awaited'
  BY <1>1 DEF Awaited, Kept
<1>5. Whole'
  BY DEF Whole
<1>6. QED
  BY <1>2, <1>3, <1>4, <1>5

LEMMA IndStep == IInv /\ [Next]_vars => IInv'
<1> SUFFICES ASSUME IInv, [Next]_vars PROVE IInv'
  OBVIOUS
<1>1. CASE \E k \in Keys : SendMessage(k)
  BY <1>1, SendStep
<1>2. CASE \E k \in Keys, i \in Indices : FragmentArrives(k, i)
  BY <1>2, ArrivesStep
<1>3. CASE Tick
  BY <1>3, TickStep
<1>4. CASE Rest
  BY <1>4, StutterStep DEF Rest
<1>5. CASE UNCHANGED vars
  BY <1>5, StutterStep
<1>6. QED
  BY <1>1, <1>2, <1>3, <1>4, <1>5 DEF Next

LEMMA Invariant == Spec => []IInv
BY InitStep, IndStep, PTL DEF Spec

----
(* Every slot of ks_reassembly_ctx_t keeps its fields in their ranges, so  *)
(* no index leaves an array, whatever arrives when (kestrel.c:1286-1374).  *)
THEOREM TypeCorrect == Spec => []TypeOK
<1>1. IInv => TypeOK
  <2> SUFFICES ASSUME IInv PROVE TypeOK
    OBVIOUS
  <2>1. \A s \in DOMAIN ctx : ctx[s] \in Slot
    BY CtxLemma DEF IInv
  <2>2. QED
    BY <2>1 DEF IInv, Types, TypeOK
<1>2. QED
  BY <1>1, Invariant, PTL

(* An open slot belongs to one key, has counted each of its fragments once *)
(* and is not complete: "received" and "frags_received" agree              *)
(* (kestrel.c:1294-1371), for every number and size of fragments.          *)
THEOREM ConsistentSlots == Spec => []SlotsConsistent
<1>1. IInv => SlotsConsistent
  <2> SUFFICES ASSUME IInv PROVE SlotsConsistent
    OBVIOUS
  <2>1. \A s \in DOMAIN ctx : ctx[s] \in Slot
    BY CtxLemma DEF IInv
  <2>2. TypeOK
    BY <2>1 DEF IInv, Types, TypeOK
  <2>3. QED
    BY <2>2 DEF IInv, OpenSlots, Counted, SlotsConsistent
<1>2. QED
  BY <1>1, Invariant, PTL

(* What ks_reassembly_add_timed hands over is a message as it was sent,    *)
(* byte for byte and of its whole length, although slots are used again,   *)
(* keys come back and the clock wraps (kestrel.c:1286-1374, 2215-2275).    *)
THEOREM WholeMessages == Spec => []Whole
BY Invariant, PTL DEF IInv

(* A message all of whose fragments arrive is handed over unless more keys *)
(* than slots were in use: slots of incomplete messages are evicted before *)
(* their key comes back (the "BUG-09 FIX", kestrel_core.h:679-681).        *)
THEOREM CompleteMessages == Spec => []Complete
<1>1. IInv => Complete
  <2> SUFFICES ASSUME IInv, NEW k \in Keys, arrived[k] = DOMAIN Split(k, message[k]),
                      Cardinality(arrived[k]) > 1, ~crowded[k], ~done[k]
               PROVE  FALSE
    BY DEF Complete
  <2>1. message[k] \in Payloads /\ Len(message[k]) \in Nat
    BY LenProperties DEF IInv, Types, Payloads
  <2>2. Pieces(message[k]) \in Nat
    BY <2>1, PiecesLemma
  <2>3. Pieces(message[k]) \notin 2 .. MaxFragments
    BY DEF IInv, Awaited
  <2>4. CASE Pieces(message[k]) > MaxFragments
    <3>1. arrived[k] = {}
      BY <2>1, <2>4, SplitLemma
    <3>2. QED
      BY <3>1, FS_EmptySet
  <2>5. CASE ~(Pieces(message[k]) > MaxFragments)
    <3>1. arrived[k] = 0 .. Pieces(message[k]) - 1 /\ Pieces(message[k]) \in 0 .. 1
      BY <2>1, <2>2, <2>3, <2>5, SplitLemma, Consts
    <3>2. Cardinality(arrived[k]) =< 1
      <4>1. /\ 0 \in Int /\ Pieces(message[k]) - 1 \in Int
        BY <2>2
      <4>2. Cardinality(0 .. Pieces(message[k]) - 1) =
               IF 0 > Pieces(message[k]) - 1 THEN 0 ELSE Pieces(message[k]) - 1 - 0 + 1
        BY <4>1, FS_Interval
      <4>3. QED
        BY <2>2, <3>1, <4>2
    <3>3. Cardinality(arrived[k]) \in Nat
      BY <3>1, FS_Interval, FS_CardinalityType, <2>2, SMTT(30)
    <3>4. QED
      BY <3>2, <3>3
  <2>6. QED
    BY <2>4, <2>5
<1>2. QED
  BY <1>1, Invariant, PTL
====
