---- MODULE Payload_proofs ----
(***************************************************************************)
(* Proofs about Batch for all limits, messages and payloads: the reader    *)
(* stays in its buffers whatever it is given, a failed batch shows         *)
(* nothing, and what was packed is what is read.                           *)
(*                                                                         *)
(* Then about Messages, for any samples that fill the fields, every half   *)
(* and packets of any length: what the tables write is what they read,     *)
(* rates are cut to halves and halves read exactly, and the checksum       *)
(* notices what the line does to a packet behind its message number.       *)
(*                                                                         *)
(* FlattenSeq and the checksum are recursive functions: what is needed of  *)
(* them is proved by looking at the smallest counterexample.               *)
(***************************************************************************)
EXTENDS Batch, Messages, SequenceTheorems, WellFoundedInduction, TLAPS

Read == [id : Nat \X Nat, data : Seq(Nat)]

(* The message of one iteration, which reads from offset p.                *)
ReadAt(bytes, p) ==
    [id |-> <<bytes[p + 1], bytes[p + 2]>>,
     data |-> SubSeq(bytes, p + 4, p + 3 + bytes[p + 3])]

Entries(batch) == [i \in 1 .. Len(batch) |-> Entry(batch[i])]

(* The offset behind the entries of the messages read.                     *)
Behind(ms) == 1 + Len(FlattenSeq(Entries(ms)))

(* Concatenations of the first sequences, one after the other.             *)
Joins(g, ss, n) ==
    /\ g[1] = ss[1]
    /\ \A i \in 2 .. n : g[i] = g[i - 1] \o ss[i]

LEMMA Consts ==
    /\ MaxMessages \in Nat /\ MaxMessages > 0 /\ MaxData \in Nat /\ MaxPayload \in Nat
    /\ Byte \subseteq Nat /\ Ids # {} /\ Ids \subseteq Nat \X Nat
    /\ Texts \subseteq Seq(Nat) /\ Foreign \in Nat
<1>1. Byte \subseteq Nat => Byte \X Byte \subseteq Nat \X Nat
  OBVIOUS
<1>2. QED
  BY <1>1, BatchAssumption

(* Every nonempty set of naturals has a smallest element.                  *)
LEMMA Smallest ==
    ASSUME NEW S, S \subseteq Nat, S # {}
    PROVE  \E n \in S : \A m \in S : n =< m
<1>1. IsWellFoundedOn(OpToRel(<, Nat), Nat)
  BY NatLessThanWellFounded
<1> DEFINE R == OpToRel(<, Nat)
<1> HIDE DEF R
<1>2. IsWellFoundedOn(R, Nat)
  BY <1>1 DEF R
<1>3. PICK n \in S : \A m \in S : ~(<<m, n>> \in R)
  BY <1>2, WFMin
<1>4. \A m \in S : <<m, n>> \in R <=> m < n
  BY DEF R, OpToRel
<1>5. n \in Nat /\ \A m \in S : m \in Nat /\ ~(m < n)
  BY <1>3, <1>4
<1>6. \A m \in S : n =< m
  BY <1>5
<1>7. QED
  BY <1>6

(* A function on 1 .. n is a sequence of length n.                         *)
LEMMA SeqOfLength ==
    ASSUME NEW S, NEW n \in Nat, NEW f \in [1 .. n -> S]
    PROVE  f \in Seq(S) /\ Len(f) = n /\ DOMAIN f = 1 .. n
<1>1. f \in Seq(S)
  BY SeqDef
<1>2. DOMAIN f = 1 .. Len(f) /\ DOMAIN f = 1 .. n /\ Len(f) \in Nat
  BY <1>1, LenProperties
<1>3. 1 .. Len(f) = 1 .. n
  BY <1>2
<1>4. Len(f) = n
  BY <1>2, <1>3
<1>5. QED
  BY <1>1, <1>2, <1>4

(* Any sequences can be joined, ...                                        *)
LEMMA JoinsExist ==
    ASSUME NEW S, NEW ss \in Seq(Seq(S)), NEW n \in 1 .. Len(ss)
    PROVE  \E g \in [1 .. n -> Seq(S)] : Joins(g, ss, n)
<1> DEFINE Open == {m \in 1 .. Len(ss) : ~\E g \in [1 .. m -> Seq(S)] : Joins(g, ss, m)}
<1>1. SUFFICES ASSUME n \in Open PROVE FALSE
  OBVIOUS
<1>2. Len(ss) \in Nat /\ \A m \in 1 .. Len(ss) : ss[m] \in Seq(S)
  BY LenProperties, ElementOfSeq
<1>3. PICK m \in Open : \A l \in Open : m =< l
  <2>1. Open \subseteq Nat /\ Open # {}
    BY <1>1
  <2> HIDE DEF Open
  <2>2. QED
    BY <2>1, Smallest
<1>4. m \in 1 .. Len(ss)
  OBVIOUS
<1>5. m # 1
  <2> DEFINE g == [i \in 1 .. 1 |-> ss[1]]
  <2>1. 1 \in 1 .. Len(ss)
    BY <1>2, <1>4
  <2>2. g \in [1 .. 1 -> Seq(S)] /\ g[1] = ss[1]
    BY <1>2, <2>1
  <2> HIDE DEF g
  <2>3. Joins(g, ss, 1)
    BY <2>2 DEF Joins
  <2>4. QED
    BY <1>3, <2>2, <2>3
<1>6. m - 1 \in 1 .. Len(ss) /\ m - 1 \notin Open
  <2>1. m - 1 \in 1 .. Len(ss) /\ ~(m =< m - 1)
    BY <1>2, <1>4, <1>5
  <2> HIDE DEF Open
  <2>2. QED
    BY <1>3, <2>1
<1>7. PICK h \in [1 .. m - 1 -> Seq(S)] : Joins(h, ss, m - 1)
  BY <1>6
<1> DEFINE g == [i \in 1 .. m |-> IF i = m THEN h[m - 1] \o ss[m] ELSE h[i]]
<1>8. h[m - 1] \in Seq(S) /\ ss[m] \in Seq(S) /\ h[m - 1] \o ss[m] \in Seq(S)
  BY <1>2, <1>4, <1>6, <1>7, ConcatProperties
<1>9. g \in [1 .. m -> Seq(S)]
  BY <1>2, <1>4, <1>7, <1>8
<1>10. g[1] = ss[1]
  BY <1>2, <1>4, <1>5, <1>7 DEF Joins
<1>11. ASSUME NEW i \in 2 .. m PROVE g[i] = g[i - 1] \o ss[i]
  <2>1. g[i - 1] = h[i - 1]
    BY <1>2, <1>4
  <2>2. CASE i = m
    <3>1. m \in 1 .. m
      BY <1>2, <1>4
    <3>2. g[m] = h[m - 1] \o ss[m]
      BY <3>1
    <3> HIDE DEF g
    <3>3. QED
      BY <2>1, <2>2, <3>2
  <2>3. CASE i # m
    <3>1. i \in 2 .. m - 1 /\ i \in 1 .. m
      BY <1>2, <1>4, <2>3
    <3>2. h[i] = h[i - 1] \o ss[i]
      BY <1>7, <3>1 DEF Joins
    <3>3. QED
      BY <2>1, <2>3, <3>1, <3>2
  <2>4. QED
    BY <2>2, <2>3
<1> HIDE DEF g
<1>12. Joins(g, ss, m)
  BY <1>10, <1>11 DEF Joins
<1>13. QED
  BY <1>3, <1>9, <1>12

(* ... and FlattenSeq is the last of any such joins.                       *)
LEMMA FlattenLemma ==
    ASSUME NEW S, NEW ss \in Seq(Seq(S)), Len(ss) > 0, NEW g, Joins(g, ss, Len(ss))
    PROVE  FlattenSeq(ss) = g[Len(ss)]
<1> DEFINE N == Len(ss)
           F(h) == [i \in 1 .. N |-> IF i = 1 THEN ss[i] ELSE h[i - 1] \o ss[i]]
           f == CHOOSE h : h = F(h)
<1>1. N \in Nat /\ N > 0
  BY LenProperties
<1>2. \E h : h = F(h)
  <2>1. PICK h \in [1 .. N -> Seq(S)] : Joins(h, ss, N)
    BY <1>1, JoinsExist
  <2> HIDE DEF N
  <2>2. h = F(h)
    <3>1. h = [i \in 1 .. N |-> h[i]]
      BY <2>1
    <3>2. ASSUME NEW i \in 1 .. N PROVE h[i] = IF i = 1 THEN ss[i] ELSE h[i - 1] \o ss[i]
      <4>1. i = 1 \/ i \in 2 .. N
        BY <1>1
      <4>2. h[1] = ss[1] /\ \A j \in 2 .. N : h[j] = h[j - 1] \o ss[j]
        BY <2>1 DEF Joins
      <4>3. \A j \in 2 .. N : j # 1
        BY <1>1
      <4>4. QED
        BY <4>1, <4>2, <4>3
    <3>3. QED
      BY <3>1, <3>2
  <2>3. QED
    BY <2>2
<1>3. f = F(f)
  <2> HIDE DEF F
  <2> QED
    BY <1>2
<1>4. FlattenSeq(ss) = f[N]
  BY <1>1 DEF FlattenSeq
<1> HIDE DEF f, N
<1>5. f[1] = ss[1] /\ \A i \in 2 .. N : f[i] = f[i - 1] \o ss[i]
  <2>1. 1 \in 1 .. N /\ \A i \in 2 .. N : i \in 1 .. N /\ i # 1
    BY <1>1
  <2>2. \A i \in 1 .. N : f[i] = IF i = 1 THEN ss[i] ELSE f[i - 1] \o ss[i]
    BY <1>3
  <2>3. QED
    BY <2>1, <2>2
<1>6. g[1] = ss[1] /\ \A i \in 2 .. N : g[i] = g[i - 1] \o ss[i]
  BY DEF Joins, N
<1> DEFINE Off == {i \in 1 .. N : f[i] # g[i]}
<1>7. SUFFICES ASSUME Off # {} PROVE FALSE
  BY <1>1, <1>4 DEF N
<1>8. PICK n \in Off : \A l \in Off : n =< l
  <2>1. Off \subseteq Nat /\ Off # {}
    BY <1>7
  <2> HIDE DEF Off
  <2>2. QED
    BY <2>1, Smallest
<1>9. n \in 2 .. N /\ n - 1 \in 1 .. N /\ ~(n =< n - 1)
  BY <1>1, <1>5, <1>6, <1>8
<1>10. f[n - 1] = g[n - 1]
  BY <1>8, <1>9
<1>11. QED
  BY <1>5, <1>6, <1>8, <1>9, <1>10

LEMMA FlattenEmpty ==
    ASSUME NEW S, NEW ss \in Seq(Seq(S)), Len(ss) = 0
    PROVE  FlattenSeq(ss) = <<>>
<1>1. ss = <<>>
  BY EmptySeq
<1>2. QED
  BY <1>1 DEF FlattenSeq

LEMMA FlattenType ==
    ASSUME NEW S, NEW ss \in Seq(Seq(S))
    PROVE  FlattenSeq(ss) \in Seq(S)
<1>1. Len(ss) \in Nat
  BY LenProperties
<1>2. CASE Len(ss) = 0
  BY <1>2, FlattenEmpty, EmptySeq
<1>3. CASE Len(ss) > 0
  <2>1. Len(ss) \in 1 .. Len(ss)
    BY <1>1, <1>3
  <2>2. PICK g \in [1 .. Len(ss) -> Seq(S)] : Joins(g, ss, Len(ss))
    BY <2>1, JoinsExist
  <2>3. FlattenSeq(ss) = g[Len(ss)]
    BY <1>3, <2>2, FlattenLemma
  <2>4. QED
    BY <2>1, <2>2, <2>3
<1>4. QED
  BY <1>1, <1>2, <1>3

(* One more sequence comes at the end of what the others are flattened to. *)
LEMMA FlattenAppend ==
    ASSUME NEW S, NEW ss \in Seq(Seq(S)), NEW s \in Seq(S)
    PROVE  FlattenSeq(Append(ss, s)) = FlattenSeq(ss) \o s
<1> DEFINE n == Len(ss)
           tt == Append(ss, s)
<1>1. /\ n \in Nat /\ tt \in Seq(Seq(S)) /\ Len(tt) = n + 1 /\ tt[n + 1] = s
      /\ \A i \in 1 .. n : tt[i] = ss[i]
  BY LenProperties, AppendProperties
<1> HIDE DEF tt
<1>2. CASE n = 0
  <2> DEFINE g == [i \in 1 .. 1 |-> s]
  <2>1. g[1] = tt[1] /\ \A i \in 2 .. 1 : g[i] = g[i - 1] \o tt[i]
    BY <1>1, <1>2
  <2>2. g[1] = s
    OBVIOUS
  <2> HIDE DEF g
  <2>3. Joins(g, tt, Len(tt)) /\ Len(tt) = 1 /\ Len(tt) > 0
    BY <1>1, <1>2, <2>1 DEF Joins
  <2>4. FlattenSeq(tt) = s
    BY <1>1, <2>2, <2>3, FlattenLemma
  <2>5. FlattenSeq(ss) = <<>> /\ <<>> \o s = s
    BY <1>2, FlattenEmpty, ConcatEmptySeq
  <2>6. QED
    BY <2>4, <2>5 DEF tt
<1>3. CASE n > 0
  <2>1. n \in 1 .. n
    BY <1>1, <1>3
  <2>2. PICK g \in [1 .. n -> Seq(S)] : Joins(g, ss, n)
    BY <2>1, JoinsExist
  <2>3. FlattenSeq(ss) = g[n]
    BY <1>3, <2>2, FlattenLemma
  <2> DEFINE h == [i \in 1 .. n + 1 |-> IF i = n + 1 THEN g[n] \o s ELSE g[i]]
  <2>4. /\ h[n + 1] = g[n] \o s
        /\ \A i \in 1 .. n : h[i] = g[i]
    BY <1>1, SMTT(30)
  <2> HIDE DEF h, n
  <2>5. h[1] = tt[1]
    <3>1. 1 \in 1 .. n
      BY <1>1, <1>3
    <3>2. QED
      BY <1>1, <2>2, <2>4, <3>1 DEF Joins
  <2>6. ASSUME NEW i \in 2 .. n + 1 PROVE h[i] = h[i - 1] \o tt[i]
    <3>1. i - 1 \in 1 .. n /\ h[i - 1] = g[i - 1]
      BY <1>1, <2>4
    <3>2. CASE i = n + 1
      <4>1. i - 1 = n
        BY <1>1, <3>2
      <4>2. QED
        BY <1>1, <2>4, <3>1, <3>2, <4>1
    <3>3. CASE i # n + 1
      <4>1. i \in 2 .. n /\ i \in 1 .. n
        BY <1>1, <3>3
      <4>2. g[i] = g[i - 1] \o ss[i]
        BY <2>2, <4>1 DEF Joins
      <4>3. QED
        BY <1>1, <2>4, <3>1, <4>1, <4>2
    <3>4. QED
      BY <3>2, <3>3
  <2>7. Joins(h, tt, Len(tt)) /\ Len(tt) > 0
    <3>1. Joins(h, tt, n + 1)
      BY <2>5, <2>6 DEF Joins
    <3>2. Len(tt) = n + 1 /\ n + 1 > 0
      BY <1>1
    <3>3. QED
      BY <3>1, <3>2
  <2>8. FlattenSeq(tt) = h[n + 1]
    BY <1>1, <2>7, FlattenLemma
  <2>9. QED
    BY <2>3, <2>4, <2>8 DEF tt
<1>4. QED
  BY <1>1, <1>2, <1>3

(* Each sequence lies in the flattened one behind those before it.         *)
LEMMA FlattenPart ==
    ASSUME NEW ss \in Seq(Seq(Nat)), NEW pre \in Seq(Seq(Nat)), Len(pre) < Len(ss),
           \A i \in 1 .. Len(pre) : pre[i] = ss[i]
    PROVE  /\ Len(FlattenSeq(pre)) + Len(ss[Len(pre) + 1]) =< Len(FlattenSeq(ss))
           /\ \A q \in 1 .. Len(ss[Len(pre) + 1]) :
                 FlattenSeq(ss)[Len(FlattenSeq(pre)) + q] = ss[Len(pre) + 1][q]
<1> DEFINE n == Len(ss)
           j == Len(pre)
           at == Len(FlattenSeq(pre))
           part == ss[j + 1]
<1>1. /\ n \in Nat /\ j \in Nat /\ j < n /\ at \in Nat
      /\ \A i \in 1 .. n : ss[i] \in Seq(Nat) /\ Len(ss[i]) \in Nat
  <2>1. n \in Nat /\ j \in Nat /\ j < n
    BY LenProperties
  <2>2. FlattenSeq(pre) \in Seq(Nat)
    BY FlattenType
  <2>3. at \in Nat
    BY <2>2, LenProperties
  <2>4. \A i \in 1 .. n : ss[i] \in Seq(Nat)
    BY ElementOfSeq
  <2>5. \A i \in 1 .. n : Len(ss[i]) \in Nat
    BY <2>4, LenProperties
  <2>6. QED
    BY <2>1, <2>3, <2>4, <2>5
<1>2. n \in 1 .. n /\ n > 0
  BY <1>1
<1>3. PICK g \in [1 .. n -> Seq(Nat)] : Joins(g, ss, n)
  BY <1>2, JoinsExist
<1>4. FlattenSeq(ss) = g[n]
  BY <1>2, <1>3, FlattenLemma
<1>5. j > 0 => FlattenSeq(pre) = g[j]
  <2>1. SUFFICES ASSUME j > 0 PROVE FlattenSeq(pre) = g[j]
    OBVIOUS
  <2>2. Joins(g, pre, j)
    <3>1. g[1] = ss[1] /\ \A i \in 2 .. n : g[i] = g[i - 1] \o ss[i]
      BY <1>3 DEF Joins
    <3>2. 1 \in 1 .. j /\ \A i \in 2 .. j : i \in 2 .. n /\ i \in 1 .. j
      BY <1>1, <2>1
    <3>3. \A i \in 1 .. j : pre[i] = ss[i]
      OBVIOUS
    <3>4. g[1] = pre[1] /\ \A i \in 2 .. j : g[i] = g[i - 1] \o pre[i]
      BY <3>1, <3>2, <3>3
    <3>5. QED
      BY <3>4 DEF Joins
  <2>3. QED
    BY <2>1, <2>2, FlattenLemma
<1>6. j = 0 => FlattenSeq(pre) = <<>>
  BY FlattenEmpty
<1> DEFINE Has(s) == /\ at + Len(part) =< Len(s)
                     /\ \A q \in 1 .. Len(part) : s[at + q] = part[q]
           Off == {i \in j + 1 .. n : ~Has(g[i])}
<1>7. part \in Seq(Nat) /\ Len(part) \in Nat
  BY <1>1
<1> HIDE DEF n, j, at, part
<1>8. Has(g[j + 1])
  <2>1. CASE j = 0
    <3>1. at = 0
      BY <1>6, <2>1, EmptySeq DEF at
    <3>2. g[j + 1] = part
      BY <1>3, <2>1 DEF Joins, part
    <3>3. QED
      BY <1>7, <3>1, <3>2
  <2>2. CASE j > 0
    <3>1. g[j + 1] = g[j] \o part /\ g[j] \in Seq(Nat) /\ at = Len(g[j])
      <4>1. j + 1 \in 2 .. n /\ j \in 1 .. n /\ j + 1 - 1 = j
        BY <1>1, <2>2
      <4>2. \A i \in 2 .. n : g[i] = g[i - 1] \o ss[i]
        BY <1>3 DEF Joins
      <4>3. g[j + 1] = g[j] \o part
        <5>1. PICK i \in 2 .. n : i = j + 1 /\ i - 1 = j
          BY <4>1
        <5>2. g[i] = g[i - 1] \o ss[i]
          BY <4>2
        <5>3. QED
          BY <5>1, <5>2 DEF part
      <4>4. at = Len(g[j])
        BY <1>5, <2>2 DEF at
      <4>5. QED
        BY <1>3, <4>1, <4>3, <4>4
    <3>2. /\ Len(g[j] \o part) = at + Len(part)
          /\ \A q \in 1 .. at + Len(part) :
                (g[j] \o part)[q] = IF q =< at THEN g[j][q] ELSE part[q - at]
      BY <1>7, <3>1, ConcatProperties
    <3>3. ASSUME NEW q \in 1 .. Len(part) PROVE g[j + 1][at + q] = part[q]
      <4>1. at + q \in 1 .. at + Len(part) /\ ~(at + q =< at) /\ at + q - at = q
        BY <1>1, <1>7
      <4>2. QED
        BY <3>1, <3>2, <4>1
    <3>4. QED
      BY <1>1, <1>7, <3>1, <3>2, <3>3
  <2>3. QED
    BY <1>1, <2>1, <2>2
<1>9. SUFFICES ASSUME Off # {} PROVE FALSE
  <2>1. n \in j + 1 .. n
    BY <1>1
  <2>2. Off = {} => Has(FlattenSeq(ss))
    BY <1>4, <2>1
  <2>3. QED
    BY <1>9, <2>2 DEF at, part, j
<1>10. PICK i \in Off : \A l \in Off : i =< l
  <2>1. Off \subseteq Nat /\ Off # {}
    BY <1>1, <1>9, SMTT(30)
  <2> HIDE DEF Off
  <2>2. QED
    BY <2>1, Smallest
<1>11. i \in j + 2 .. n /\ i - 1 \in j + 1 .. n /\ ~(i =< i - 1)
  <2>1. i \in j + 1 .. n /\ i # j + 1
    BY <1>8, <1>10
  <2>2. QED
    BY <1>1, <2>1
<1>12. Has(g[i - 1])
  BY <1>10, <1>11
<1>13. g[i] = g[i - 1] \o ss[i] /\ g[i - 1] \in Seq(Nat) /\ ss[i] \in Seq(Nat)
  <2>1. i \in 2 .. n /\ i - 1 \in 1 .. n /\ i \in 1 .. n
    BY <1>1, <1>11
  <2>2. QED
    BY <1>1, <1>3, <2>1 DEF Joins
<1>14. PICK s, t : s = g[i - 1] /\ t = ss[i]
  OBVIOUS
<1>15. s \in Seq(Nat) /\ t \in Seq(Nat) /\ Len(s) \in Nat /\ Len(t) \in Nat
  BY <1>13, <1>14, LenProperties
<1>16. /\ Len(s \o t) = Len(s) + Len(t)
       /\ \A q \in 1 .. Len(s) + Len(t) : (s \o t)[q] = IF q =< Len(s) THEN s[q] ELSE t[q - Len(s)]
  BY <1>15, ConcatProperties
<1>17. Has(s) /\ g[i] = s \o t
  BY <1>12, <1>13, <1>14
<1>18. Has(s \o t)
  <2>1. at + Len(part) =< Len(s \o t)
    BY <1>1, <1>7, <1>15, <1>16, <1>17
  <2>2. ASSUME NEW q \in 1 .. Len(part) PROVE (s \o t)[at + q] = part[q]
    <3>1. at + Len(part) =< Len(s) /\ s[at + q] = part[q]
      BY <1>17
    <3>2. q \in Int /\ 1 =< q /\ q =< Len(part)
      BY <1>7
    <3>3. at + q =< Len(s) /\ at + q \in 1 .. Len(s) + Len(t)
      <4>1. PICK k \in Nat, a \in Nat, x \in Nat, y \in Nat :
                 k = Len(part) /\ a = at /\ x = Len(s) /\ y = Len(t)
        BY <1>1, <1>7, <1>15
      <4>2. a + k =< x /\ 1 =< q /\ q =< k /\ q \in Int
        BY <3>1, <3>2, <4>1
      <4>3. a + q =< x /\ a + q \in 1 .. x + y
        BY <4>2
      <4>4. QED
        BY <4>1, <4>3
    <3>4. QED
      BY <1>16, <3>1, <3>3
  <2>3. QED
    BY <2>1, <2>2
<1>19. QED
  BY <1>10, <1>17, <1>18

----
(* What a message is packed into.                                          *)
LEMMA EntryLemma ==
    ASSUME NEW m \in Read
    PROVE  /\ m.data \in Seq(Nat) /\ Len(m.data) \in Nat
           /\ m = [id |-> <<m.id[1], m.id[2]>>, data |-> m.data]
           /\ m.id[1] \in Nat /\ m.id[2] \in Nat
           /\ Entry(m) \in Seq(Nat)
           /\ Len(Entry(m)) = 3 + Len(m.data)
           /\ Entry(m)[1] = m.id[1] /\ Entry(m)[2] = m.id[2] /\ Entry(m)[3] = Len(m.data)
           /\ \A q \in 1 .. Len(m.data) : Entry(m)[3 + q] = m.data[q]
<1>1. m.id \in Nat \X Nat /\ m.data \in Seq(Nat) /\ m = [id |-> m.id, data |-> m.data]
  BY DEF Read
<1>2. m.id = <<m.id[1], m.id[2]>> /\ m.id[1] \in Nat /\ m.id[2] \in Nat
  BY <1>1
<1>3. Len(m.data) \in Nat
  BY <1>1, LenProperties
<1> DEFINE head == <<m.id[1], m.id[2], Len(m.data)>>
<1>4. /\ head \in Seq(Nat) /\ Len(head) = 3
      /\ head[1] = m.id[1] /\ head[2] = m.id[2] /\ head[3] = Len(m.data)
  BY <1>2, <1>3
<1>5. Entry(m) = head \o m.data
  BY DEF Entry
<1> HIDE DEF head
<1>6. /\ Entry(m) \in Seq(Nat) /\ Len(Entry(m)) = 3 + Len(m.data)
      /\ \A i \in 1 .. 3 + Len(m.data) :
            Entry(m)[i] = IF i =< 3 THEN head[i] ELSE m.data[i - 3]
  <2>1. /\ head \o m.data \in Seq(Nat) /\ Len(head \o m.data) = Len(head) + Len(m.data)
        /\ \A i \in 1 .. Len(head) + Len(m.data) :
              (head \o m.data)[i] = IF i =< Len(head) THEN head[i] ELSE m.data[i - Len(head)]
    BY <1>1, <1>4, ConcatProperties
  <2>2. QED
    BY <1>4, <1>5, <2>1
<1>7. Entry(m)[1] = head[1] /\ Entry(m)[2] = head[2] /\ Entry(m)[3] = head[3]
  <2>1. 1 \in 1 .. 3 + Len(m.data) /\ 2 \in 1 .. 3 + Len(m.data) /\ 3 \in 1 .. 3 + Len(m.data)
    BY <1>3
  <2>2. QED
    BY <1>6, <2>1
<1>8. ASSUME NEW q \in 1 .. Len(m.data) PROVE Entry(m)[3 + q] = m.data[q]
  <2>1. PICK i \in 1 .. 3 + Len(m.data) : i = 3 + q
    BY <1>3
  <2>2. ~(i =< 3) /\ i - 3 = q
    BY <2>1
  <2>3. Entry(m)[i] = m.data[i - 3]
    BY <1>6, <2>2
  <2>4. QED
    BY <2>1, <2>2, <2>3
<1>9. QED
  BY <1>1, <1>2, <1>3, <1>4, <1>6, <1>7, <1>8

LEMMA EntriesLemma ==
    ASSUME NEW batch \in Seq(Read)
    PROVE  /\ Len(batch) \in Nat
           /\ Entries(batch) \in Seq(Seq(Nat))
           /\ Len(Entries(batch)) = Len(batch)
           /\ \A i \in 1 .. Len(batch) : batch[i] \in Read /\ Entries(batch)[i] = Entry(batch[i])
<1>1. Len(batch) \in Nat /\ \A i \in 1 .. Len(batch) : batch[i] \in Read
  BY LenProperties, ElementOfSeq
<1>2. \A i \in 1 .. Len(batch) : Entry(batch[i]) \in Seq(Nat)
  BY <1>1, EntryLemma
<1>3. Entries(batch) \in [1 .. Len(batch) -> Seq(Nat)]
  BY <1>2 DEF Entries
<1>4. Entries(batch) \in Seq(Seq(Nat)) /\ Len(Entries(batch)) = Len(batch)
  BY <1>1, <1>3, SeqOfLength
<1>5. QED
  BY <1>1, <1>4 DEF Entries

(* One more message adds its entry.                                        *)
LEMMA EntriesAppend ==
    ASSUME NEW batch \in Seq(Read), NEW m \in Read
    PROVE  /\ Entries(Append(batch, m)) = Append(Entries(batch), Entry(m))
           /\ FlattenSeq(Entries(Append(batch, m))) = FlattenSeq(Entries(batch)) \o Entry(m)
<1>1. /\ Append(batch, m) \in Seq(Read) /\ Len(Append(batch, m)) = Len(batch) + 1
      /\ \A i \in 1 .. Len(batch) : Append(batch, m)[i] = batch[i]
      /\ Append(batch, m)[Len(batch) + 1] = m
  BY AppendProperties
<1>2. /\ Len(batch) \in Nat /\ Entries(batch) \in Seq(Seq(Nat)) /\ Len(Entries(batch)) = Len(batch)
      /\ \A i \in 1 .. Len(batch) : Entries(batch)[i] = Entry(batch[i])
  BY EntriesLemma
<1>3. Entry(m) \in Seq(Nat)
  BY EntryLemma
<1> DEFINE s == Entries(Append(batch, m))
           t == Append(Entries(batch), Entry(m))
<1>4. /\ s \in Seq(Seq(Nat)) /\ Len(s) = Len(batch) + 1
      /\ \A i \in 1 .. Len(batch) + 1 : s[i] = Entry(Append(batch, m)[i])
  BY <1>1, EntriesLemma
<1>5. /\ t \in Seq(Seq(Nat)) /\ Len(t) = Len(batch) + 1
      /\ \A i \in 1 .. Len(batch) : t[i] = Entries(batch)[i]
      /\ t[Len(batch) + 1] = Entry(m)
  <2>1. PICK es, e : es = Entries(batch) /\ e = Entry(m)
    OBVIOUS
  <2>2. es \in Seq(Seq(Nat)) /\ e \in Seq(Nat) /\ Len(es) = Len(batch)
    BY <1>2, <1>3, <2>1
  <2>3. /\ Append(es, e) \in Seq(Seq(Nat)) /\ Len(Append(es, e)) = Len(es) + 1
        /\ \A i \in 1 .. Len(es) : Append(es, e)[i] = es[i]
        /\ Append(es, e)[Len(es) + 1] = e
    BY <2>2, AppendProperties
  <2>4. QED
    BY <2>1, <2>2, <2>3
<1> HIDE DEF s, t
<1>6. ASSUME NEW i \in 1 .. Len(batch) + 1 PROVE s[i] = t[i]
  <2>1. CASE i = Len(batch) + 1
    BY <1>1, <1>4, <1>5, <2>1
  <2>2. CASE i # Len(batch) + 1
    <3>1. i \in 1 .. Len(batch)
      BY <1>2, <2>2
    <3>2. QED
      BY <1>1, <1>2, <1>4, <1>5, <3>1
  <2>3. QED
    BY <2>1, <2>2
<1>7. s = t
  BY <1>4, <1>5, <1>6, SeqEqual
<1>8. FlattenSeq(t) = FlattenSeq(Entries(batch)) \o Entry(m)
  BY <1>2, <1>3, FlattenAppend DEF t
<1>9. QED
  BY <1>7, <1>8 DEF s, t

(* The payload of a batch: the count, then the entries.                    *)
LEMMA PackedLemma ==
    ASSUME NEW batch \in Seq(Read)
    PROVE  /\ FlattenSeq(Entries(batch)) \in Seq(Nat) /\ Len(FlattenSeq(Entries(batch))) \in Nat
           /\ Packed(batch) = <<Len(batch)>> \o FlattenSeq(Entries(batch))
           /\ Packed(batch) \in Seq(Nat)
           /\ Len(Packed(batch)) = 1 + Len(FlattenSeq(Entries(batch)))
           /\ Packed(batch)[1] = Len(batch)
           /\ \A k \in 1 .. Len(FlattenSeq(Entries(batch))) :
                 Packed(batch)[1 + k] = FlattenSeq(Entries(batch))[k]
<1>1. FlattenSeq(Entries(batch)) \in Seq(Nat) /\ Len(batch) \in Nat
  BY EntriesLemma, FlattenType
<1>2. Len(FlattenSeq(Entries(batch))) \in Nat
  BY <1>1, LenProperties
<1>3. Packed(batch) = <<Len(batch)>> \o FlattenSeq(Entries(batch))
  BY DEF Packed, Entries
<1>4. PICK f, h : f = FlattenSeq(Entries(batch)) /\ h = <<Len(batch)>>
  OBVIOUS
<1>5. h \in Seq(Nat) /\ Len(h) = 1 /\ h[1] = Len(batch) /\ f \in Seq(Nat) /\ Len(f) \in Nat
  BY <1>1, <1>2, <1>4
<1>6. /\ h \o f \in Seq(Nat) /\ Len(h \o f) = 1 + Len(f)
      /\ \A i \in 1 .. 1 + Len(f) : (h \o f)[i] = IF i =< 1 THEN h[i] ELSE f[i - 1]
  <2>1. /\ h \o f \in Seq(Nat) /\ Len(h \o f) = Len(h) + Len(f)
        /\ \A i \in 1 .. Len(h) + Len(f) : (h \o f)[i] = IF i =< Len(h) THEN h[i] ELSE f[i - Len(h)]
    BY <1>5, ConcatProperties, ZenonT(30)
  <2>2. QED
    BY <1>5, <2>1
<1>7. (h \o f)[1] = Len(batch)
  BY <1>5, <1>6
<1>8. ASSUME NEW k \in 1 .. Len(f) PROVE (h \o f)[1 + k] = f[k]
  <2>1. 1 + k \in 1 .. 1 + Len(f) /\ ~(1 + k =< 1) /\ 1 + k - 1 = k
    BY <1>5
  <2>2. QED
    BY <1>6, <2>1
<1>9. QED
  BY <1>1, <1>2, <1>3, <1>4, <1>6, <1>7, <1>8

(* A part of a sequence, by its elements.                                  *)
LEMMA Slice ==
    ASSUME NEW s \in Seq(Nat), NEW a \in Nat, NEW n \in Nat, a + n =< Len(s)
    PROVE  /\ SubSeq(s, a + 1, a + n) \in Seq(Nat)
           /\ Len(SubSeq(s, a + 1, a + n)) = n
           /\ \A q \in 1 .. n : SubSeq(s, a + 1, a + n)[q] = s[a + q]
<1>1. PICK lo, hi : lo = a + 1 /\ hi = a + n
  OBVIOUS
<1>2. lo \in Int /\ hi \in Int /\ hi - lo + 1 = n /\ (lo =< hi <=> n > 0)
  BY <1>1
<1>3. \A i \in lo .. hi : s[i] \in Nat
  <2>1. \A i \in lo .. hi : i \in 1 .. Len(s)
    BY <1>1, LenProperties
  <2>2. QED
    BY <2>1, ElementOfSeq
<1>4. PICK t : t = SubSeq(s, lo, hi)
  OBVIOUS
<1>5. /\ t \in Seq(Nat) /\ Len(t) = IF lo =< hi THEN hi - lo + 1 ELSE 0
      /\ \A i \in 1 .. hi - lo + 1 : t[i] = s[lo + i - 1]
  BY <1>2, <1>3, <1>4, SubSeqProperties
<1>6. Len(t) = n
  BY <1>2, <1>5
<1>7. ASSUME NEW q \in 1 .. n PROVE t[q] = s[a + q]
  <2>1. lo + q - 1 = a + q /\ q \in 1 .. hi - lo + 1
    BY <1>1, <1>2
  <2>2. QED
    BY <1>5, <2>1
<1>8. QED
  BY <1>1, <1>4, <1>5, <1>6, <1>7

(* The bytes read in one iteration of the loop are the entry of the message *)
(* they are read as.                                                       *)
LEMMA ReadEntry ==
    ASSUME NEW bytes \in Seq(Nat), NEW p \in Nat, NEW l \in Nat,
           bytes[p + 3] = l, p + 3 + l =< Len(bytes)
    PROVE  /\ ReadAt(bytes, p) \in Read /\ Len(ReadAt(bytes, p).data) = l
           /\ Entry(ReadAt(bytes, p)) = SubSeq(bytes, p + 1, p + 3 + l)
<1>1. PICK m, d, t : /\ m = ReadAt(bytes, p) /\ d = SubSeq(bytes, p + 4, p + 3 + l)
                     /\ t = SubSeq(bytes, p + 1, p + 3 + l)
  OBVIOUS
<1>2. Len(bytes) \in Nat /\ \A i \in 1 .. Len(bytes) : bytes[i] \in Nat
  BY LenProperties, ElementOfSeq
<1>3. bytes[p + 1] \in Nat /\ bytes[p + 2] \in Nat
  <2>1. p + 1 \in 1 .. Len(bytes) /\ p + 2 \in 1 .. Len(bytes)
    BY <1>2
  <2>2. QED
    BY <1>2, <2>1
<1>4. d \in Seq(Nat) /\ Len(d) = l /\ \A q \in 1 .. l : d[q] = bytes[p + 3 + q]
  <2>1. PICK a \in Nat : a = p + 3 /\ a + 1 = p + 4
    OBVIOUS
  <2>2. a + l =< Len(bytes) /\ d = SubSeq(bytes, a + 1, a + l)
    BY <1>1, <2>1
  <2>3. d \in Seq(Nat) /\ Len(d) = l /\ \A q \in 1 .. l : d[q] = bytes[a + q]
    BY <2>2, Slice
  <2>4. QED
    BY <2>1, <2>3
<1>5. m = [id |-> <<bytes[p + 1], bytes[p + 2]>>, data |-> d]
  BY <1>1 DEF ReadAt
<1>6. m \in Read /\ m.data = d /\ m.id[1] = bytes[p + 1] /\ m.id[2] = bytes[p + 2]
  BY <1>3, <1>4, <1>5 DEF Read
<1>7. PICK e : e = Entry(m)
  OBVIOUS
<1>8. /\ e \in Seq(Nat) /\ Len(e) = 3 + l
      /\ e[1] = bytes[p + 1] /\ e[2] = bytes[p + 2] /\ e[3] = l
      /\ \A q \in 1 .. l : e[3 + q] = d[q]
  BY <1>4, <1>6, <1>7, EntryLemma
<1>9. t \in Seq(Nat) /\ Len(t) = 3 + l /\ \A i \in 1 .. 3 + l : t[i] = bytes[p + i]
  <2>1. PICK n \in Nat : n = 3 + l /\ p + n = p + 3 + l
    OBVIOUS
  <2>2. p + n =< Len(bytes) /\ t = SubSeq(bytes, p + 1, p + n)
    BY <1>1, <2>1
  <2>3. t \in Seq(Nat) /\ Len(t) = n /\ \A q \in 1 .. n : t[q] = bytes[p + q]
    BY <2>2, Slice
  <2>4. QED
    BY <2>1, <2>3
<1>10. ASSUME NEW i \in 1 .. 3 + l PROVE e[i] = t[i]
  <2>1. t[i] = bytes[p + i]
    BY <1>9
  <2>2. i \in {1, 2, 3} => e[i] = bytes[p + i]
    BY <1>8
  <2>3. i > 3 => e[i] = bytes[p + i]
    <3>1. SUFFICES ASSUME i > 3 PROVE e[i] = bytes[p + i]
      OBVIOUS
    <3>2. PICK q \in 1 .. l : i = 3 + q /\ p + i = p + 3 + q
      <4>1. i - 3 \in 1 .. l /\ i = 3 + (i - 3) /\ p + i = p + 3 + (i - 3)
        BY <3>1
      <4>2. QED
        BY <4>1
    <3>3. QED
      BY <1>4, <1>8, <3>2
  <2>4. i \in {1, 2, 3} \/ i > 3
    OBVIOUS
  <2>5. QED
    BY <2>1, <2>2, <2>3, <2>4
<1>11. e = t
  BY <1>8, <1>9, <1>10, SeqEqual
<1>12. QED
  BY <1>1, <1>4, <1>6, <1>7, <1>11

(* Behind the entries of its first messages lies that of the next one.     *)
LEMMA NextOfPacked ==
    ASSUME NEW batch \in Seq(Read), NEW ms \in Seq(Read), Len(ms) < Len(batch),
           \A i \in 1 .. Len(ms) : ms[i] = batch[i],
           NEW p, NEW m, NEW b
    PROVE  p = Behind(ms) /\ m = batch[Len(ms) + 1] /\ b = Packed(batch)
           => /\ m \in Read /\ p + 3 + Len(m.data) =< Len(b)
              /\ b[p + 3] = Len(m.data) /\ ReadAt(b, p) = m
<1>0. SUFFICES ASSUME p = Behind(ms), m = batch[Len(ms) + 1], b = Packed(batch)
               PROVE  /\ m \in Read /\ p + 3 + Len(m.data) =< Len(b)
                      /\ b[p + 3] = Len(m.data) /\ ReadAt(b, p) = m
  OBVIOUS
<1>1. /\ Len(batch) \in Nat /\ Len(ms) \in Nat
      /\ Entries(batch) \in Seq(Seq(Nat)) /\ Len(Entries(batch)) = Len(batch)
      /\ Entries(ms) \in Seq(Seq(Nat)) /\ Len(Entries(ms)) = Len(ms)
      /\ \A i \in 1 .. Len(batch) : batch[i] \in Read /\ Entries(batch)[i] = Entry(batch[i])
      /\ \A i \in 1 .. Len(ms) : Entries(ms)[i] = Entry(ms[i])
  BY EntriesLemma
<1>2. Len(ms) + 1 \in 1 .. Len(batch) /\ \A i \in 1 .. Len(ms) : i \in 1 .. Len(batch)
  BY <1>1
<1>3. m \in Read /\ Entries(batch)[Len(ms) + 1] = Entry(m)
  BY <1>0, <1>1, <1>2
<1>4. PICK ss, pre : ss = Entries(batch) /\ pre = Entries(ms)
  OBVIOUS
<1>5. /\ ss \in Seq(Seq(Nat)) /\ pre \in Seq(Seq(Nat)) /\ Len(pre) < Len(ss)
      /\ \A i \in 1 .. Len(pre) : pre[i] = ss[i]
      /\ Len(pre) = Len(ms) /\ ss[Len(pre) + 1] = Entry(m)
  BY <1>1, <1>2, <1>3, <1>4
<1>6. PICK e, f, at : /\ e = Entry(m) /\ e = ss[Len(pre) + 1]
                      /\ f = FlattenSeq(ss) /\ at = Len(FlattenSeq(pre))
  BY <1>5
<1>7. at + Len(e) =< Len(f) /\ \A q \in 1 .. Len(e) : f[at + q] = e[q]
  <2>1. /\ Len(FlattenSeq(pre)) + Len(ss[Len(pre) + 1]) =< Len(FlattenSeq(ss))
        /\ \A q \in 1 .. Len(ss[Len(pre) + 1]) :
              FlattenSeq(ss)[Len(FlattenSeq(pre)) + q] = ss[Len(pre) + 1][q]
    BY <1>5, FlattenPart
  <2>2. QED
    BY <1>6, <2>1
<1>8. PICK l, w : l = Len(m.data) /\ w = m.data
  OBVIOUS
<1>9. l \in Nat /\ w \in Seq(Nat) /\ Len(w) = l /\ Len(e) = 3 + l
  BY <1>3, <1>6, <1>8, EntryLemma
<1>10. /\ e[1] = m.id[1] /\ e[2] = m.id[2] /\ e[3] = l
       /\ m = [id |-> <<m.id[1], m.id[2]>>, data |-> w]
       /\ \A q \in 1 .. l : e[3 + q] = w[q]
  <2>1. /\ Entry(m)[1] = m.id[1] /\ Entry(m)[2] = m.id[2] /\ Entry(m)[3] = Len(m.data)
        /\ m = [id |-> <<m.id[1], m.id[2]>>, data |-> m.data]
        /\ \A q \in 1 .. Len(m.data) : Entry(m)[3 + q] = m.data[q]
    BY <1>3, EntryLemma
  <2>2. QED
    BY <1>6, <1>8, <2>1
<1>11. /\ p = 1 + at /\ at \in Nat
       /\ b \in Seq(Nat) /\ Len(b) = 1 + Len(f) /\ Len(f) \in Nat
       /\ \A k \in 1 .. Len(f) : b[1 + k] = f[k]
  <2>1. p = 1 + at /\ at \in Nat
    BY <1>0, <1>4, <1>6, PackedLemma DEF Behind
  <2>2. /\ b \in Seq(Nat) /\ Len(b) = 1 + Len(f) /\ Len(f) \in Nat
        /\ \A k \in 1 .. Len(f) : b[1 + k] = f[k]
    BY <1>0, <1>4, <1>6, PackedLemma
  <2>3. QED
    BY <2>1, <2>2
<1>12. p + 3 + l =< Len(b)
  BY <1>7, <1>9, <1>11
<1>13. ASSUME NEW q \in 1 .. 3 + l PROVE b[p + q] = e[q]
  <2>1. at + q \in 1 .. Len(f) /\ 1 + (at + q) = p + q /\ q \in 1 .. Len(e)
    BY <1>7, <1>9, <1>11
  <2>2. b[1 + (at + q)] = f[at + q]
    BY <1>11, <2>1
  <2>3. QED
    BY <1>7, <2>1, <2>2
<1>14. b[p + 1] = m.id[1] /\ b[p + 2] = m.id[2] /\ b[p + 3] = l
  <2>1. 1 \in 1 .. 3 + l /\ 2 \in 1 .. 3 + l /\ 3 \in 1 .. 3 + l
    BY <1>9
  <2>2. QED
    BY <1>10, <1>13, <2>1
<1>15. PICK d : d = SubSeq(b, p + 4, p + 3 + l)
  OBVIOUS
<1>16. d \in Seq(Nat) /\ Len(d) = l /\ \A q \in 1 .. l : d[q] = b[p + 3 + q]
  <2>1. PICK a \in Nat : a = p + 3 /\ a + 1 = p + 4
    BY <1>11
  <2>2. a + l =< Len(b) /\ d = SubSeq(b, a + 1, a + l)
    BY <1>12, <1>15, <2>1
  <2>3. d \in Seq(Nat) /\ Len(d) = l /\ \A q \in 1 .. l : d[q] = b[a + q]
    BY <1>9, <1>11, <2>2, Slice, ZenonT(30)
  <2>4. QED
    BY <2>1, <2>3
<1>17. d = w
  <2>1. ASSUME NEW q \in 1 .. l PROVE d[q] = w[q]
    <3>1. 3 + q \in 1 .. 3 + l /\ p + (3 + q) = p + 3 + q
      BY <1>9, <1>11
    <3>2. b[p + (3 + q)] = e[3 + q]
      BY <1>13, <3>1
    <3>3. QED
      BY <1>10, <1>16, <3>1, <3>2
  <2>2. QED
    BY <1>9, <1>16, <2>1, SeqEqual
<1>18. ReadAt(b, p) = m
  BY <1>10, <1>14, <1>15, <1>17 DEF ReadAt
<1>19. QED
  BY <1>3, <1>8, <1>12, <1>14, <1>18

----
(* Every variable is of its kind, and the reader is inside the payload.    *)
Types ==
    /\ packed \in Seq(Read) /\ payload \in Seq(Nat) /\ messages \in Seq(Read)
    /\ pos \in 0 .. Len(payload) /\ reach \in 0 .. Len(payload)
    /\ count \in 0 .. MaxMessages /\ announced \in 0 .. MaxMessages
    /\ ret \in Errors \cup {"none", "reading", "OK"}

Limits ==
    /\ ret = "none" => pos = 0 /\ payload = <<>>
    /\ Len(messages) =< MaxMessages
    /\ \A i \in 1 .. Len(messages) : Len(messages[i].data) =< MaxData

(* What is read so far is what the messages so far would be packed into,   *)
(* and nothing of it is announced before the end.                          *)
Progress ==
    /\ pos > 0 =>
          /\ payload[1] = count /\ Len(messages) =< count
          /\ SubSeq(payload, 1, pos) = <<count>> \o FlattenSeq(Entries(messages))
          /\ announced = IF ret = "OK" THEN count ELSE 0
    /\ ret = "OK" => pos > 0 /\ Len(messages) = count
    /\ ret = "INVALID_HEADER" => announced = 0
    /\ ret = "BUFFER_OVERFLOW" => pos > 0

(* A batch that was packed here is read message by message, without error. *)
Own ==
    packed # <<>> =>
       /\ payload = Packed(packed) /\ Len(packed) =< MaxMessages
       /\ \A i \in 1 .. Len(packed) : Len(packed[i].data) =< MaxData
       /\ ret \notin Errors
       /\ pos > 0 => count = Len(packed) /\ \A i \in 1 .. Len(messages) : messages[i] = packed[i]

IInv == Types /\ Limits /\ Progress /\ Own

LEMMA InitInv == Init => IInv
<1> SUFFICES ASSUME Init PROVE IInv
  OBVIOUS
<1>1. <<>> \in Seq(Read) /\ <<>> \in Seq(Nat) /\ Len(<<>>) = 0
  BY EmptySeq
<1>2. announced \in 0 .. MaxMessages /\ announced \in Nat
  BY Consts DEF Init
<1>3. PICK m : m = [id |-> CHOOSE id \in Ids : TRUE, data |-> <<>>]
  OBVIOUS
<1>4. m \in Read /\ m.data = <<>>
  <2>1. (CHOOSE id \in Ids : TRUE) \in Nat \X Nat
    BY Consts
  <2>2. QED
    BY <1>1, <1>3, <2>1 DEF Read
<1>5. messages = [i \in 1 .. announced |-> m]
  BY <1>3 DEF Init
<1>6. messages \in [1 .. announced -> Read]
  BY <1>4, <1>5
<1>7. messages \in Seq(Read) /\ Len(messages) = announced
  BY <1>2, <1>6, SeqOfLength
<1>8. \A i \in 1 .. Len(messages) : messages[i] = m
  BY <1>5, <1>7
<1>9. Types
  <2>1. packed \in Seq(Read) /\ payload \in Seq(Nat) /\ pos = 0 /\ reach = 0 /\ count = 0
    BY <1>1 DEF Init
  <2>2. Len(payload) = 0
    BY <1>1 DEF Init
  <2>3. ret \in Errors \cup {"none", "reading", "OK"}
    BY DEF Init
  <2>4. QED
    BY <1>2, <1>7, <2>1, <2>2, <2>3, Consts DEF Types
<1>10. Limits
  <2>1. \A i \in 1 .. Len(messages) : Len(messages[i].data) = 0
    BY <1>1, <1>4, <1>8
  <2>2. QED
    BY <1>2, <1>7, <2>1, Consts DEF Init, Limits
<1>11. Progress /\ Own
  BY DEF Init, Progress, Own
<1>12. QED
  BY <1>9, <1>10, <1>11 DEF IInv

(* A payload arrives: nothing of it is read yet.                           *)
LEMMA ReceiveInv ==
    ASSUME IInv, ret = "none", NEW bytes \in Seq(Nat), NEW batch \in Seq(Read),
           Receive(bytes, batch),
           batch # <<>> => /\ bytes = Packed(batch) /\ Len(batch) =< MaxMessages
                           /\ \A i \in 1 .. Len(batch) : Len(batch[i].data) =< MaxData
    PROVE  IInv'
<1>1. /\ payload' = bytes /\ packed' = batch /\ ret' = "reading"
      /\ UNCHANGED <<pos, count, messages, announced, reach>>
  BY DEF Receive
<1>2. pos = 0 /\ reach = 0
  <2>1. pos = 0 /\ payload = <<>> /\ reach \in 0 .. Len(payload)
    BY DEF IInv, Limits, Types
  <2>2. QED
    BY <2>1
<1>3. Len(bytes) \in Nat
  BY LenProperties
<1>4. Types'
  BY <1>1, <1>2, <1>3 DEF IInv, Types
<1>5. Limits'
  BY <1>1 DEF IInv, Limits
<1>6. Progress'
  BY <1>1, <1>2 DEF Progress
<1>7. Own'
  BY <1>1, <1>2 DEF Own, Errors
<1>8. QED
  BY <1>4, <1>5, <1>6, <1>7 DEF IInv

LEMMA PackBatchInv == IInv /\ PackBatch => IInv'
<1> SUFFICES ASSUME IInv, PackBatch PROVE IInv'
  OBVIOUS
<1>1. PICK batch \in BoundedSeq(Message, MaxMessages + 1) :
         Packable(batch) /\ Receive(Packed(batch), batch)
  BY DEF PackBatch
<1>2. batch \in Seq(Read)
  <2>1. PICK n \in 0 .. MaxMessages + 1 : batch \in [1 .. n -> Message]
    BY DEF BoundedSeq, SeqOf
  <2>2. Message \subseteq Read
    BY Consts DEF Message, Read
  <2>3. n \in Nat /\ batch \in [1 .. n -> Read]
    BY <2>1, <2>2, Consts
  <2>4. QED
    BY <2>3, SeqOfLength
<1>3. Packed(batch) \in Seq(Nat)
  BY <1>2, PackedLemma
<1>4. /\ Len(batch) =< MaxMessages
      /\ \A i \in 1 .. Len(batch) : Len(batch[i].data) =< MaxData
  BY <1>1, Consts DEF Packable
<1>5. ret = "none"
  BY DEF PackBatch
<1>6. QED
  BY <1>1, <1>2, <1>3, <1>4, <1>5, ReceiveInv

LEMMA ForeignPayloadInv == IInv /\ ForeignPayload => IInv'
<1> SUFFICES ASSUME IInv, ForeignPayload PROVE IInv'
  OBVIOUS
<1>1. PICK bytes \in BoundedSeq(Byte, Foreign) : Receive(bytes, <<>>)
  BY DEF ForeignPayload
<1>2. bytes \in Seq(Nat)
  <2>1. PICK n \in 0 .. Foreign : bytes \in [1 .. n -> Byte]
    BY DEF BoundedSeq, SeqOf
  <2>2. n \in Nat
    BY Consts
  <2>3. Byte \subseteq Nat
    BY Consts
  <2>4. bytes \in [1 .. n -> Nat]
    BY <2>1, <2>3
  <2>5. QED
    BY <2>2, <2>4, SeqOfLength
<1>3. <<>> \in Seq(Read) /\ ret = "none"
  BY EmptySeq DEF ForeignPayload
<1>4. QED
  BY <1>1, <1>2, <1>3, ReceiveInv

LEMMA BeginInv == IInv /\ Begin => IInv'
<1>0. SUFFICES ASSUME IInv, Begin PROVE IInv'
  OBVIOUS
<1>1. ret = "reading" /\ pos = 0
  BY <1>0 DEF Begin
<1>2. Types /\ Limits /\ Progress /\ Own
  BY <1>0 DEF IInv
<1>3. /\ packed \in Seq(Read) /\ payload \in Seq(Nat) /\ messages \in Seq(Read)
      /\ Len(packed) \in Nat /\ Len(payload) \in Nat
      /\ payload # <<>> => Len(payload) > 0 /\ payload[1] \in Nat
  <2>1. packed \in Seq(Read) /\ payload \in Seq(Nat) /\ messages \in Seq(Read)
    BY <1>2 DEF Types
  <2>2. Len(packed) \in Nat /\ Len(payload) \in Nat
    BY <2>1, LenProperties
  <2>3. payload # <<>> => Len(payload) > 0
    BY <2>1, EmptySeq
  <2>4. Len(payload) > 0 => payload[1] \in Nat
    <3>1. Len(payload) > 0 => 1 \in 1 .. Len(payload)
      BY <2>2
    <3>2. QED
      BY <2>1, <3>1, ElementOfSeq
  <2>5. QED
    BY <2>1, <2>2, <2>3, <2>4
<1>4. packed # <<>> => payload # <<>> /\ payload[1] = Len(packed) /\ Len(packed) =< MaxMessages
  <2>1. SUFFICES ASSUME packed # <<>>
                 PROVE payload # <<>> /\ payload[1] = Len(packed) /\ Len(packed) =< MaxMessages
    OBVIOUS
  <2>2. payload = Packed(packed) /\ Len(packed) =< MaxMessages
    BY <1>2, <2>1 DEF Own
  <2>3. /\ Len(Packed(packed)) = 1 + Len(FlattenSeq(Entries(packed)))
        /\ Len(FlattenSeq(Entries(packed))) \in Nat /\ Packed(packed)[1] = Len(packed)
    BY <1>3, PackedLemma
  <2>4. payload # <<>>
    BY <2>2, <2>3, EmptySeq
  <2>5. QED
    BY <2>2, <2>3, <2>4
<1>5. CASE payload = <<>> /\ Fail("NULL_POINTER") /\ UNCHANGED <<messages, announced, reach>>
  <2>1. /\ ret' = "NULL_POINTER"
        /\ UNCHANGED <<packed, payload, pos, count, messages, announced, reach>>
    BY <1>5 DEF Fail
  <2>2. packed = <<>>
    BY <1>4, <1>5
  <2>3. Types'
    BY <1>2, <2>1 DEF Types, Errors
  <2>4. Limits' /\ Progress' /\ Own'
    BY <1>1, <1>2, <2>1, <2>2 DEF Limits, Progress, Own
  <2>5. QED
    BY <2>3, <2>4 DEF IInv
<1>6. CASE /\ payload # <<>> /\ payload[1] > MaxMessages
           /\ Cleared /\ Fail("INVALID_HEADER") /\ reach' = 1
  <2>1. /\ ret' = "INVALID_HEADER" /\ messages' = <<>> /\ announced' = 0 /\ reach' = 1
        /\ UNCHANGED <<packed, payload, pos, count>>
    BY <1>6 DEF Fail, Cleared
  <2>2. packed = <<>>
    BY <1>3, <1>4, <1>6, Consts
  <2>3. <<>> \in Seq(Read) /\ Len(<<>>) = 0
    BY EmptySeq
  <2>4. Types'
    BY <1>2, <1>3, <1>6, <2>1, <2>3, Consts DEF Types, Errors
  <2>5. Limits'
    BY <2>1, <2>3, Consts DEF Limits
  <2>6. Progress' /\ Own'
    BY <1>1, <2>1, <2>2 DEF Progress, Own
  <2>7. QED
    BY <2>4, <2>5, <2>6 DEF IInv
<1>7. CASE /\ payload # <<>> /\ payload[1] =< MaxMessages /\ Cleared
           /\ count' = payload[1] /\ pos' = 1 /\ reach' = 1 /\ UNCHANGED <<packed, payload, ret>>
  <2>1. /\ messages' = <<>> /\ announced' = 0 /\ count' = payload[1] /\ pos' = 1 /\ reach' = 1
        /\ UNCHANGED <<packed, payload, ret>>
    BY <1>7 DEF Cleared
  <2>2. <<>> \in Seq(Read) /\ Len(<<>>) = 0
    BY EmptySeq
  <2>3. Types'
    BY <1>2, <1>3, <1>7, <2>1, <2>2, Consts DEF Types
  <2>4. Limits'
    BY <1>1, <2>1, <2>2, Consts DEF Limits
  <2>5. SubSeq(payload, 1, 1) = <<payload[1]>> \o FlattenSeq(Entries(<<>>))
    <3>1. /\ Entries(<<>>) \in Seq(Seq(Nat)) /\ Len(Entries(<<>>)) = 0
      BY <2>2, EntriesLemma
    <3>2. FlattenSeq(Entries(<<>>)) = <<>>
      BY <3>1, FlattenEmpty
    <3>3. PICK c \in Nat : c = payload[1]
      BY <1>3, <1>7
    <3>4. <<c>> \in Seq(Nat) /\ <<c>> \o <<>> = <<c>>
      <4>1. <<c>> \in Seq(Nat)
        OBVIOUS
      <4>2. QED
        BY <4>1, ConcatEmptySeq
    <3>5. SubSeq(payload, 1, 1) = <<c>>
      <4>1. PICK t : t = SubSeq(payload, 1, 1)
        OBVIOUS
      <4>2. t \in Seq(Nat) /\ Len(t) = 1 /\ t[1] = payload[1]
        <5>1. 0 + 1 = 1 /\ 0 + 1 =< Len(payload) /\ 0 \in Nat /\ 1 \in Nat
          BY <1>3, <1>7
        <5>2. /\ SubSeq(payload, 0 + 1, 0 + 1) \in Seq(Nat)
              /\ Len(SubSeq(payload, 0 + 1, 0 + 1)) = 1
              /\ \A q \in 1 .. 1 : SubSeq(payload, 0 + 1, 0 + 1)[q] = payload[0 + q]
          BY <1>3, <5>1, Slice
        <5>3. QED
          BY <4>1, <5>1, <5>2
      <4>3. <<c>> \in Seq(Nat) /\ Len(<<c>>) = 1 /\ <<c>>[1] = c
        OBVIOUS
      <4>4. \A i \in 1 .. 1 : t[i] = <<c>>[i]
        BY <3>3, <4>2, <4>3
      <4>5. t = <<c>>
        BY <4>2, <4>3, <4>4, SeqEqual
      <4>6. QED
        BY <4>1, <4>5
    <3>6. QED
      BY <3>2, <3>3, <3>4, <3>5
  <2>6. Progress'
    <3>1. payload' = payload /\ count' = payload[1] /\ pos' = 1 /\ ret' = "reading"
      BY <1>1, <2>1
    <3>2. SubSeq(payload', 1, pos') = <<count'>> \o FlattenSeq(Entries(messages'))
      BY <2>1, <2>5
    <3>3. Len(messages') =< count'
      BY <1>3, <1>7, <2>1, <2>2
    <3>4. payload'[1] = count' /\ announced' = 0
      BY <2>1
    <3>5. QED
      BY <3>1, <3>2, <3>3, <3>4 DEF Progress
  <2>7. Own'
    BY <1>2, <1>4, <2>1, <2>2 DEF Own
  <2>8. QED
    BY <2>3, <2>4, <2>6, <2>7 DEF IInv
<1>8. QED
  BY <1>0, <1>5, <1>6, <1>7 DEF Begin

(* An iteration that fails: batch_out keeps announcing no message.         *)
LEMMA EntryFails ==
    ASSUME IInv, ret = "reading", pos > 0, packed = <<>>, Fail("BUFFER_OVERFLOW"),
           UNCHANGED <<messages, announced>>, reach' \in 0 .. Len(payload)
    PROVE  IInv'
<1>1. /\ ret' = "BUFFER_OVERFLOW" /\ reach' \in 0 .. Len(payload)
      /\ UNCHANGED <<packed, payload, pos, count, messages, announced>>
  BY DEF Fail
<1>2. Types /\ Limits /\ Progress
  BY DEF IInv
<1>3. Types' /\ Limits' /\ Own'
  BY <1>1, <1>2 DEF Types, Limits, Own, Errors
<1>4. Progress'
  BY <1>1, <1>2 DEF Progress
<1>5. QED
  BY <1>3, <1>4 DEF IInv

LEMMA NextEntryInv == IInv /\ NextEntry => IInv'
<1>0. SUFFICES ASSUME IInv, NextEntry PROVE IInv'
  OBVIOUS
<1>1. PICK size : size = payload[pos + 3]
  OBVIOUS
<1>2. ret = "reading" /\ pos > 0 /\ Len(messages) < count
  BY <1>0 DEF NextEntry
<1>3. \/ /\ Left < 3
         /\ Fail("BUFFER_OVERFLOW") /\ UNCHANGED <<messages, announced, reach>>
      \/ /\ Left >= 3 /\ (size > MaxData \/ size > Left - 3)
         /\ Fail("BUFFER_OVERFLOW") /\ reach' = pos + 3 /\ UNCHANGED <<messages, announced>>
      \/ /\ Left >= 3 /\ size =< MaxData /\ size =< Left - 3
         /\ messages' = Append(messages, ReadAt(payload, pos))
         /\ pos' = pos + 3 + size /\ reach' = pos + 3 + size
         /\ UNCHANGED <<packed, payload, count, announced, ret>>
  BY <1>0, <1>1 DEF NextEntry, ReadAt
<1>4. Types /\ Limits /\ Progress /\ Own
  BY <1>0 DEF IInv
<1>5. /\ packed \in Seq(Read) /\ payload \in Seq(Nat) /\ messages \in Seq(Read)
      /\ Len(packed) \in Nat /\ Len(payload) \in Nat /\ Len(messages) \in Nat
      /\ pos \in Nat /\ pos =< Len(payload) /\ count \in Nat /\ count =< MaxMessages
  <2>1. packed \in Seq(Read) /\ payload \in Seq(Nat) /\ messages \in Seq(Read)
    BY <1>4 DEF Types
  <2>2. Len(packed) \in Nat /\ Len(payload) \in Nat /\ Len(messages) \in Nat
    BY <2>1, LenProperties
  <2>3. pos \in 0 .. Len(payload) /\ count \in 0 .. MaxMessages
    BY <1>4 DEF Types
  <2>4. QED
    BY <2>1, <2>2, <2>3, Consts
<1>6. /\ payload[1] = count /\ announced = 0
      /\ SubSeq(payload, 1, pos) = <<count>> \o FlattenSeq(Entries(messages))
  BY <1>2, <1>4 DEF Progress
<1>7. /\ FlattenSeq(Entries(messages)) \in Seq(Nat)
      /\ pos = Behind(messages)
  <2>1. FlattenSeq(Entries(messages)) \in Seq(Nat) /\ Len(FlattenSeq(Entries(messages))) \in Nat
    BY <1>5, PackedLemma
  <2>2. PICK f : f = FlattenSeq(Entries(messages))
    OBVIOUS
  <2>3. <<count>> \in Seq(Nat) /\ Len(<<count>>) = 1
    BY <1>5
  <2>4. Len(<<count>> \o f) = Len(<<count>>) + Len(f)
    BY <2>1, <2>2, <2>3, ConcatProperties
  <2>5. Len(SubSeq(payload, 1, pos)) = pos
    <3>1. PICK a \in Nat : a = 0 /\ a + 1 = 1 /\ a + pos = pos
      BY <1>5
    <3>2. Len(SubSeq(payload, a + 1, a + pos)) = pos
      BY <1>5, <3>1, Slice
    <3>3. QED
      BY <3>1, <3>2
  <2>6. QED
    BY <1>6, <2>1, <2>2, <2>3, <2>4, <2>5 DEF Behind
<1>8. packed # <<>> => /\ Left >= 3 /\ size =< MaxData /\ size =< Left - 3
                       /\ count = Len(packed)
                       /\ ReadAt(payload, pos) = packed[Len(messages) + 1]
  <2>1. SUFFICES ASSUME packed # <<>>
                 PROVE  /\ Left >= 3 /\ size =< MaxData /\ size =< Left - 3
                        /\ count = Len(packed)
                        /\ ReadAt(payload, pos) = packed[Len(messages) + 1]
    OBVIOUS
  <2>2. /\ payload = Packed(packed) /\ count = Len(packed)
        /\ \A i \in 1 .. Len(packed) : Len(packed[i].data) =< MaxData
        /\ \A i \in 1 .. Len(messages) : messages[i] = packed[i]
    BY <1>2, <1>4, <2>1 DEF Own
  <2>3. PICK m : m = packed[Len(messages) + 1]
    OBVIOUS
  <2>4. /\ m \in Read /\ pos + 3 + Len(m.data) =< Len(payload)
        /\ payload[pos + 3] = Len(m.data) /\ ReadAt(payload, pos) = m
    <3>1. PICK p, b, batch, ms : p = pos /\ b = payload /\ batch = packed /\ ms = messages
      OBVIOUS
    <3>2. batch \in Seq(Read) /\ ms \in Seq(Read) /\ Len(ms) < Len(batch)
      BY <1>2, <1>5, <2>2, <3>1
    <3>3. \A i \in 1 .. Len(ms) : ms[i] = batch[i]
      BY <2>2, <3>1
    <3>4. p = Behind(ms) /\ m = batch[Len(ms) + 1] /\ b = Packed(batch)
      BY <1>7, <2>2, <2>3, <3>1
    <3>5. /\ m \in Read /\ p + 3 + Len(m.data) =< Len(b)
          /\ b[p + 3] = Len(m.data) /\ ReadAt(b, p) = m
      BY <3>2, <3>3, <3>4, NextOfPacked
    <3>6. QED
      BY <3>1, <3>5
  <2>5. Len(m.data) \in Nat /\ Len(m.data) =< MaxData
    <3>1. Len(messages) + 1 \in 1 .. Len(packed)
      BY <1>2, <1>5, <2>2
    <3>2. QED
      BY <2>2, <2>3, <2>4, <3>1, EntryLemma
  <2>6. PICK k : k = Len(m.data)
    OBVIOUS
  <2>7. pos + 3 + k =< Len(payload) /\ size = k /\ k \in Nat /\ k =< MaxData
    BY <1>1, <2>4, <2>5, <2>6
  <2>8. Left >= 3 /\ size =< MaxData /\ size =< Left - 3
    BY <1>5, <2>7 DEF Left
  <2>9. QED
    BY <2>2, <2>3, <2>4, <2>8
<1>9. Left >= 3 => size \in Nat /\ pos + 3 =< Len(payload)
  <2>1. SUFFICES ASSUME Left >= 3 PROVE size \in Nat /\ pos + 3 =< Len(payload)
    OBVIOUS
  <2>2. pos + 3 =< Len(payload) /\ pos + 3 \in 1 .. Len(payload)
    BY <1>5, <2>1 DEF Left
  <2>3. QED
    BY <1>1, <1>5, <2>2, ElementOfSeq
<1>10. CASE Left < 3 /\ Fail("BUFFER_OVERFLOW") /\ UNCHANGED <<messages, announced, reach>>
  <2>1. packed = <<>>
    BY <1>5, <1>8, <1>10 DEF Left
  <2>2. reach' \in 0 .. Len(payload)
    BY <1>4, <1>10 DEF Types
  <2>3. QED
    BY <1>0, <1>2, <1>10, <2>1, <2>2, EntryFails
<1>11. CASE /\ Left >= 3 /\ (size > MaxData \/ size > Left - 3)
            /\ Fail("BUFFER_OVERFLOW") /\ reach' = pos + 3 /\ UNCHANGED <<messages, announced>>
  <2>1. packed = <<>>
    <3>1. MaxData \in Nat /\ Left \in Int
      BY <1>5, Consts DEF Left
    <3>2. size \in Nat
      BY <1>9, <1>11
    <3>3. QED
      BY <1>8, <1>11, <3>1, <3>2
  <2>2. reach' \in 0 .. Len(payload)
    BY <1>5, <1>9, <1>11
  <2>3. QED
    BY <1>0, <1>2, <1>11, <2>1, <2>2, EntryFails
<1>12. CASE /\ Left >= 3 /\ size =< MaxData /\ size =< Left - 3
            /\ messages' = Append(messages, ReadAt(payload, pos))
            /\ pos' = pos + 3 + size /\ reach' = pos + 3 + size
            /\ UNCHANGED <<packed, payload, count, announced, ret>>
  <2>1. PICK m : m = ReadAt(payload, pos)
    OBVIOUS
  <2>2. size \in Nat /\ pos + 3 + size =< Len(payload)
    BY <1>5, <1>9, <1>12 DEF Left
  <2>3. /\ m \in Read /\ Len(m.data) = size
        /\ Entry(m) = SubSeq(payload, pos + 1, pos + 3 + size)
    BY <1>1, <1>5, <2>1, <2>2, ReadEntry
  <2>4. /\ messages' = Append(messages, m) /\ messages' \in Seq(Read)
        /\ Len(messages') = Len(messages) + 1
        /\ \A i \in 1 .. Len(messages) : messages'[i] = messages[i]
        /\ messages'[Len(messages) + 1] = m
    BY <1>5, <1>12, <2>1, <2>3, AppendProperties
  <2>5. Len(messages') =< count /\ Len(messages') =< MaxMessages
    BY <1>2, <1>5, <2>4, Consts
  <2>6. \A i \in 1 .. Len(messages') : i \in 1 .. Len(messages) \/ i = Len(messages) + 1
    BY <1>5, <2>4
  <2>7. Types'
    <3>1. pos' \in 0 .. Len(payload) /\ reach' \in 0 .. Len(payload)
      BY <1>5, <1>12, <2>2
    <3>2. QED
      BY <1>4, <1>12, <2>4, <3>1 DEF Types
  <2>8. Limits'
    <3>1. \A i \in 1 .. Len(messages) : Len(messages[i].data) =< MaxData
      BY <1>4 DEF Limits
    <3>2. \A i \in 1 .. Len(messages') : Len(messages'[i].data) =< MaxData
      BY <1>12, <2>3, <2>4, <2>6, <3>1
    <3>3. QED
      BY <1>2, <1>12, <2>5, <3>2 DEF Limits
  <2>9. SubSeq(payload, 1, pos + 3 + size) = <<count>> \o FlattenSeq(Entries(messages'))
    <3>1. FlattenSeq(Entries(messages')) = FlattenSeq(Entries(messages)) \o Entry(m)
      BY <1>5, <2>3, <2>4, EntriesAppend
    <3>2. PICK f, e, h, n : /\ f = FlattenSeq(Entries(messages)) /\ e = Entry(m) /\ h = <<count>>
                            /\ n = pos + 3 + size
      OBVIOUS
    <3>3. f \in Seq(Nat) /\ e \in Seq(Nat) /\ h \in Seq(Nat)
      <4>1. Entry(m) \in Seq(Nat)
        BY <2>3, EntryLemma
      <4>2. <<count>> \in Seq(Nat)
        BY <1>5
      <4>3. QED
        BY <1>7, <3>2, <4>1, <4>2
    <3>4. (h \o f) \o e = h \o (f \o e)
      BY <3>3, ConcatAssociative
    <3>5. SubSeq(payload, 1, pos) \o SubSeq(payload, pos + 1, n) = SubSeq(payload, 1, n)
      <4>1. 1 \in 1 .. Len(payload) + 1 /\ pos \in 1 - 1 .. Len(payload) /\ n \in pos .. Len(payload)
        BY <1>5, <2>2, <3>2
      <4>2. QED
        BY <1>5, <4>1, ConcatAdjacentSubSeq
    <3>6. SubSeq(payload, 1, pos) = h \o f /\ SubSeq(payload, pos + 1, n) = e
      BY <1>6, <2>3, <3>2
    <3>7. SubSeq(payload, 1, n) = h \o (f \o e)
      BY <3>4, <3>5, <3>6
    <3>8. QED
      BY <3>1, <3>2, <3>7
  <2>10. Progress'
    <3>1. payload' = payload /\ count' = count /\ announced' = 0 /\ ret' = "reading"
      BY <1>2, <1>6, <1>12
    <3>2. SubSeq(payload', 1, pos') = <<count'>> \o FlattenSeq(Entries(messages'))
      BY <1>12, <2>9
    <3>3. payload'[1] = count' /\ Len(messages') =< count'
      BY <1>6, <2>5, <3>1
    <3>4. QED
      BY <3>1, <3>2, <3>3 DEF Progress
  <2>11. Own'
    <3>1. SUFFICES ASSUME packed' # <<>>
                   PROVE  /\ payload' = Packed(packed') /\ Len(packed') =< MaxMessages
                          /\ \A i \in 1 .. Len(packed') : Len(packed'[i].data) =< MaxData
                          /\ ret' \notin Errors
                          /\ count' = Len(packed')
                          /\ \A i \in 1 .. Len(messages') : messages'[i] = packed'[i]
      BY DEF Own
    <3>2. packed' = packed /\ payload' = payload /\ ret' = ret /\ count' = count /\ packed # <<>>
      BY <1>12, <3>1
    <3>3. /\ payload = Packed(packed) /\ Len(packed) =< MaxMessages /\ ret \notin Errors
          /\ \A i \in 1 .. Len(packed) : Len(packed[i].data) =< MaxData
          /\ \A i \in 1 .. Len(messages) : messages[i] = packed[i]
      BY <1>2, <1>4, <3>2 DEF Own
    <3>4. count = Len(packed) /\ m = packed[Len(messages) + 1]
      BY <1>8, <2>1, <3>2
    <3>5. \A i \in 1 .. Len(messages') : messages'[i] = packed[i]
      BY <2>4, <2>6, <3>3, <3>4
    <3>6. QED
      BY <3>2, <3>3, <3>4, <3>5
  <2>12. QED
    BY <2>7, <2>8, <2>10, <2>11 DEF IInv
<1>13. QED
  BY <1>3, <1>10, <1>11, <1>12

LEMMA FinishInv == IInv /\ Finish => IInv'
<1>0. SUFFICES ASSUME IInv, Finish PROVE IInv'
  OBVIOUS
<1>1. /\ ret = "reading" /\ pos > 0 /\ Len(messages) = count /\ announced' = count /\ ret' = "OK"
      /\ UNCHANGED <<packed, payload, pos, count, messages, reach>>
  BY <1>0 DEF Finish
<1>2. Types /\ Limits /\ Progress /\ Own
  BY <1>0 DEF IInv
<1>3. Types' /\ Limits'
  BY <1>1, <1>2 DEF Types, Limits
<1>4. Progress'
  BY <1>1, <1>2 DEF Progress
<1>5. Own'
  BY <1>1, <1>2 DEF Own, Errors
<1>6. QED
  BY <1>3, <1>4, <1>5 DEF IInv

THEOREM Invariant == Spec => []IInv
<1>1. IInv /\ [Next]_vars => IInv'
  <2>1. IInv /\ Next => IInv'
    BY PackBatchInv, ForeignPayloadInv, BeginInv, NextEntryInv, FinishInv DEF Next
  <2>2. IInv /\ UNCHANGED vars => IInv'
    BY DEF IInv, vars, Types, Limits, Progress, Own
  <2>3. QED
    BY <2>1, <2>2
<1>2. QED
  BY <1>1, InitInv, PTL DEF Spec

(* Whatever count and lengths a payload announces, ks_deserialize_batch    *)
(* reads inside the payload and writes inside messages[] and data[]        *)
(* (kestrel.c:2171-2212), for all limits.                                  *)
THEOREM StaysInBounds == Spec => []InBounds
<1>1. IInv => InBounds
  <2> SUFFICES ASSUME IInv PROVE InBounds
    OBVIOUS
  <2>1. Len(payload) \in Nat /\ reach \in 0 .. Len(payload)
    BY LenProperties DEF IInv, Types
  <2>2. TypeOK
    BY <2>1 DEF IInv, Types, TypeOK
  <2>3. reach =< Len(payload)
    BY <2>1
  <2>4. QED
    BY <2>2, <2>3 DEF IInv, Limits, InBounds
<1>2. QED
  BY <1>1, Invariant, PTL

(* A payload that fails at any message announces none: num_messages is     *)
(* stored behind the loop only (kestrel.c:2177, 2184-2211).                *)
THEOREM FailureShowsNothing == Spec => []FailedShowsNothing
<1>1. IInv => FailedShowsNothing
  BY DEF IInv, Progress, FailedShowsNothing
<1>2. QED
  BY <1>1, Invariant, PTL

(* ks_deserialize_batch is the inverse of kestrel_pack_batch: every batch  *)
(* the packer accepts is read back without error and as it was, and what   *)
(* is read from foreign bytes, packed again, gives those bytes             *)
(* (kestrel.c:2098-2212).                                                  *)
THEOREM ReadBack == Spec => []ReadAsPacked
<1>1. IInv => ReadAsPacked
  <2>0. SUFFICES ASSUME IInv PROVE ReadAsPacked
    OBVIOUS
  <2>1. /\ packed \in Seq(Read) /\ payload \in Seq(Nat) /\ messages \in Seq(Read)
        /\ pos \in 0 .. Len(payload) /\ Len(payload) \in Nat
    BY <2>0, LenProperties DEF IInv, Types
  <2>2. packed # <<>> /\ ret \in Errors \cup {"OK"} => ret = "OK" /\ messages = packed
    <3>1. SUFFICES ASSUME packed # <<>>, ret \in Errors \cup {"OK"} PROVE ret = "OK" /\ messages = packed
      OBVIOUS
    <3>2. ret = "OK"
      BY <2>0, <3>1 DEF IInv, Own
    <3>3. pos > 0 /\ Len(messages) = count
      BY <2>0, <3>2 DEF IInv, Progress
    <3>4. count = Len(packed) /\ \A i \in 1 .. Len(messages) : messages[i] = packed[i]
      BY <2>0, <3>1, <3>3 DEF IInv, Own
    <3>5. messages = packed
      BY <2>1, <3>3, <3>4, SeqEqual
    <3>6. QED
      BY <3>2, <3>5
  <2>3. ret = "OK" => announced = Len(messages) /\ IsPrefix(Packed(messages), payload)
    <3>1. SUFFICES ASSUME ret = "OK"
                   PROVE  announced = Len(messages) /\ IsPrefix(Packed(messages), payload)
      OBVIOUS
    <3>2. /\ pos > 0 /\ Len(messages) = count /\ announced = count
          /\ SubSeq(payload, 1, pos) = <<count>> \o FlattenSeq(Entries(messages))
      BY <2>0, <3>1 DEF IInv, Progress
    <3>3. PICK w : w = Packed(messages)
      OBVIOUS
    <3>4. w \in Seq(Nat) /\ SubSeq(payload, 1, pos) = w
      BY <2>1, <3>2, <3>3, PackedLemma
    <3>5. Len(w) = pos
      <4>1. PICK a \in Nat : a = 0 /\ a + 1 = 1 /\ a + pos = pos /\ pos \in Nat
        BY <2>1
      <4>2. Len(SubSeq(payload, a + 1, a + pos)) = pos
        BY <2>1, <4>1, Slice
      <4>3. QED
        BY <3>4, <4>1, <4>2
    <3>6. SubSeq(w, 1, Len(w)) = w
      BY <3>4, SubSeqFull
    <3>7. Len(w) =< Len(payload) /\ SubSeq(w, 1, Len(w)) = SubSeq(payload, 1, Len(w))
      BY <2>1, <3>4, <3>5, <3>6
    <3>8. QED
      BY <3>2, <3>3, <3>7 DEF IsPrefix
  <2>4. QED
    BY <2>2, <2>3 DEF ReadAsPacked
<1>2. QED
  BY <1>1, Invariant, PTL
----
LEMMA Powers ==
    /\ 2^0 = 1 /\ 2^1 = 2 /\ 2^2 = 4 /\ 2^3 = 8 /\ 2^4 = 16 /\ 2^5 = 32
    /\ 2^6 = 64 /\ 2^7 = 128 /\ 2^8 = 256 /\ 2^9 = 512 /\ 2^10 = 1024
    /\ 2^11 = 2048 /\ 2^12 = 4096 /\ 2^13 = 8192 /\ 2^14 = 16384
    /\ 2^15 = 32768 /\ 2^16 = 65536 /\ 2^17 = 131072 /\ 2^18 = 262144
    /\ 2^19 = 524288 /\ 2^20 = 1048576 /\ 2^21 = 2097152 /\ 2^22 = 4194304 /\ 2^23 = 8388608
OBVIOUS

Made(f, s, e, m) ==
    s \in {0, 1} /\ e \in 0 .. 255 /\ m \in Nat /\ m =< 8388607 /\ f = FloatOf(s, e, m)

(* A float made of its parts has these parts.                              *)
LEMMA FloatParts ==
    ASSUME NEW f, NEW s, NEW e, NEW m, Made(f, s, e, m)
    PROVE  Sign(f) = s /\ Exponent(f) = e /\ Mantissa(f) = m
<1>1. /\ s \in {0, 1} /\ e \in 0 .. 255 /\ m \in Nat /\ m =< 8388607
      /\ f = FloatOf(s, e, m)
  BY DEF Made
<1>2. /\ f[1] = m % 256 /\ f[2] = (m \div 256) % 256
      /\ f[3] = 128 * (e % 2) + m \div 65536 /\ f[4] = 128 * s + e \div 2
  BY <1>1 DEF FloatOf
<1>3. PICK m0 \in 0 .. 255 : m0 = m % 256
  BY <1>1
<1>4. PICK m1 \in 0 .. 255 : m1 = (m \div 256) % 256
  BY <1>1
<1>5. PICK m2 \in 0 .. 127 : m2 = m \div 65536
  BY <1>1
<1>6. m = 65536 * m2 + 256 * m1 + m0
  BY <1>1, <1>3, <1>4, <1>5
<1>7. PICK e0 \in 0 .. 1, e1 \in 0 .. 127 : e0 = e % 2 /\ e1 = e \div 2
  BY <1>1
<1>8. e = 2 * e1 + e0
  BY <1>1, <1>7
<1>9. f[1] = m0 /\ f[2] = m1 /\ f[3] = 128 * e0 + m2 /\ f[4] = 128 * s + e1
  BY <1>2, <1>3, <1>7, <1>4, <1>5
<1>10. (128 * e0 + m2) % 128 = m2 /\ (128 * e0 + m2) \div 128 = e0
  OBVIOUS
<1>11. (128 * s + e1) % 128 = e1 /\ (128 * s + e1) \div 128 = s
  BY <1>1
<1>12. QED
  BY <1>1, <1>6, <1>8, <1>9, <1>10, <1>11 DEF Sign, Exponent, Mantissa

(* A float made of its parts is four bytes.                                *)
LEMMA FloatType ==
    ASSUME NEW f, NEW s, NEW e, NEW m, Made(f, s, e, m)
    PROVE  f \in Seq(0 .. 255) /\ Len(f) = 4
<1>1. s \in {0, 1} /\ e \in 0 .. 255 /\ m \in Nat /\ m =< 8388607 /\ f = FloatOf(s, e, m)
  BY DEF Made
<1>2. PICK a, b, c, d : /\ a = m % 256 /\ b = (m \div 256) % 256
                        /\ c = 128 * (e % 2) + m \div 65536 /\ d = 128 * s + e \div 2
  OBVIOUS
<1>3. m % 256 \in 0 .. 255 /\ (m \div 256) % 256 \in 0 .. 255
  BY <1>1
<1>4. e % 2 \in 0 .. 1 /\ m \div 65536 \in 0 .. 127 /\ e \div 2 \in 0 .. 127
  BY <1>1
<1>5. a \in 0 .. 255 /\ b \in 0 .. 255 /\ c \in 0 .. 255 /\ d \in 0 .. 255
  BY <1>1, <1>2, <1>3, <1>4
<1>6. f = <<a, b, c, d>>
  BY <1>1, <1>2 DEF FloatOf
<1>7. QED
  BY <1>5, <1>6

Placed(m, s) == (m * 2^s) \div 1024 = 1

(* The leading one of a subnormal half's mantissa is found.                *)
LEMMA LeadingOne ==
    ASSUME NEW m \in Nat, 0 < m, m < 1024
    PROVE  /\ Leading(m) \in 1 .. 10
           /\ Placed(m, Leading(m))
<1>1. \E s \in 1 .. 10 : Placed(m, s)
  <2>1. CASE 512 =< m /\ m =< 1023
    <3>1. Placed(m, 1)
      BY <2>1, Powers DEF Placed
    <3>2. QED
      BY <3>1
  <2>2. CASE 256 =< m /\ m =< 511
    <3>1. Placed(m, 2)
      BY <2>2, Powers DEF Placed
    <3>2. QED
      BY <3>1
  <2>3. CASE 128 =< m /\ m =< 255
    <3>1. Placed(m, 3)
      BY <2>3, Powers DEF Placed
    <3>2. QED
      BY <3>1
  <2>4. CASE 64 =< m /\ m =< 127
    <3>1. Placed(m, 4)
      BY <2>4, Powers DEF Placed
    <3>2. QED
      BY <3>1
  <2>5. CASE 32 =< m /\ m =< 63
    <3>1. Placed(m, 5)
      BY <2>5, Powers DEF Placed
    <3>2. QED
      BY <3>1
  <2>6. CASE 16 =< m /\ m =< 31
    <3>1. Placed(m, 6)
      BY <2>6, Powers DEF Placed
    <3>2. QED
      BY <3>1
  <2>7. CASE 8 =< m /\ m =< 15
    <3>1. Placed(m, 7)
      BY <2>7, Powers DEF Placed
    <3>2. QED
      BY <3>1
  <2>8. CASE 4 =< m /\ m =< 7
    <3>1. Placed(m, 8)
      BY <2>8, Powers DEF Placed
    <3>2. QED
      BY <3>1
  <2>9. CASE 2 =< m /\ m =< 3
    <3>1. Placed(m, 9)
      BY <2>9, Powers DEF Placed
    <3>2. QED
      BY <3>1
  <2>10. CASE 1 =< m /\ m =< 1
    <3>1. Placed(m, 10)
      BY <2>10, Powers DEF Placed
    <3>2. QED
      BY <3>1
  <2>11. QED
    BY <2>1, <2>2, <2>3, <2>4, <2>5, <2>6, <2>7, <2>8, <2>9, <2>10
<1>2. Leading(m) = CHOOSE s \in 1 .. 10 : Placed(m, s)
  BY DEF Leading, Placed
<1>3. Leading(m) \in 1 .. 10 /\ Placed(m, Leading(m))
  BY <1>1, <1>2
<1>4. QED
  BY <1>3

LEMMA PowerType ==
    ASSUME NEW l \in 1 .. 10
    PROVE  2^l \in Nat
<1>1. l = 1 \/ l = 2 \/ l = 3 \/ l = 4 \/ l = 5 \/ l = 6 \/ l = 7 \/ l = 8 \/ l = 9 \/ l = 10
  OBVIOUS
<1>2. CASE l = 1
  <2>1. 2^l = 2^1 /\ 2^1 \in Nat
    BY <1>2
  <2>2. QED
    BY <2>1
<1>3. CASE l = 2
  <2>1. 2^l = 2^2 /\ 2^2 \in Nat
    BY <1>3
  <2>2. QED
    BY <2>1
<1>4. CASE l = 3
  <2>1. 2^l = 2^3 /\ 2^3 \in Nat
    BY <1>4
  <2>2. QED
    BY <2>1
<1>5. CASE l = 4
  <2>1. 2^l = 2^4 /\ 2^4 \in Nat
    BY <1>5
  <2>2. QED
    BY <2>1
<1>6. CASE l = 5
  <2>1. 2^l = 2^5 /\ 2^5 \in Nat
    BY <1>6
  <2>2. QED
    BY <2>1
<1>7. CASE l = 6
  <2>1. 2^l = 2^6 /\ 2^6 \in Nat
    BY <1>7
  <2>2. QED
    BY <2>1
<1>8. CASE l = 7
  <2>1. 2^l = 2^7 /\ 2^7 \in Nat
    BY <1>8
  <2>2. QED
    BY <2>1
<1>9. CASE l = 8
  <2>1. 2^l = 2^8 /\ 2^8 \in Nat
    BY <1>9
  <2>2. QED
    BY <2>1
<1>10. CASE l = 9
  <2>1. 2^l = 2^9 /\ 2^9 \in Nat
    BY <1>10
  <2>2. QED
    BY <2>1
<1>11. CASE l = 10
  <2>1. 2^l = 2^10 /\ 2^10 \in Nat
    BY <1>11
  <2>2. QED
    BY <2>1
<1>12. QED
  BY <1>1, <1>2, <1>3, <1>4, <1>5, <1>6, <1>7, <1>8, <1>9, <1>10, <1>11

Scaled(b, m, l) == b = m * 2^l

(* Thirteen places further.                                                *)
LEMMA ThirteenMore ==
    ASSUME NEW l \in 1 .. 10, NEW m \in Nat, NEW b \in Nat, Scaled(b, m, l)
    PROVE  Scaled(b * 8192, m, l + 13)
<1>1. l = 1 \/ l = 2 \/ l = 3 \/ l = 4 \/ l = 5 \/ l = 6 \/ l = 7 \/ l = 8 \/ l = 9 \/ l = 10
  OBVIOUS
<1>2. CASE l = 1
  <2>1. 2^l = 2^1 /\ 2^(l + 13) = 2^14
    BY <1>2
  <2>2. 2^1 = 2 /\ 2^14 = 16384
    OBVIOUS
  <2>3. b = m * 2 /\ m * 2^(l + 13) = m * 16384
    BY <2>1, <2>2 DEF Scaled
  <2>4. b * 8192 = m * 16384
    BY <2>3
  <2>5. QED
    BY <2>3, <2>4 DEF Scaled
<1>3. CASE l = 2
  <2>1. 2^l = 2^2 /\ 2^(l + 13) = 2^15
    BY <1>3
  <2>2. 2^2 = 4 /\ 2^15 = 32768
    OBVIOUS
  <2>3. b = m * 4 /\ m * 2^(l + 13) = m * 32768
    BY <2>1, <2>2 DEF Scaled
  <2>4. b * 8192 = m * 32768
    BY <2>3
  <2>5. QED
    BY <2>3, <2>4 DEF Scaled
<1>4. CASE l = 3
  <2>1. 2^l = 2^3 /\ 2^(l + 13) = 2^16
    BY <1>4
  <2>2. 2^3 = 8 /\ 2^16 = 65536
    OBVIOUS
  <2>3. b = m * 8 /\ m * 2^(l + 13) = m * 65536
    BY <2>1, <2>2 DEF Scaled
  <2>4. b * 8192 = m * 65536
    BY <2>3
  <2>5. QED
    BY <2>3, <2>4 DEF Scaled
<1>5. CASE l = 4
  <2>1. 2^l = 2^4 /\ 2^(l + 13) = 2^17
    BY <1>5
  <2>2. 2^4 = 16 /\ 2^17 = 131072
    OBVIOUS
  <2>3. b = m * 16 /\ m * 2^(l + 13) = m * 131072
    BY <2>1, <2>2 DEF Scaled
  <2>4. b * 8192 = m * 131072
    BY <2>3
  <2>5. QED
    BY <2>3, <2>4 DEF Scaled
<1>6. CASE l = 5
  <2>1. 2^l = 2^5 /\ 2^(l + 13) = 2^18
    BY <1>6
  <2>2. 2^5 = 32 /\ 2^18 = 262144
    OBVIOUS
  <2>3. b = m * 32 /\ m * 2^(l + 13) = m * 262144
    BY <2>1, <2>2 DEF Scaled
  <2>4. b * 8192 = m * 262144
    BY <2>3
  <2>5. QED
    BY <2>3, <2>4 DEF Scaled
<1>7. CASE l = 6
  <2>1. 2^l = 2^6 /\ 2^(l + 13) = 2^19
    BY <1>7
  <2>2. 2^6 = 64 /\ 2^19 = 524288
    OBVIOUS
  <2>3. b = m * 64 /\ m * 2^(l + 13) = m * 524288
    BY <2>1, <2>2 DEF Scaled
  <2>4. b * 8192 = m * 524288
    BY <2>3
  <2>5. QED
    BY <2>3, <2>4 DEF Scaled
<1>8. CASE l = 7
  <2>1. 2^l = 2^7 /\ 2^(l + 13) = 2^20
    BY <1>8
  <2>2. 2^7 = 128 /\ 2^20 = 1048576
    OBVIOUS
  <2>3. b = m * 128 /\ m * 2^(l + 13) = m * 1048576
    BY <2>1, <2>2 DEF Scaled
  <2>4. b * 8192 = m * 1048576
    BY <2>3
  <2>5. QED
    BY <2>3, <2>4 DEF Scaled
<1>9. CASE l = 8
  <2>1. 2^l = 2^8 /\ 2^(l + 13) = 2^21
    BY <1>9
  <2>2. 2^8 = 256 /\ 2^21 = 2097152
    OBVIOUS
  <2>3. b = m * 256 /\ m * 2^(l + 13) = m * 2097152
    BY <2>1, <2>2 DEF Scaled
  <2>4. b * 8192 = m * 2097152
    BY <2>3
  <2>5. QED
    BY <2>3, <2>4 DEF Scaled
<1>10. CASE l = 9
  <2>1. 2^l = 2^9 /\ 2^(l + 13) = 2^22
    BY <1>10
  <2>2. 2^9 = 512 /\ 2^22 = 4194304
    OBVIOUS
  <2>3. b = m * 512 /\ m * 2^(l + 13) = m * 4194304
    BY <2>1, <2>2 DEF Scaled
  <2>4. b * 8192 = m * 4194304
    BY <2>3
  <2>5. QED
    BY <2>3, <2>4 DEF Scaled
<1>11. CASE l = 10
  <2>1. 2^l = 2^10 /\ 2^(l + 13) = 2^23
    BY <1>11
  <2>2. 2^10 = 1024 /\ 2^23 = 8388608
    OBVIOUS
  <2>3. b = m * 1024 /\ m * 2^(l + 13) = m * 8388608
    BY <2>1, <2>2 DEF Scaled
  <2>4. b * 8192 = m * 8388608
    BY <2>3
  <2>5. QED
    BY <2>3, <2>4 DEF Scaled
<1>12. QED
  BY <1>1, <1>2, <1>3, <1>4, <1>5, <1>6, <1>7, <1>8, <1>9, <1>10, <1>11

HalfBytes == [1 .. 2 -> 0 .. 255]
FloatBytes == [1 .. 4 -> 0 .. 255]

LEMMA HalfParts ==
    ASSUME NEW h \in HalfBytes
    PROVE  /\ h[2] \div 128 \in {0, 1}
           /\ (h[2] % 128) \div 4 \in 0 .. 31
           /\ 256 * (h[2] % 4) + h[1] \in Nat
           /\ 256 * (h[2] % 4) + h[1] < 1024
<1>1. h[1] \in 0 .. 255 /\ h[2] \in 0 .. 255
  BY DEF HalfBytes
<1>2. PICK a \in 0 .. 255, b \in 0 .. 255 : a = h[1] /\ b = h[2]
  BY <1>1
<1>3. b \div 128 \in {0, 1} /\ (b % 128) \div 4 \in 0 .. 31
  OBVIOUS
<1>4. 256 * (b % 4) + a \in Nat /\ 256 * (b % 4) + a < 1024
  OBVIOUS
<1>5. QED
  BY <1>2, <1>3, <1>4

(* A half is read as the float of exactly its value.                       *)
LEMMA HalfFloats ==
    ASSUME NEW h \in HalfBytes
    PROVE  HalfRead(h, half_to_float(h)) /\ \E s, e, m : Made(half_to_float(h), s, e, m)
<1>1. PICK s \in {0, 1} : s = h[2] \div 128
  BY HalfParts
<1>2. PICK e \in 0 .. 31 : e = (h[2] % 128) \div 4
  BY HalfParts
<1>3. PICK m \in Nat : m = 256 * (h[2] % 4) + h[1] /\ m < 1024
  BY HalfParts
<1>4. PICK f : f = half_to_float(h)
  OBVIOUS
<1>5. f = CASE e = 0 /\ m # 0 -> FloatOf(s, 127 - 14 - Leading(m), ((m * 2^Leading(m)) % 1024) * 8192)
            [] e = 0 /\ m = 0 -> FloatOf(s, 0, 0)
            [] e = 31 -> FloatOf(s, 255, m * 8192)
            [] e \in 1 .. 30 -> FloatOf(s, e - 15 + 127, m * 8192)
  BY <1>1, <1>2, <1>3, <1>4 DEF half_to_float
<1>6. CASE e = 0 /\ m # 0
  <2>1. PICK l \in 1 .. 10 : l = Leading(m) /\ Placed(m, l)
    <3>1. 0 < m /\ m < 1024
      BY <1>3, <1>6
    <3>2. Leading(m) \in 1 .. 10 /\ Placed(m, Leading(m))
      BY <3>1, LeadingOne
    <3>3. QED
      BY <3>2
  <2>2. PICK b \in Nat : b = m * 2^l /\ 1024 =< b /\ b < 2048
    <3>1. PICK p \in Nat : p = 2^l
      <4>1. 2^l \in Nat
        BY PowerType, Zenon
      <4>2. QED
        BY <4>1
    <3>2. PICK b \in Nat : b = m * p
      OBVIOUS
    <3>3. b \div 1024 = 1
      BY <2>1, <3>1, <3>2 DEF Placed
    <3>4. 1024 =< b /\ b < 2048
      BY <3>3
    <3>5. QED
      BY <3>1, <3>2, <3>4
  <2>3. f = FloatOf(s, 113 - l, (b % 1024) * 8192)
    <3>1. f = FloatOf(s, 127 - 14 - l, (b % 1024) * 8192)
      BY <1>5, <1>6, <2>1, <2>2
    <3>2. 127 - 14 - l = 113 - l
      OBVIOUS
    <3>3. QED
      BY <3>1, <3>2
  <2>4. b % 1024 = b - 1024
    BY <2>2
  <2>5. 113 - l \in 0 .. 255 /\ (b % 1024) * 8192 \in Nat /\ (b % 1024) * 8192 =< 8388607
    BY <2>2, <2>4
  <2>6. Made(f, s, 113 - l, (b % 1024) * 8192)
    BY <2>3, <2>5 DEF Made
  <2>7. Sign(f) = s /\ Exponent(f) = 113 - l /\ Mantissa(f) = (b % 1024) * 8192
    BY <2>6, FloatParts
  <2>8. 8388608 + Mantissa(f) = b * 8192
    BY <2>4, <2>7
  <2>9. 126 - Exponent(f) = l + 13
    BY <2>7
  <2>10. b * 8192 = m * 2^(l + 13)
    <3>1. Scaled(b, m, l)
      BY <2>2 DEF Scaled
    <3>2. Scaled(b * 8192, m, l + 13)
      BY <3>1, ThirteenMore
    <3>3. QED
      BY <3>2 DEF Scaled
  <2>11. /\ Exponent(f) \in 103 .. 112
         /\ 8388608 + Mantissa(f) = m * 2^(126 - Exponent(f))
    BY <2>7, <2>8, <2>9, <2>10
  <2>12. HalfRead(h, f)
    BY <1>1, <1>2, <1>3, <1>4, <1>6, <2>7, <2>11 DEF HalfRead
  <2>13. QED
    BY <1>4, <2>6, <2>12
<1>7. CASE e = 0 /\ m = 0
  <2>1. f = FloatOf(s, 0, 0)
    BY <1>5, <1>7
  <2>2. Made(f, s, 0, 0)
    BY <2>1 DEF Made
  <2>3. Sign(f) = s /\ Exponent(f) = 0 /\ Mantissa(f) = 0
    BY <2>2, FloatParts
  <2>4. Magnitude(f) = 0
    BY <2>3 DEF Magnitude
  <2>5. HalfRead(h, f)
    BY <1>1, <1>2, <1>3, <1>4, <1>7, <2>3, <2>4 DEF HalfRead
  <2>6. QED
    BY <1>4, <2>2, <2>5
<1>8. CASE e = 31
  <2>1. f = FloatOf(s, 255, m * 8192)
    BY <1>5, <1>8
  <2>2. m * 8192 \in Nat /\ m * 8192 =< 8388607
    BY <1>3
  <2>3. Made(f, s, 255, m * 8192)
    BY <2>1, <2>2 DEF Made
  <2>4. Sign(f) = s /\ Exponent(f) = 255 /\ Mantissa(f) = m * 8192
    BY <2>3, FloatParts
  <2>5. HalfRead(h, f)
    BY <1>1, <1>2, <1>3, <1>4, <1>8, <2>4 DEF HalfRead
  <2>6. QED
    BY <1>4, <2>3, <2>5
<1>9. CASE e \in 1 .. 30
  <2>1. f = FloatOf(s, e + 112, m * 8192)
    <3>1. f = FloatOf(s, e - 15 + 127, m * 8192)
      BY <1>5, <1>9
    <3>2. e - 15 + 127 = e + 112
      OBVIOUS
    <3>3. QED
      BY <3>1, <3>2
  <2>2. m * 8192 \in Nat /\ m * 8192 =< 8388607 /\ e + 112 \in 0 .. 255
    BY <1>3, <1>9
  <2>3. Made(f, s, e + 112, m * 8192)
    BY <2>1, <2>2 DEF Made
  <2>4. Sign(f) = s /\ Exponent(f) = e + 112 /\ Mantissa(f) = m * 8192
    BY <2>3, FloatParts
  <2>5. HalfRead(h, f)
    BY <1>1, <1>2, <1>3, <1>4, <1>9, <2>4 DEF HalfRead
  <2>6. QED
    BY <1>4, <2>3, <2>5
<1>10. QED
  BY <1>6, <1>7, <1>8, <1>9

(* Every half is read as the float of exactly its value, not only those    *)
(* that the run has.                                                       *)
THEOREM HalvesExact ==
    ASSUME NEW h \in HalfBytes
    PROVE  HalfRead(h, half_to_float(h))
BY HalfFloats

LEMMA HalfType ==
    ASSUME NEW h \in HalfBytes
    PROVE  half_to_float(h) \in Seq(0 .. 255) /\ Len(half_to_float(h)) = 4
BY HalfFloats, FloatType

Parted(h, s, q, n) ==
    /\ h \in HalfBytes
    /\ h[2] \div 128 = s
    /\ (h[2] % 128) \div 4 = q
    /\ 256 * (h[2] % 4) + h[1] = n

LEMMA HalfOfParts ==
    ASSUME NEW s \in {0, 1}, NEW q \in 0 .. 31, NEW n \in Nat, n < 1024, NEW bits, bits = 1024 * q + n
    PROVE  Parted(HalfOf(s, bits), s, q, n)
<1>1. PICK n0 \in 0 .. 255 : n0 = n % 256
  OBVIOUS
<1>2. PICK n1 \in 0 .. 3 : n1 = n \div 256
  OBVIOUS
<1>3. n = 256 * n1 + n0
  BY <1>1, <1>2
<1>4. bits % 256 = n0 /\ bits \div 256 = 4 * q + n1
  BY <1>3
<1>5. PICK w \in 0 .. 127 : w = 4 * q + n1
  OBVIOUS
<1>6. w \div 4 = q /\ w % 4 = n1
  BY <1>5
<1>7. /\ (128 * s + w) \div 128 = s /\ (128 * s + w) % 128 = w /\ (128 * s + w) % 4 = w % 4
      /\ 128 * s + w \in 0 .. 255
  OBVIOUS
<1>8. PICK h : h = HalfOf(s, bits)
  OBVIOUS
<1>9. h = <<n0, 128 * s + w>>
  BY <1>4, <1>5, <1>8 DEF HalfOf
<1>10. h \in HalfBytes
  BY <1>7, <1>9 DEF HalfBytes
<1>11. h[1] = n0 /\ h[2] = 128 * s + w
  BY <1>9
<1>12. QED
  BY <1>3, <1>6, <1>7, <1>8, <1>10, <1>11 DEF Parted

(* A normal half is read with its own parts.                               *)
LEMMA ReadParts ==
    ASSUME NEW h, NEW s, NEW q \in 1 .. 30, NEW n, Parted(h, s, q, n)
    PROVE  /\ Sign(half_to_float(h)) = s
           /\ Exponent(half_to_float(h)) = q + 112
           /\ Mantissa(half_to_float(h)) = n * 8192
<1>1. HalfRead(h, half_to_float(h))
  BY HalvesExact DEF Parted
<1>2. QED
  BY <1>1 DEF HalfRead, Parted

LEMMA Cut ==
    ASSUME NEW e \in Nat, NEW m \in Nat, NEW n, n = m \div 8192
    PROVE  8388608 * e + n * 8192 = 8192 * ((8388608 * e + m) \div 8192)
<1>1. 8388608 * e + m = 8192 * (1024 * e) + m
  OBVIOUS
<1>2. (8192 * (1024 * e) + m) \div 8192 = 1024 * e + n
  OBVIOUS
<1>3. QED
  BY <1>1, <1>2

LEMMA FloatHalves ==
    ASSUME NEW x \in FloatBytes
    PROVE  /\ float_to_half(x) \in HalfBytes
           /\ RateArrives(x, half_to_float(float_to_half(x)))
<1>1. /\ x[1] \in 0 .. 255 /\ x[2] \in 0 .. 255 /\ x[3] \in 0 .. 255 /\ x[4] \in 0 .. 255
  BY DEF FloatBytes
<1>2. PICK s \in {0, 1} : s = Sign(x)
  BY <1>1 DEF Sign
<1>3. PICK e \in 0 .. 255 : e = Exponent(x)
  BY <1>1 DEF Exponent
<1>4. PICK m \in Nat : m = Mantissa(x) /\ m =< 8388607
  <2>1. PICK z \in 0 .. 127 : z = x[3] % 128
    BY <1>1
  <2>2. Mantissa(x) = 65536 * z + 256 * x[2] + x[1]
    BY <2>1 DEF Mantissa
  <2>3. PICK a \in 0 .. 255 : a = x[1]
    BY <1>1
  <2>4. PICK b \in 0 .. 255 : b = x[2]
    BY <1>1
  <2>5. Mantissa(x) = 65536 * z + 256 * b + a
    BY <2>2, <2>3, <2>4
  <2>6. PICK n : n = Mantissa(x)
    OBVIOUS
  <2>7. n \in Nat /\ n =< 8388607
    BY <2>5, <2>6
  <2>8. QED
    BY <2>6, <2>7
<1>5. PICK bits : bits = (CASE e - 127 + 15 >= 31 -> 31744
                            [] e - 127 + 15 > 0 /\ e - 127 + 15 < 31 -> 1024 * (e - 127 + 15) + m \div 8192
                            [] e - 127 + 15 =< 0 -> 0)
  OBVIOUS
<1>6. PICK h : h = float_to_half(x)
  OBVIOUS
<1>7. h = HalfOf(s, bits)
  BY <1>2, <1>3, <1>4, <1>5, <1>6 DEF float_to_half
<1>8. ASSUME NEW q \in 0 .. 31, NEW n \in Nat, n < 1024, bits = 1024 * q + n
      PROVE  Parted(h, s, q, n)
  BY <1>7, <1>8, HalfOfParts
<1>9. PICK y : y = half_to_float(h)
  OBVIOUS
<1>10. CASE e < 113
  <2>1. bits = 1024 * 0 + 0
    BY <1>5, <1>10
  <2>2. Parted(h, s, 0, 0)
    BY <1>8, <2>1
  <2>3. Sign(y) = s /\ Magnitude(y) = 0
    BY <1>9, <2>2, HalvesExact DEF HalfRead, Parted
  <2>4. RateArrives(x, y)
    BY <1>2, <1>3, <1>6, <1>9, <1>10, <2>3 DEF RateArrives
  <2>5. h \in HalfBytes
    BY <2>2 DEF Parted
  <2>6. QED
    BY <1>6, <1>9, <2>4, <2>5
<1>11. CASE e \in 113 .. 142
  <2>1. PICK n \in Nat : n = m \div 8192 /\ n < 1024
    <3>1. m \div 8192 \in Nat /\ m \div 8192 < 1024
      BY <1>4
    <3>2. QED
      BY <3>1
  <2>2. PICK q \in 1 .. 30 : q = e - 112
    BY <1>11
  <2>3. bits = 1024 * q + n
    <3>1. e - 127 + 15 = q /\ ~(q >= 31) /\ q > 0 /\ q < 31 /\ ~(q =< 0)
      BY <2>2
    <3>2. bits = 1024 * (e - 127 + 15) + m \div 8192
      BY <1>5, <3>1
    <3>3. QED
      BY <2>1, <3>1, <3>2
  <2>4. Parted(h, s, q, n)
    <3>1. q \in 0 .. 31
      OBVIOUS
    <3>2. QED
      BY <1>7, <2>1, <2>3, <3>1, HalfOfParts
  <2>5. Sign(y) = s /\ Exponent(y) = e /\ Mantissa(y) = n * 8192
    <3>1. Sign(y) = s /\ Exponent(y) = q + 112 /\ Mantissa(y) = n * 8192
      BY <1>9, <2>4, ReadParts
    <3>2. q + 112 = e
      BY <2>2
    <3>3. QED
      BY <3>1, <3>2
  <2>6. Magnitude(x) = 8388608 * e + m /\ Magnitude(y) = 8388608 * e + n * 8192
    BY <1>3, <1>4, <2>5 DEF Magnitude
  <2>7. Magnitude(y) = 8192 * (Magnitude(x) \div 8192)
    BY <2>1, <2>6, Cut
  <2>8. RateArrives(x, y)
    BY <1>2, <1>3, <1>6, <1>9, <1>11, <2>5, <2>7 DEF RateArrives
  <2>9. h \in HalfBytes
    BY <2>4 DEF Parted
  <2>10. QED
    BY <1>6, <1>9, <2>8, <2>9
<1>12. CASE e > 142
  <2>1. bits = 1024 * 31 + 0
    BY <1>5, <1>12
  <2>2. Parted(h, s, 31, 0)
    BY <1>8, <2>1
  <2>3. Sign(y) = s /\ Exponent(y) = 255 /\ Mantissa(y) = 0
    BY <1>9, <2>2, HalvesExact DEF HalfRead, Parted
  <2>4. Magnitude(y) = 8388608 * 255
    BY <2>3 DEF Magnitude
  <2>5. RateArrives(x, y)
    BY <1>2, <1>3, <1>6, <1>9, <1>12, <2>3, <2>4 DEF RateArrives
  <2>6. h \in HalfBytes
    BY <2>2 DEF Parted
  <2>7. QED
    BY <1>6, <1>9, <2>5, <2>6
<1>13. QED
  BY <1>10, <1>11, <1>12

(* Every float arrives as a rate cut to a half ("float_to_half").          *)
THEOREM RatesArrive ==
    ASSUME NEW x \in FloatBytes
    PROVE  RateArrives(x, half_to_float(float_to_half(x)))
BY FloatHalves

----
(***************************************************************************)
(* The checksum.                                                           *)
(***************************************************************************)

ByteBits == SUBSET (0 .. 7)
CrcBits == SUBSET (0 .. 15)

(* The byte that ks_crc_accumulate spreads over the checksum, ...          *)
First(data, crc) == SymDiff(data, crc \cap 0 .. 7)
Tmp(data, crc) == SymDiff(First(data, crc), Shifted(First(data, crc), 4) \cap 0 .. 7)

LEMMA ShiftedBit ==
    ASSUME NEW bits \in CrcBits, NEW n \in Int
    PROVE  /\ Shifted(bits, n) \subseteq 0 .. 15
           /\ \A i \in 0 .. 15 : i \in Shifted(bits, n) <=> i - n \in bits
<1>1. ASSUME NEW i \in 0 .. 15, i - n \in bits PROVE i \in Shifted(bits, n)
  <2>1. PICK j \in bits : j = i - n
    BY <1>1
  <2>2. j \in Int /\ j + n = i
    BY <2>1 DEF CrcBits
  <2>3. QED
    BY <2>2 DEF Shifted
<1>2. ASSUME NEW i \in 0 .. 15, i \in Shifted(bits, n) PROVE i - n \in bits
  <2>1. PICK j \in bits : i = j + n
    BY <1>2 DEF Shifted
  <2>2. j \in Int /\ j = i - n
    BY <2>1 DEF CrcBits
  <2>3. QED
    BY <2>2
<1>3. QED
  BY <1>1, <1>2 DEF Shifted

LEMMA SymDiffBit ==
    ASSUME NEW A, NEW B
    PROVE  \A i : i \in SymDiff(A, B) <=> ~(i \in A <=> i \in B)
BY DEF SymDiff

(* ... bit by bit.                                                         *)
LEMMA FirstBits ==
    ASSUME NEW d \in ByteBits, NEW c \in CrcBits
    PROVE  /\ First(d, c) \in ByteBits
           /\ \A i \in 0 .. 7 : i \in First(d, c) <=> ~(i \in d <=> i \in c)
<1>1. \A i : i \in First(d, c) <=> ~(i \in d <=> i \in c \cap 0 .. 7)
  BY SymDiffBit DEF First
<1>2. d \subseteq 0 .. 7
  BY DEF ByteBits
<1>3. First(d, c) \subseteq 0 .. 7
  BY <1>1, <1>2
<1>4. QED
  BY <1>1, <1>3 DEF ByteBits

LEMMA TmpBits ==
    ASSUME NEW d \in ByteBits, NEW c \in CrcBits
    PROVE  /\ Tmp(d, c) \in ByteBits
           /\ \A i \in 0 .. 3 : i \in Tmp(d, c) <=> i \in First(d, c)
           /\ \A i \in 4 .. 7 : i \in Tmp(d, c) <=> ~(i \in First(d, c) <=> i - 4 \in First(d, c))
<1> DEFINE f == First(d, c)
<1>1. f \subseteq 0 .. 7 /\ f \in CrcBits
  BY FirstBits DEF ByteBits, CrcBits
<1> HIDE DEF f
<1>2. \A i \in 0 .. 15 : i \in Shifted(f, 4) <=> i - 4 \in f
  BY <1>1, ShiftedBit
<1>3. \A i : i \in Tmp(d, c) <=> ~(i \in f <=> i \in Shifted(f, 4) \cap 0 .. 7)
  BY SymDiffBit DEF Tmp, f
<1>4. \A i \in 0 .. 3 : ~(i - 4 \in f)
  BY <1>1
<1>5. QED
  BY <1>1, <1>2, <1>3, <1>4 DEF ByteBits, f

LEMMA AccumulateBits ==
    ASSUME NEW d \in ByteBits, NEW c \in CrcBits
    PROVE  /\ ks_crc_accumulate(d, c) \in CrcBits
           /\ \A i \in 0 .. 15 :
                 i \in ks_crc_accumulate(d, c) <=>
                     ~(~(i + 8 \in c <=> i - 8 \in Tmp(d, c))
                       <=> ~(i - 3 \in Tmp(d, c) <=> i + 4 \in Tmp(d, c)))
<1> DEFINE t == Tmp(d, c)
           r == ks_crc_accumulate(d, c)
<1>1. t \subseteq 0 .. 7 /\ t \in CrcBits /\ c \in CrcBits
  BY TmpBits DEF ByteBits, CrcBits
<1>2. r = SymDiff(Shifted(c, -8), SymDiff(Shifted(t, 8), SymDiff(Shifted(t, 3), Shifted(t, -4))))
  BY DEF ks_crc_accumulate, Tmp, First
<1> HIDE DEF t, r
<1> DEFINE a == Shifted(c, -8)
           b == Shifted(t, 8)
           e == Shifted(t, 3)
           g == Shifted(t, -4)
<1>3. /\ a \subseteq 0 .. 15 /\ \A i \in 0 .. 15 : i \in a <=> i + 8 \in c
  <2>1. a \subseteq 0 .. 15 /\ \A i \in 0 .. 15 : i \in a <=> i - (-8) \in c
    BY <1>1, ShiftedBit
  <2>2. \A i \in 0 .. 15 : i - (-8) = i + 8
    OBVIOUS
  <2>3. QED
    BY <2>1, <2>2
<1>4. b \subseteq 0 .. 15 /\ \A i \in 0 .. 15 : i \in b <=> i - 8 \in t
  BY <1>1, ShiftedBit
<1>5. e \subseteq 0 .. 15 /\ \A i \in 0 .. 15 : i \in e <=> i - 3 \in t
  BY <1>1, ShiftedBit
<1>6. g \subseteq 0 .. 15 /\ \A i \in 0 .. 15 : i \in g <=> i + 4 \in t
  <2>1. g \subseteq 0 .. 15 /\ \A i \in 0 .. 15 : i \in g <=> i - (-4) \in t
    BY <1>1, ShiftedBit
  <2>2. \A i \in 0 .. 15 : i - (-4) = i + 4
    OBVIOUS
  <2>3. QED
    BY <2>1, <2>2
<1> HIDE DEF a, b, e, g
<1>7. r = SymDiff(a, SymDiff(b, SymDiff(e, g)))
  BY <1>2 DEF a, b, e, g
<1>8. \A i : i \in r <=> ~(~(i \in a <=> i \in b) <=> ~(i \in e <=> i \in g))
  <2>1. \A i : i \in SymDiff(b, SymDiff(e, g)) <=> ~(i \in b <=> ~(i \in e <=> i \in g))
    BY SymDiffBit
  <2>2. \A i : i \in r <=> ~(i \in a <=> i \in SymDiff(b, SymDiff(e, g)))
    BY <1>7, SymDiffBit
  <2>3. QED
    BY <2>1, <2>2
<1>9. r \subseteq 0 .. 15
  BY <1>3, <1>4, <1>5, <1>6, <1>8
<1>10. \A i \in 0 .. 15 : i \in r <=> ~(~(i + 8 \in c <=> i - 8 \in t) <=> ~(i - 3 \in t <=> i + 4 \in t))
  BY <1>3, <1>4, <1>5, <1>6, <1>8
<1>11. QED
  BY <1>9, <1>10 DEF CrcBits, r, t

(* Each bit of the checksum from bits of data and checksum.                *)
LEMMA EachBit ==
    ASSUME NEW d \in ByteBits, NEW c \in CrcBits, NEW f, f = First(d, c), NEW t, t = Tmp(d, c),
           NEW r, r = ks_crc_accumulate(d, c)
    PROVE  /\ 0 \in r <=> ~(8 \in c <=> 4 \in t)
           /\ 1 \in r <=> ~(9 \in c <=> 5 \in t)
           /\ 2 \in r <=> ~(10 \in c <=> 6 \in t)
           /\ 3 \in r <=> ~(11 \in c <=> ~(0 \in t <=> 7 \in t))
           /\ 4 \in r <=> ~(12 \in c <=> 1 \in t)
           /\ 5 \in r <=> ~(13 \in c <=> 2 \in t)
           /\ 6 \in r <=> ~(14 \in c <=> 3 \in t)
           /\ 7 \in r <=> ~(15 \in c <=> 4 \in t)
           /\ 8 \in r <=> ~(0 \in t <=> 5 \in t)
           /\ 9 \in r <=> ~(1 \in t <=> 6 \in t)
           /\ 10 \in r <=> ~(2 \in t <=> 7 \in t)
           /\ 11 \in r <=> 3 \in t
           /\ 12 \in r <=> 4 \in t
           /\ 13 \in r <=> 5 \in t
           /\ 14 \in r <=> 6 \in t
           /\ 15 \in r <=> 7 \in t
           /\ \A i \in 0 .. 3 : i \in t <=> i \in f
           /\ 4 \in t <=> ~(4 \in f <=> 0 \in f)
           /\ 5 \in t <=> ~(5 \in f <=> 1 \in f)
           /\ 6 \in t <=> ~(6 \in f <=> 2 \in f)
           /\ 7 \in t <=> ~(7 \in f <=> 3 \in f)
           /\ \A i \in 0 .. 7 : i \in f <=> ~(i \in d <=> i \in c)
<1>1. \A i \in 0 .. 15 : i \in r <=> ~(~(i + 8 \in c <=> i - 8 \in t)
                                         <=> ~(i - 3 \in t <=> i + 4 \in t))
  BY AccumulateBits
<1>2. t \subseteq 0 .. 7 /\ c \subseteq 0 .. 15
  BY TmpBits DEF ByteBits, CrcBits
<1>3. /\ 0 \in r <=> ~(8 \in c <=> 4 \in t)
      /\ 1 \in r <=> ~(9 \in c <=> 5 \in t)
      /\ 2 \in r <=> ~(10 \in c <=> 6 \in t)
      /\ 3 \in r <=> ~(11 \in c <=> ~(0 \in t <=> 7 \in t))
  BY <1>1, <1>2
<1>4. /\ 4 \in r <=> ~(12 \in c <=> 1 \in t)
      /\ 5 \in r <=> ~(13 \in c <=> 2 \in t)
      /\ 6 \in r <=> ~(14 \in c <=> 3 \in t)
      /\ 7 \in r <=> ~(15 \in c <=> 4 \in t)
  BY <1>1, <1>2
<1>5. /\ 8 \in r <=> ~(0 \in t <=> 5 \in t)
      /\ 9 \in r <=> ~(1 \in t <=> 6 \in t)
      /\ 10 \in r <=> ~(2 \in t <=> 7 \in t)
      /\ 11 \in r <=> 3 \in t
  BY <1>1, <1>2
<1>6. /\ 12 \in r <=> 4 \in t
      /\ 13 \in r <=> 5 \in t
      /\ 14 \in r <=> 6 \in t
      /\ 15 \in r <=> 7 \in t
  BY <1>1, <1>2
<1>7. /\ \A i \in 0 .. 3 : i \in t <=> i \in f
      /\ 4 \in t <=> ~(4 \in f <=> 0 \in f)
      /\ 5 \in t <=> ~(5 \in f <=> 1 \in f)
      /\ 6 \in t <=> ~(6 \in f <=> 2 \in f)
      /\ 7 \in t <=> ~(7 \in f <=> 3 \in f)
  BY TmpBits
<1>8. \A i \in 0 .. 7 : i \in f <=> ~(i \in d <=> i \in c)
  BY FirstBits
<1>9. QED
  BY <1>3, <1>4, <1>5, <1>6, <1>7, <1>8

(* Sets of places of a byte are equal if they have the same of the eight.  *)
LEMMA SameByte ==
    ASSUME NEW a \in ByteBits, NEW b \in ByteBits,
           0 \in a <=> 0 \in b, 1 \in a <=> 1 \in b, 2 \in a <=> 2 \in b, 3 \in a <=> 3 \in b,
           4 \in a <=> 4 \in b, 5 \in a <=> 5 \in b, 6 \in a <=> 6 \in b, 7 \in a <=> 7 \in b
    PROVE  a = b
<1>1. \A i \in 0 .. 7 : i \in a <=> i \in b
  <2>1. \A i \in 0 .. 7 : i = 0 \/ i = 1 \/ i = 2 \/ i = 3 \/ i = 4 \/ i = 5 \/ i = 6 \/ i = 7
    OBVIOUS
  <2>2. QED
    BY <2>1
<1>2. a \subseteq 0 .. 7 /\ b \subseteq 0 .. 7
  BY DEF ByteBits
<1>3. QED
  BY <1>1, <1>2

LEMMA Empty == {} \in ByteBits /\ {} \in CrcBits
BY DEF ByteBits, CrcBits

(* The low byte of a checksum whose high byte is 0.                        *)
LEMMA LowByte ==
    ASSUME NEW c \in CrcBits, \A i \in 8 .. 15 : i \notin c
    PROVE  c \in ByteBits
BY DEF ByteBits, CrcBits

(* Without a bit in the high byte nothing was spread: data and the low     *)
(* byte of the checksum were the same, and the high byte moves down.       *)
LEMMA HighClear ==
    ASSUME NEW d \in ByteBits, NEW c \in CrcBits, NEW r, r = ks_crc_accumulate(d, c),
           \A i \in 8 .. 15 : i \notin r
    PROVE  /\ \A i \in 0 .. 7 : i \in d <=> i \in c
           /\ 0 \in r <=> 8 \in c
           /\ 1 \in r <=> 9 \in c
           /\ 2 \in r <=> 10 \in c
           /\ 3 \in r <=> 11 \in c
           /\ 4 \in r <=> 12 \in c
           /\ 5 \in r <=> 13 \in c
           /\ 6 \in r <=> 14 \in c
           /\ 7 \in r <=> 15 \in c
<1> DEFINE f == First(d, c)
           t == Tmp(d, c)
<1>1. f \in ByteBits /\ t \in ByteBits
  BY FirstBits, TmpBits
<1>2. /\ 8 \notin r /\ 9 \notin r /\ 10 \notin r /\ 11 \notin r
      /\ 12 \notin r /\ 13 \notin r /\ 14 \notin r /\ 15 \notin r
  OBVIOUS
<1> HIDE DEF f, t
<1>3. t = {}
  <2>1. 3 \notin t /\ 4 \notin t /\ 5 \notin t /\ 6 \notin t /\ 7 \notin t
    BY <1>2, EachBit DEF f, t
  <2>2. 0 \notin t /\ 1 \notin t /\ 2 \notin t
    BY <1>2, <2>1, EachBit DEF f, t
  <2>3. QED
    BY <1>1, <2>1, <2>2, SameByte, Empty
<1>4. f = {}
  <2>1. 0 \notin f /\ 1 \notin f /\ 2 \notin f /\ 3 \notin f
    BY <1>3, EachBit DEF f, t
  <2>2. 4 \notin f /\ 5 \notin f /\ 6 \notin f /\ 7 \notin f
    BY <1>3, <2>1, EachBit DEF f, t
  <2>3. QED
    BY <1>1, <2>1, <2>2, SameByte, Empty
<1>5. QED
  BY <1>3, <1>4, EachBit DEF f, t

(* Only equal checksums and bytes give the checksum 0.                     *)
LEMMA NothingFromSomething ==
    ASSUME NEW d \in ByteBits, NEW c \in CrcBits, ks_crc_accumulate(d, c) = {}
    PROVE  d = c
<1>1. /\ \A i \in 0 .. 7 : i \in d <=> i \in c
      /\ 8 \notin c /\ 9 \notin c /\ 10 \notin c /\ 11 \notin c
      /\ 12 \notin c /\ 13 \notin c /\ 14 \notin c /\ 15 \notin c
  BY HighClear
<1>2. \A i \in 8 .. 15 : i \notin c
  BY <1>1
<1>3. d \subseteq 0 .. 7 /\ c \subseteq 0 .. 7
  BY <1>2, LowByte DEF ByteBits
<1>4. QED
  BY <1>1, <1>3

LEMMA NothingFromNothing == ks_crc_accumulate({}, {}) = {}
<1> DEFINE f == First({}, {})
           t == Tmp({}, {})
           r == ks_crc_accumulate({}, {})
<1>1. f \in ByteBits /\ t \in ByteBits /\ r \in CrcBits
  BY FirstBits, TmpBits, AccumulateBits, Empty
<1> HIDE DEF f, t, r
<1>2. f = {}
  BY <1>1, FirstBits, Empty DEF f, ByteBits
<1>3. t = {}
  <2>1. \A i \in 0 .. 3 : i \notin t
    BY <1>2, TmpBits, Empty DEF t, f
  <2>2. \A i \in 4 .. 7 : i \notin t
    BY <1>2, TmpBits, Empty DEF t, f
  <2>3. QED
    BY <1>1, <2>1, <2>2 DEF ByteBits
<1>4. \A i \in 0 .. 15 : i \notin r
  BY <1>3, AccumulateBits, Empty DEF r, t
<1>5. QED
  BY <1>1, <1>4 DEF r, CrcBits

(* The checksum is linear in the bits of data and checksum.                *)
LEMMA AccumulateLinear ==
    ASSUME NEW d1 \in ByteBits, NEW d2 \in ByteBits, NEW c1 \in CrcBits, NEW c2 \in CrcBits
    PROVE  ks_crc_accumulate(SymDiff(d1, d2), SymDiff(c1, c2))
               = SymDiff(ks_crc_accumulate(d1, c1), ks_crc_accumulate(d2, c2))
<1>1. PICK d, c : d = SymDiff(d1, d2) /\ c = SymDiff(c1, c2)
  OBVIOUS
<1>2. d \in ByteBits /\ c \in CrcBits
  BY <1>1, SymDiffBit DEF ByteBits, CrcBits
<1>3. /\ \A i : i \in d <=> ~(i \in d1 <=> i \in d2)
      /\ \A i : i \in c <=> ~(i \in c1 <=> i \in c2)
  BY <1>1, SymDiffBit
<1>4. PICK f, f1, f2 : f = First(d, c) /\ f1 = First(d1, c1) /\ f2 = First(d2, c2)
  OBVIOUS
<1>5. \A i \in 0 .. 7 : i \in f <=> ~(i \in f1 <=> i \in f2)
  <2>1. \A i \in 0 .. 7 : i \in f <=> ~(i \in d <=> i \in c)
    BY <1>2, <1>4, FirstBits
  <2>2. \A i \in 0 .. 7 : i \in f1 <=> ~(i \in d1 <=> i \in c1)
    BY <1>4, FirstBits
  <2>3. \A i \in 0 .. 7 : i \in f2 <=> ~(i \in d2 <=> i \in c2)
    BY <1>4, FirstBits
  <2>4. QED
    BY <1>3, <2>1, <2>2, <2>3
<1>6. PICK t, t1, t2 : t = Tmp(d, c) /\ t1 = Tmp(d1, c1) /\ t2 = Tmp(d2, c2)
  OBVIOUS
<1>7. t \in ByteBits /\ t1 \in ByteBits /\ t2 \in ByteBits
  BY <1>2, <1>6, TmpBits
<1>8. \A i \in 0 .. 3 : i \in t <=> ~(i \in t1 <=> i \in t2)
  <2>1. \A i \in 0 .. 3 : i \in 0 .. 7
    OBVIOUS
  <2>2. \A i \in 0 .. 3 : i \in t <=> i \in f
    BY <1>2, <1>4, <1>6, TmpBits
  <2>3. \A i \in 0 .. 3 : i \in t1 <=> i \in f1
    BY <1>4, <1>6, TmpBits
  <2>4. \A i \in 0 .. 3 : i \in t2 <=> i \in f2
    BY <1>4, <1>6, TmpBits
  <2>5. QED
    BY <1>5, <2>1, <2>2, <2>3, <2>4
<1>9. \A i \in 4 .. 7 : i \in t <=> ~(i \in t1 <=> i \in t2)
  <2>1. \A i \in 4 .. 7 : i \in 0 .. 7 /\ i - 4 \in 0 .. 7
    OBVIOUS
  <2>2. \A i \in 4 .. 7 : i \in t <=> ~(i \in f <=> i - 4 \in f)
    BY <1>2, <1>4, <1>6, TmpBits
  <2>3. \A i \in 4 .. 7 : i \in t1 <=> ~(i \in f1 <=> i - 4 \in f1)
    BY <1>4, <1>6, TmpBits
  <2>4. \A i \in 4 .. 7 : i \in t2 <=> ~(i \in f2 <=> i - 4 \in f2)
    BY <1>4, <1>6, TmpBits
  <2>5. QED
    BY <1>5, <2>1, <2>2, <2>3, <2>4
<1>10. \A i : i \in t <=> ~(i \in t1 <=> i \in t2)
  <2>1. t \subseteq 0 .. 7 /\ t1 \subseteq 0 .. 7 /\ t2 \subseteq 0 .. 7
    BY <1>7 DEF ByteBits
  <2>2. \A i \in 0 .. 7 : i \in 0 .. 3 \/ i \in 4 .. 7
    OBVIOUS
  <2>3. \A i \in 0 .. 7 : i \in t <=> ~(i \in t1 <=> i \in t2)
    BY <1>8, <1>9, <2>2
  <2>4. QED
    BY <2>1, <2>3
<1>11. PICK r, r1, r2 : /\ r = ks_crc_accumulate(d, c)
                        /\ r1 = ks_crc_accumulate(d1, c1)
                        /\ r2 = ks_crc_accumulate(d2, c2)
  OBVIOUS
<1>12. r \subseteq 0 .. 15 /\ r1 \subseteq 0 .. 15 /\ r2 \subseteq 0 .. 15
  BY <1>2, <1>11, AccumulateBits DEF CrcBits
<1>13. ASSUME NEW i \in 0 .. 15 PROVE i \in r <=> ~(i \in r1 <=> i \in r2)
  <2>1. i \in r <=> ~(~(i + 8 \in c <=> i - 8 \in t) <=> ~(i - 3 \in t <=> i + 4 \in t))
    BY <1>2, <1>6, <1>11, AccumulateBits
  <2>2. i \in r1 <=> ~(~(i + 8 \in c1 <=> i - 8 \in t1) <=> ~(i - 3 \in t1 <=> i + 4 \in t1))
    BY <1>6, <1>11, AccumulateBits
  <2>3. i \in r2 <=> ~(~(i + 8 \in c2 <=> i - 8 \in t2) <=> ~(i - 3 \in t2 <=> i + 4 \in t2))
    BY <1>6, <1>11, AccumulateBits
  <2>4. i + 8 \in c <=> ~(i + 8 \in c1 <=> i + 8 \in c2)
    BY <1>3
  <2>5. /\ i - 8 \in t <=> ~(i - 8 \in t1 <=> i - 8 \in t2)
        /\ i - 3 \in t <=> ~(i - 3 \in t1 <=> i - 3 \in t2)
        /\ i + 4 \in t <=> ~(i + 4 \in t1 <=> i + 4 \in t2)
    BY <1>10
  <2>6. QED
    BY <2>1, <2>2, <2>3, <2>4, <2>5
<1>14. r = SymDiff(r1, r2)
  BY <1>12, <1>13 DEF SymDiff
<1>15. QED
  BY <1>1, <1>11, <1>14

(***************************************************************************)
(* Faults of the line.  If two packets differ in the bits of e1, e2, ...   *)
(* of one byte and the next ones, these lemmas say how their checksums     *)
(* differ, which by linearity depends on nothing else.                     *)
(***************************************************************************)

(* Sixteen bits of three bytes.                                            *)
LEMMA ThreeBytes ==
    ASSUME NEW s \in 0 .. 7, NEW e1 \in ByteBits, NEW e2 \in ByteBits, NEW e3 \in ByteBits,
           \A i \in e1 : i >= s, \A i \in e3 : i < s,
           ks_crc_accumulate(e3, ks_crc_accumulate(e2, ks_crc_accumulate(e1, {}))) = {}
    PROVE  e1 = {} /\ e2 = {} /\ e3 = {}
<1>1. PICK x, y : x = ks_crc_accumulate(e1, {}) /\ y = ks_crc_accumulate(e2, x)
  OBVIOUS
<1>2. x \in CrcBits /\ y \in CrcBits
  BY <1>1, AccumulateBits, Empty
<1>3. y = e3
  BY <1>1, <1>2, NothingFromSomething
<1>4. \A i \in 8 .. 15 : i \notin y
  BY <1>3 DEF ByteBits
<1>5. /\ \A i \in 0 .. 7 : i \in e2 <=> i \in x
      /\ 0 \in e3 <=> 8 \in x
      /\ 1 \in e3 <=> 9 \in x
      /\ 2 \in e3 <=> 10 \in x
      /\ 3 \in e3 <=> 11 \in x
      /\ 4 \in e3 <=> 12 \in x
      /\ 5 \in e3 <=> 13 \in x
      /\ 6 \in e3 <=> 14 \in x
      /\ 7 \in e3 <=> 15 \in x
  BY <1>1, <1>2, <1>3, <1>4, HighClear
<1>6. PICK f, t : f = First(e1, {}) /\ t = Tmp(e1, {})
  OBVIOUS
<1>7. f \in ByteBits /\ t \in ByteBits /\ f = e1
  <2>1. f \in ByteBits /\ \A i \in 0 .. 7 : i \in f <=> ~(i \in e1 <=> i \in {})
    BY <1>6, FirstBits, Empty
  <2>2. f = e1
    BY <2>1 DEF ByteBits
  <2>3. QED
    BY <1>6, <2>1, <2>2, TmpBits, Empty
<1>8. /\ 8 \in x <=> ~(0 \in t <=> 5 \in t)
      /\ 9 \in x <=> ~(1 \in t <=> 6 \in t)
      /\ 10 \in x <=> ~(2 \in t <=> 7 \in t)
      /\ 11 \in x <=> 3 \in t
      /\ 12 \in x <=> 4 \in t
      /\ 13 \in x <=> 5 \in t
      /\ 14 \in x <=> 6 \in t
      /\ 15 \in x <=> 7 \in t
      /\ \A i \in 0 .. 3 : i \in t <=> i \in e1
      /\ 4 \in t <=> ~(4 \in e1 <=> 0 \in e1)
      /\ 5 \in t <=> ~(5 \in e1 <=> 1 \in e1)
      /\ 6 \in t <=> ~(6 \in e1 <=> 2 \in e1)
      /\ 7 \in t <=> ~(7 \in e1 <=> 3 \in e1)
  BY <1>1, <1>6, <1>7, EachBit, Empty
<1>9. e1 = {}
  <2>1. \A i \in 0 .. 7 : ~(i \in e1 /\ i \in e3)
    OBVIOUS
  <2>2. \A i, j \in 0 .. 7 : i =< j => ~(i \in e1 /\ j \in e3)
    OBVIOUS
  <2>3. /\ 0 \notin e1 /\ 1 \notin e1 /\ 2 \notin e1 /\ 3 \notin e1
        /\ 4 \notin e1 /\ 5 \notin e1 /\ 6 \notin e1 /\ 7 \notin e1
    BY <1>5, <1>8, <2>2
  <2>4. QED
    BY <2>3, SameByte, Empty
<1>10. x = {}
  BY <1>1, <1>9, NothingFromNothing
<1>11. e2 = {} /\ e3 = {}
  BY <1>5, <1>10, SameByte, Empty
<1>12. QED
  BY <1>9, <1>11

(* Thirteen bits from the last byte on over the edge, into the checksum c. *)
LEMMA LastByte ==
    ASSUME NEW s \in 0 .. 7, NEW e \in ByteBits, NEW c \in CrcBits,
           \A i \in e : i >= s, \A i \in c : i =< s + 4,
           ks_crc_accumulate({}, ks_crc_accumulate(e, {})) = c
    PROVE  e = {}
<1>1. PICK x : x = ks_crc_accumulate(e, {})
  OBVIOUS
<1>2. x \in CrcBits
  BY <1>1, AccumulateBits, Empty
<1>3. PICK t, u, g : t = Tmp(e, {}) /\ g = First({}, x) /\ u = Tmp({}, x)
  OBVIOUS
<1>4. First(e, {}) = e
  <2>1. First(e, {}) \in ByteBits /\ \A i \in 0 .. 7 : i \in First(e, {}) <=> ~(i \in e <=> i \in {})
    BY FirstBits, Empty
  <2>2. QED
    BY <2>1 DEF ByteBits
<1>5. /\ 0 \in x <=> 4 \in t
      /\ 1 \in x <=> 5 \in t
      /\ 2 \in x <=> 6 \in t
      /\ 3 \in x <=> ~(0 \in t <=> 7 \in t)
      /\ 4 \in x <=> 1 \in t
      /\ 5 \in x <=> 2 \in t
      /\ 6 \in x <=> 3 \in t
      /\ 7 \in x <=> 4 \in t
      /\ 13 \in x <=> 5 \in t
      /\ 14 \in x <=> 6 \in t
      /\ 15 \in x <=> 7 \in t
      /\ \A i \in 0 .. 3 : i \in t <=> i \in e
      /\ 4 \in t <=> ~(4 \in e <=> 0 \in e)
      /\ 5 \in t <=> ~(5 \in e <=> 1 \in e)
      /\ 6 \in t <=> ~(6 \in e <=> 2 \in e)
      /\ 7 \in t <=> ~(7 \in e <=> 3 \in e)
  BY <1>1, <1>3, <1>4, EachBit, Empty
<1>6. /\ 5 \in c <=> ~(13 \in x <=> 2 \in u)
      /\ 6 \in c <=> ~(14 \in x <=> 3 \in u)
      /\ 7 \in c <=> ~(15 \in x <=> 4 \in u)
      /\ 8 \in c <=> ~(0 \in u <=> 5 \in u)
      /\ 9 \in c <=> ~(1 \in u <=> 6 \in u)
      /\ 10 \in c <=> ~(2 \in u <=> 7 \in u)
      /\ 11 \in c <=> 3 \in u
      /\ 12 \in c <=> 4 \in u
      /\ 13 \in c <=> 5 \in u
      /\ 14 \in c <=> 6 \in u
      /\ 15 \in c <=> 7 \in u
      /\ \A i \in 0 .. 3 : i \in u <=> i \in g
      /\ 4 \in u <=> ~(4 \in g <=> 0 \in g)
      /\ 5 \in u <=> ~(5 \in g <=> 1 \in g)
      /\ 6 \in u <=> ~(6 \in g <=> 2 \in g)
      /\ 7 \in u <=> ~(7 \in g <=> 3 \in g)
      /\ \A i \in 0 .. 7 : i \in g <=> i \in x
  BY <1>1, <1>2, <1>3, EachBit, Empty
<1>7. \A i \in 0 .. 7, j \in 0 .. 15 : i + 4 < j => ~(i \in e /\ j \in c)
  <2>1. SUFFICES ASSUME NEW i \in 0 .. 7, NEW j \in 0 .. 15, i + 4 < j, i \in e, j \in c
                 PROVE  FALSE
    OBVIOUS
  <2>2. i >= s /\ j =< s + 4
    BY <2>1
  <2>3. QED
    BY <2>1, <2>2
<1>8. \A i \in 0 .. 7 : i \in e => \A j \in i + 5 .. 15 : j \notin c
  BY <1>7
<1>9. /\ 0 \in e => 5 \notin c /\ 6 \notin c /\ 7 \notin c /\ 8 \notin c /\ 9 \notin c /\ 10 \notin c /\ 11 \notin c /\ 12 \notin c /\ 13 \notin c /\ 14 \notin c /\ 15 \notin c
      /\ 1 \in e => 6 \notin c /\ 7 \notin c /\ 8 \notin c /\ 9 \notin c /\ 10 \notin c /\ 11 \notin c /\ 12 \notin c /\ 13 \notin c /\ 14 \notin c /\ 15 \notin c
      /\ 2 \in e => 7 \notin c /\ 8 \notin c /\ 9 \notin c /\ 10 \notin c /\ 11 \notin c /\ 12 \notin c /\ 13 \notin c /\ 14 \notin c /\ 15 \notin c
      /\ 3 \in e => 8 \notin c /\ 9 \notin c /\ 10 \notin c /\ 11 \notin c /\ 12 \notin c /\ 13 \notin c /\ 14 \notin c /\ 15 \notin c
      /\ 4 \in e => 9 \notin c /\ 10 \notin c /\ 11 \notin c /\ 12 \notin c /\ 13 \notin c /\ 14 \notin c /\ 15 \notin c
      /\ 5 \in e => 10 \notin c /\ 11 \notin c /\ 12 \notin c /\ 13 \notin c /\ 14 \notin c /\ 15 \notin c
      /\ 6 \in e => 11 \notin c /\ 12 \notin c /\ 13 \notin c /\ 14 \notin c /\ 15 \notin c
      /\ 7 \in e => 12 \notin c /\ 13 \notin c /\ 14 \notin c /\ 15 \notin c
  BY <1>8
<1>10. /\ 0 \notin e /\ 1 \notin e /\ 2 \notin e /\ 3 \notin e
       /\ 4 \notin e /\ 5 \notin e /\ 6 \notin e /\ 7 \notin e
  BY <1>5, <1>6, <1>9
<1>11. QED
  BY <1>10, SameByte, Empty

(* Thirteen bits from the last byte but one on.                            *)
LEMMA LastTwoBytes ==
    ASSUME NEW s \in 4 .. 7, NEW e1 \in ByteBits, NEW e2 \in ByteBits, NEW c \in CrcBits,
           \A i \in e1 : i >= s, \A i \in c : i =< s - 4,
           ks_crc_accumulate({}, ks_crc_accumulate(e2, ks_crc_accumulate(e1, {}))) = c
    PROVE  e1 = {} /\ e2 = {}
<1>1. PICK x, y : x = ks_crc_accumulate(e1, {}) /\ y = ks_crc_accumulate(e2, x)
  OBVIOUS
<1>2. x \in CrcBits /\ y \in CrcBits
  BY <1>1, AccumulateBits, Empty
<1>3. PICK f, t, u : f = First(e1, {}) /\ t = Tmp(e1, {}) /\ u = Tmp(e2, x)
  OBVIOUS
<1>4. f = e1
  <2>1. f \in ByteBits /\ \A i \in 0 .. 7 : i \in f <=> ~(i \in e1 <=> i \in {})
    BY <1>3, FirstBits, Empty
  <2>2. QED
    BY <2>1 DEF ByteBits
<1>5. /\ 8 \in x <=> ~(0 \in t <=> 5 \in t)
      /\ 9 \in x <=> ~(1 \in t <=> 6 \in t)
      /\ 10 \in x <=> ~(2 \in t <=> 7 \in t)
      /\ 11 \in x <=> 3 \in t
      /\ 12 \in x <=> 4 \in t
      /\ 13 \in x <=> 5 \in t
      /\ 14 \in x <=> 6 \in t
      /\ 15 \in x <=> 7 \in t
      /\ \A i \in 0 .. 3 : i \in t <=> i \in e1
      /\ 4 \in t <=> ~(4 \in e1 <=> 0 \in e1)
      /\ 5 \in t <=> ~(5 \in e1 <=> 1 \in e1)
      /\ 6 \in t <=> ~(6 \in e1 <=> 2 \in e1)
      /\ 7 \in t <=> ~(7 \in e1 <=> 3 \in e1)
  BY <1>1, <1>3, <1>4, EachBit, Empty
<1>6. \A i \in 4 .. 15 : i \notin c
  OBVIOUS
<1>7. /\ 0 \notin y /\ 1 \notin y /\ 2 \notin y /\ 3 \notin y
      /\ 4 \notin y /\ 5 \notin y /\ 6 \notin y /\ 7 \notin y
      /\ 0 \in c <=> 8 \in y
      /\ 1 \in c <=> 9 \in y
      /\ 2 \in c <=> 10 \in y
      /\ 3 \in c <=> 11 \in y
      /\ 12 \notin y /\ 13 \notin y /\ 14 \notin y /\ 15 \notin y
  <2>1. \A i \in 8 .. 15 : i \notin c
    BY <1>6
  <2>2. c = ks_crc_accumulate({}, y)
    BY <1>1
  <2>3. /\ \A i \in 0 .. 7 : i \in {} <=> i \in y
        /\ 0 \in c <=> 8 \in y
        /\ 1 \in c <=> 9 \in y
        /\ 2 \in c <=> 10 \in y
        /\ 3 \in c <=> 11 \in y
        /\ 4 \in c <=> 12 \in y
        /\ 5 \in c <=> 13 \in y
        /\ 6 \in c <=> 14 \in y
        /\ 7 \in c <=> 15 \in y
    BY <1>2, <2>1, <2>2, Empty, HighClear
  <2>4. QED
    BY <1>6, <2>3
<1>8. /\ 3 \in y <=> ~(11 \in x <=> ~(0 \in u <=> 7 \in u))
      /\ 4 \in y <=> ~(12 \in x <=> 1 \in u)
      /\ 5 \in y <=> ~(13 \in x <=> 2 \in u)
      /\ 6 \in y <=> ~(14 \in x <=> 3 \in u)
      /\ 7 \in y <=> ~(15 \in x <=> 4 \in u)
      /\ 8 \in y <=> ~(0 \in u <=> 5 \in u)
      /\ 9 \in y <=> ~(1 \in u <=> 6 \in u)
      /\ 10 \in y <=> ~(2 \in u <=> 7 \in u)
      /\ 11 \in y <=> 3 \in u
      /\ 12 \in y <=> 4 \in u
      /\ 13 \in y <=> 5 \in u
      /\ 14 \in y <=> 6 \in u
      /\ 15 \in y <=> 7 \in u
  BY <1>1, <1>2, <1>3, EachBit
<1>9. /\ 0 \notin e1 /\ 1 \notin e1 /\ 2 \notin e1 /\ 3 \notin e1
      /\ 4 \in e1 => 1 \notin c /\ 2 \notin c /\ 3 \notin c
      /\ 5 \in e1 => 2 \notin c /\ 3 \notin c
      /\ 6 \in e1 => 3 \notin c
  <2>1. \A i \in 0 .. 3 : i \notin e1
    OBVIOUS
  <2>2. \A i \in 4 .. 7 : i \in e1 => \A j \in i - 3 .. 3 : j \notin c
    OBVIOUS
  <2>3. QED
    BY <2>1, <2>2
<1>10. 4 \notin e1 /\ 5 \notin e1 /\ 6 \notin e1 /\ 7 \notin e1
  BY <1>5, <1>7, <1>8, <1>9
<1>11. e1 = {}
  BY <1>9, <1>10, SameByte, Empty
<1>12. x = {}
  BY <1>1, <1>11, NothingFromNothing
<1>13. 0 \notin c /\ 1 \notin c /\ 2 \notin c /\ 3 \notin c
  BY <1>7, <1>8, <1>12
<1>14. \A i \in 0 .. 15 : i \notin y
  BY <1>7, <1>13
<1>15. y = {}
  BY <1>2, <1>14 DEF CrcBits
<1>16. e2 = {}
  BY <1>1, <1>2, <1>12, <1>15, NothingFromSomething
<1>17. QED
  BY <1>11, <1>16

(* The checksums after the first 0, 1, ... n bytes.                        *)
Running(h, bytes, n) ==
    /\ h[0] = X25_INIT_CRC
    /\ \A k \in 1 .. n : h[k] = ks_crc_accumulate(bytes[k], h[k - 1])

LEMMA RunningExists ==
    ASSUME NEW bytes \in Seq(ByteBits), NEW n \in 0 .. Len(bytes)
    PROVE  \E h \in [0 .. n -> CrcBits] : Running(h, bytes, n)
<1> DEFINE Open == {m \in 0 .. Len(bytes) : ~\E h \in [0 .. m -> CrcBits] : Running(h, bytes, m)}
<1>1. SUFFICES ASSUME n \in Open PROVE FALSE
  OBVIOUS
<1>2. Len(bytes) \in Nat /\ \A k \in 1 .. Len(bytes) : bytes[k] \in ByteBits
  BY LenProperties, ElementOfSeq
<1>3. PICK m \in Open : \A l \in Open : m =< l
  <2>1. Open \subseteq Nat /\ Open # {}
    BY <1>1
  <2> HIDE DEF Open
  <2>2. QED
    BY <2>1, Smallest
<1>4. m \in 0 .. Len(bytes)
  OBVIOUS
<1>5. m # 0
  <2> DEFINE h == [k \in 0 .. 0 |-> X25_INIT_CRC]
  <2>1. h \in [0 .. 0 -> CrcBits] /\ h[0] = X25_INIT_CRC
    BY DEF X25_INIT_CRC, CrcBits
  <2> HIDE DEF h
  <2>2. Running(h, bytes, 0)
    BY <2>1 DEF Running
  <2>3. QED
    BY <1>3, <2>1, <2>2
<1>6. m - 1 \in 0 .. Len(bytes) /\ m - 1 \notin Open
  <2>1. m - 1 \in 0 .. Len(bytes) /\ ~(m =< m - 1)
    BY <1>2, <1>4, <1>5
  <2> HIDE DEF Open
  <2>2. QED
    BY <1>3, <2>1
<1>7. PICK g \in [0 .. m - 1 -> CrcBits] : Running(g, bytes, m - 1)
  BY <1>6
<1> DEFINE last == ks_crc_accumulate(bytes[m], g[m - 1])
           h == [k \in 0 .. m |-> IF k = m THEN last ELSE g[k]]
<1>8. m - 1 \in 0 .. m - 1 /\ m \in 1 .. Len(bytes) /\ m \in Nat
  BY <1>2, <1>4, <1>5
<1>9. last \in CrcBits
  BY <1>2, <1>7, <1>8, AccumulateBits
<1> HIDE DEF last
<1>10. h \in [0 .. m -> CrcBits]
  BY <1>7, <1>8, <1>9
<1>11. h[0] = X25_INIT_CRC
  BY <1>5, <1>7, <1>8 DEF Running
<1>12. ASSUME NEW k \in 1 .. m PROVE h[k] = ks_crc_accumulate(bytes[k], h[k - 1])
  <2>1. h[k - 1] = g[k - 1]
    BY <1>8
  <2>2. CASE k = m
    <3>1. h[m] = last
      BY <1>8
    <3> HIDE DEF h
    <3>2. QED
      BY <2>1, <2>2, <3>1 DEF last
  <2>3. CASE k # m
    <3>1. k \in 1 .. m - 1 /\ h[k] = g[k]
      BY <1>8, <2>3
    <3> HIDE DEF h
    <3>2. g[k] = ks_crc_accumulate(bytes[k], g[k - 1])
      BY <1>7, <3>1 DEF Running
    <3>3. QED
      BY <2>1, <3>1, <3>2
  <2>4. QED
    BY <2>2, <2>3
<1> HIDE DEF h
<1>13. Running(h, bytes, m)
  BY <1>11, <1>12 DEF Running
<1>14. QED
  BY <1>3, <1>10, <1>13

LEMMA ChecksumLemma ==
    ASSUME NEW bytes \in Seq(ByteBits), NEW seed, NEW h, Running(h, bytes, Len(bytes))
    PROVE  Checksum(bytes, seed) = ks_crc_accumulate(BitSet(seed), h[Len(bytes)])
<1> DEFINE N == Len(bytes)
           F(g) == [k \in 0 .. N |->
                      IF k = 0 THEN X25_INIT_CRC ELSE ks_crc_accumulate(bytes[k], g[k - 1])]
           f == CHOOSE g : g = F(g)
<1>1. N \in Nat
  BY LenProperties
<1>2. \E g : g = F(g)
  <2>1. PICK g \in [0 .. N -> CrcBits] : Running(g, bytes, N)
    <3>1. N \in 0 .. Len(bytes)
      BY <1>1
    <3>2. QED
      BY <3>1, RunningExists
  <2> HIDE DEF N
  <2>2. g = F(g)
    <3>1. g = [k \in 0 .. N |-> g[k]]
      BY <2>1
    <3>2. ASSUME NEW k \in 0 .. N
          PROVE g[k] = IF k = 0 THEN X25_INIT_CRC ELSE ks_crc_accumulate(bytes[k], g[k - 1])
      <4>1. k = 0 \/ k \in 1 .. N
        BY <1>1
      <4>2. g[0] = X25_INIT_CRC /\ \A l \in 1 .. N : g[l] = ks_crc_accumulate(bytes[l], g[l - 1])
        BY <2>1 DEF Running
      <4>3. \A l \in 1 .. N : l # 0
        BY <1>1
      <4>4. QED
        BY <4>1, <4>2, <4>3
    <3>3. QED
      BY <3>1, <3>2
  <2>3. QED
    BY <2>2
<1>3. f = F(f)
  <2> HIDE DEF F
  <2> QED
    BY <1>2
<1>4. Checksum(bytes, seed) = ks_crc_accumulate(BitSet(seed), f[N])
  BY DEF Checksum
<1> HIDE DEF f, N
<1>5. f[0] = X25_INIT_CRC /\ \A k \in 1 .. N : f[k] = ks_crc_accumulate(bytes[k], f[k - 1])
  <2>1. 0 \in 0 .. N /\ \A k \in 1 .. N : k \in 0 .. N /\ k # 0
    BY <1>1
  <2>2. \A k \in 0 .. N : f[k] = IF k = 0 THEN X25_INIT_CRC
                                    ELSE ks_crc_accumulate(bytes[k], f[k - 1])
    BY <1>3
  <2>3. QED
    BY <2>1, <2>2
<1>6. h[0] = X25_INIT_CRC /\ \A k \in 1 .. N : h[k] = ks_crc_accumulate(bytes[k], h[k - 1])
  BY DEF Running, N
<1> DEFINE Off == {k \in 0 .. N : f[k] # h[k]}
<1>7. SUFFICES ASSUME Off # {} PROVE FALSE
  <2>1. N \in 0 .. N
    BY <1>1
  <2>2. f[N] = h[N]
    BY <1>7, <2>1
  <2>3. QED
    BY <1>4, <2>2 DEF N
<1>8. PICK n \in Off : \A l \in Off : n =< l
  <2>1. Off \subseteq Nat /\ Off # {}
    BY <1>7
  <2> HIDE DEF Off
  <2>2. QED
    BY <2>1, Smallest
<1>9. n \in 1 .. N /\ n - 1 \in 0 .. N /\ ~(n =< n - 1)
  BY <1>1, <1>5, <1>6, <1>8
<1>10. f[n - 1] = h[n - 1]
  BY <1>8, <1>9
<1>11. QED
  BY <1>5, <1>6, <1>8, <1>9, <1>10

(* How the checksums of two packets differ after 0, 1, ... n bytes, if     *)
(* these bits of them do.                                                  *)
ByteOf(bits, k) == {i \in 0 .. 7 : 8 * (k - 1) + i \in bits}

Differing(D, bits, n) ==
    /\ D \in [0 .. n -> CrcBits]
    /\ D[0] = {}
    /\ \A k \in 1 .. n : D[k] = ks_crc_accumulate(ByteOf(bits, k), D[k - 1])

LEMMA ByteOfType ==
    ASSUME NEW bits, NEW k
    PROVE  ByteOf(bits, k) \in ByteBits
BY DEF ByteOf, ByteBits

(* Checksums are equal before the first difference, ...                    *)
LEMMA EqualBefore ==
    ASSUME NEW n \in Nat, NEW bits, NEW D, Differing(D, bits, n), NEW k \in 0 .. n,
           \A l \in 1 .. k : ByteOf(bits, l) = {}
    PROVE  D[k] = {}
<1> DEFINE Off == {l \in 0 .. k : D[l] # {}}
<1>1. SUFFICES ASSUME Off # {} PROVE FALSE
  OBVIOUS
<1>2. PICK m \in Off : \A l \in Off : m =< l
  <2>1. Off \subseteq Nat
    OBVIOUS
  <2> HIDE DEF Off
  <2>2. QED
    BY <1>1, <2>1, Smallest
<1>3. m \in 1 .. k /\ m - 1 \in 0 .. k /\ ~(m =< m - 1)
  BY <1>2 DEF Differing
<1>4. D[m - 1] = {}
  BY <1>2, <1>3
<1>5. D[m] = {}
  <2>1. m \in 1 .. n /\ ByteOf(bits, m) = {}
    BY <1>3
  <2>2. D[m] = ks_crc_accumulate(ByteOf(bits, m), D[m - 1])
    BY <2>1 DEF Differing
  <2>3. QED
    BY <1>4, <2>1, <2>2, NothingFromNothing
<1>6. QED
  BY <1>2, <1>5

(* ... and where they differ, equal bytes do not make them equal.          *)
LEMMA DifferentBehind ==
    ASSUME NEW n \in Nat, NEW bits, NEW D, Differing(D, bits, n), NEW k \in 0 .. n,
           \A l \in k + 1 .. n : ByteOf(bits, l) = {}, D[n] = {}
    PROVE  D[k] = {}
<1> DEFINE Clear == {l \in k .. n : D[l] = {}}
<1>1. n \in Clear /\ Clear \subseteq Nat /\ Clear # {}
  OBVIOUS
<1>2. PICK m \in Clear : \A l \in Clear : m =< l
  <2> HIDE DEF Clear
  <2> QED
    BY <1>1, Smallest
<1>3. SUFFICES ASSUME m # k PROVE FALSE
  BY <1>2
<1>4. m \in k + 1 .. n /\ m \in 1 .. n /\ m - 1 \in k .. n /\ m - 1 \in 0 .. n /\ ~(m =< m - 1)
  BY <1>2, <1>3
<1>5. ks_crc_accumulate({}, D[m - 1]) = {}
  <2>1. D[m] = ks_crc_accumulate(ByteOf(bits, m), D[m - 1]) /\ D[m] = {} /\ ByteOf(bits, m) = {}
    BY <1>2, <1>4 DEF Differing
  <2>2. QED
    BY <2>1
<1>6. D[m - 1] \in CrcBits
  BY <1>4 DEF Differing
<1>7. D[m - 1] = {}
  BY <1>5, <1>6, Empty, NothingFromSomething
<1>8. QED
  BY <1>2, <1>4, <1>7

(* Bits that are in no byte and not in the checksum are none.              *)
LEMMA NoBits ==
    ASSUME NEW n \in Nat, NEW bits, bits \subseteq 0 .. 8 * n + 15, NEW c,
           \A k \in 1 .. n : ByteOf(bits, k) = {},
           \A i \in 0 .. 15 : i \in c <=> 8 * n + i \in bits, c = {}
    PROVE  bits = {}
<1>1. SUFFICES ASSUME NEW b \in bits PROVE FALSE
  OBVIOUS
<1>2. b \in 0 .. 8 * n + 15
  OBVIOUS
<1>3. CASE b < 8 * n
  <2>1. PICK k, i : k = b \div 8 + 1 /\ i = b % 8
    OBVIOUS
  <2>2. k \in 1 .. n /\ i \in 0 .. 7 /\ 8 * (k - 1) + i = b
    BY <1>2, <1>3, <2>1
  <2>3. i \in ByteOf(bits, k)
    BY <2>2 DEF ByteOf
  <2>4. QED
    BY <2>2, <2>3
<1>4. CASE b >= 8 * n
  <2>1. PICK i : i = b - 8 * n
    OBVIOUS
  <2>2. i \in 0 .. 15 /\ 8 * n + i = b
    BY <1>2, <1>4, <2>1
  <2>3. QED
    BY <2>2
<1>5. QED
  BY <1>2, <1>3, <1>4

(* Bits close together leave no packet with the checksum that came with it.*)
LEMMA CloseBits ==
    ASSUME NEW n \in Nat, NEW bits, bits \subseteq 0 .. 8 * n + 15,
           NEW first \in 0 .. 8 * n + 15, \A b \in bits : first =< b,
           \/ \A b \in bits : b =< first + 12
           \/ \A b \in bits : b =< first + 15 /\ b < 8 * n,
           NEW c \in CrcBits, \A i \in 0 .. 15 : i \in c <=> 8 * n + i \in bits,
           NEW D, Differing(D, bits, n), ks_crc_accumulate({}, D[n]) = c
    PROVE  bits = {}
<1>1. PICK k, s : k = first \div 8 + 1 /\ s = first % 8
  OBVIOUS
<1>2. k \in 1 .. n + 2 /\ s \in 0 .. 7 /\ first = 8 * (k - 1) + s
  BY <1>1
<1>3. ASSUME NEW l \in Nat, l < k PROVE ByteOf(bits, l) = {}
  <2>1. \A i \in 0 .. 7 : 8 * (l - 1) + i < first
    BY <1>2, <1>3
  <2>2. QED
    BY <2>1 DEF ByteOf
<1>4. ASSUME k =< n + 2 PROVE \A i \in ByteOf(bits, k) : i >= s
  <2>1. SUFFICES ASSUME NEW i \in 0 .. 7, 8 * (k - 1) + i \in bits PROVE i >= s
    BY DEF ByteOf
  <2>2. first =< 8 * (k - 1) + i
    BY <2>1
  <2>3. QED
    BY <1>2, <2>2
<1>5. CASE k > n
  <2>1. \A l \in 1 .. n : ByteOf(bits, l) = {}
    BY <1>2, <1>3, <1>5
  <2>2. D[n] = {}
    BY <2>1, EqualBefore
  <2>3. c = {}
    BY <2>2, NothingFromNothing
  <2>4. QED
    BY <2>1, <2>3, NoBits
<1>6. ASSUME k =< n
      PROVE  /\ k \in 1 .. n /\ k - 1 \in 0 .. n
             /\ D[k] = ks_crc_accumulate(ByteOf(bits, k), {})
  <2>1. k \in 1 .. n /\ k - 1 \in 0 .. n
    BY <1>2, <1>6
  <2>2. \A l \in 1 .. k - 1 : ByteOf(bits, l) = {}
    BY <1>2, <1>3
  <2>3. D[k - 1] = {}
    BY <2>1, <2>2, EqualBefore
  <2>4. QED
    BY <2>1, <2>3 DEF Differing
<1>7. D[n] \in CrcBits
  BY DEF Differing
<1>8. ASSUME \A b \in bits : b < 8 * n PROVE c = {} /\ D[n] = {}
  <2>1. \A i \in 0 .. 15 : i \notin c
    BY <1>8
  <2>2. c = {}
    BY <2>1 DEF CrcBits
  <2>3. QED
    BY <1>7, <2>2, Empty, NothingFromSomething
<1>9. CASE k = n
  <2>1. D[n] = ks_crc_accumulate(ByteOf(bits, n), {})
    BY <1>2, <1>6, <1>9
  <2>2. \A i \in c : i =< s + 4
    <3>1. SUFFICES ASSUME NEW i \in 0 .. 15, 8 * n + i \in bits PROVE i =< s + 4
      BY DEF CrcBits
    <3>2. 8 * n + i =< first + 12
      BY <3>1
    <3>3. QED
      BY <1>2, <1>9, <3>2
  <2>3. ByteOf(bits, n) = {}
    BY <1>2, <1>4, <1>9, <2>1, <2>2, ByteOfType, LastByte
  <2>4. c = {}
    BY <2>1, <2>3, NothingFromNothing
  <2>5. \A l \in 1 .. n : ByteOf(bits, l) = {}
    BY <1>3, <1>9, <2>3
  <2>6. QED
    BY <2>4, <2>5, NoBits
<1>10. CASE k = n - 1
  <2>1. D[n] = ks_crc_accumulate(ByteOf(bits, n), ks_crc_accumulate(ByteOf(bits, n - 1), {}))
    <3>1. k =< n /\ n \in 1 .. n
      BY <1>2, <1>10
    <3>2. D[n - 1] = ks_crc_accumulate(ByteOf(bits, n - 1), {})
      BY <1>6, <1>10, <3>1
    <3>3. QED
      BY <3>1, <3>2 DEF Differing
  <2>2. ByteOf(bits, n - 1) = {} /\ ByteOf(bits, n) = {}
    <3>1. CASE \A b \in bits : b < 8 * n
      <4>1. D[n] = {}
        BY <1>8, <3>1
      <4>2. ks_crc_accumulate({}, ks_crc_accumulate(ByteOf(bits, n),
                                    ks_crc_accumulate(ByteOf(bits, n - 1), {}))) = {}
        BY <2>1, <4>1, NothingFromNothing
      <4>3. QED
        BY <1>2, <1>4, <1>10, <4>2, ByteOfType, Empty, ThreeBytes
    <3>2. CASE ~\A b \in bits : b < 8 * n
      <4>1. PICK b \in bits : ~(b < 8 * n)
        BY <3>2
      <4>2. b =< first + 12 /\ b \in 0 .. 8 * n + 15
        BY <4>1
      <4>3. s \in 4 .. 7
        BY <1>2, <1>10, <4>1, <4>2
      <4>4. \A i \in c : i =< s - 4
        <5>1. SUFFICES ASSUME NEW i \in 0 .. 15, 8 * n + i \in bits PROVE i =< s - 4
          BY DEF CrcBits
        <5>2. 8 * n + i =< first + 12
          BY <4>1, <5>1
        <5>3. QED
          BY <1>2, <1>10, <5>2
      <4>5. QED
        BY <1>2, <1>4, <1>10, <2>1, <4>3, <4>4, ByteOfType, LastTwoBytes
    <3>3. QED
      BY <3>1, <3>2
  <2>3. c = {}
    BY <2>1, <2>2, NothingFromNothing
  <2>4. \A l \in 1 .. n : ByteOf(bits, l) = {}
    <3>1. \A l \in 1 .. n : l < k \/ l = n - 1 \/ l = n
      BY <1>10
    <3>2. QED
      BY <1>3, <2>2, <3>1
  <2>5. QED
    BY <2>3, <2>4, NoBits
<1>11. CASE k =< n - 2
  <2>1. \A b \in bits : b =< first + 15
    OBVIOUS
  <2>2. \A b \in bits : b < 8 * n
    BY <1>2, <1>11, <2>1
  <2>3. c = {} /\ D[n] = {}
    BY <1>8, <2>2
  <2>4. \A l \in k + 3 .. n : ByteOf(bits, l) = {}
    <3>1. SUFFICES ASSUME NEW l \in k + 3 .. n, NEW i \in 0 .. 7, 8 * (l - 1) + i \in bits
                   PROVE  FALSE
      BY DEF ByteOf
    <3>2. 8 * (l - 1) + i =< first + 15
      BY <2>1, <3>1
    <3>3. QED
      BY <1>2, <1>11, <3>2
  <2>5. D[k + 2] = {}
    <3>1. k + 2 \in 0 .. n /\ k + 3 = (k + 2) + 1
      BY <1>2, <1>11
    <3>2. \A l \in (k + 2) + 1 .. n : ByteOf(bits, l) = {}
      BY <2>4, <3>1
    <3>3. QED
      BY <2>3, <3>1, <3>2, DifferentBehind
  <2>6. D[k + 2] = ks_crc_accumulate(ByteOf(bits, k + 2), ks_crc_accumulate(ByteOf(bits, k + 1),
                       ks_crc_accumulate(ByteOf(bits, k), {})))
    <3>1. k =< n /\ k + 1 \in 1 .. n /\ k + 2 \in 1 .. n /\ (k + 1) - 1 = k /\ (k + 2) - 1 = k + 1
      BY <1>2, <1>11
    <3>2. D[k] = ks_crc_accumulate(ByteOf(bits, k), {})
      BY <1>6, <3>1
    <3>3. D[k + 1] = ks_crc_accumulate(ByteOf(bits, k + 1), D[k])
      BY <3>1 DEF Differing
    <3>4. D[k + 2] = ks_crc_accumulate(ByteOf(bits, k + 2), D[k + 1])
      BY <3>1 DEF Differing
    <3>5. QED
      BY <3>2, <3>3, <3>4
  <2>7. \A i \in ByteOf(bits, k + 2) : i < s
    <3>1. SUFFICES ASSUME NEW i \in ByteOf(bits, k + 2) PROVE i < s
      OBVIOUS
    <3>2. i \in 0 .. 7 /\ 8 * ((k + 2) - 1) + i \in bits
      BY <3>1 DEF ByteOf
    <3>3. 8 * ((k + 2) - 1) + i =< first + 15
      BY <2>1, <3>2
    <3>4. QED
      BY <1>2, <3>2, <3>3
  <2>8. ByteOf(bits, k) = {} /\ ByteOf(bits, k + 1) = {} /\ ByteOf(bits, k + 2) = {}
    BY <1>2, <1>4, <2>5, <2>6, <2>7, ByteOfType, ThreeBytes
  <2>9. \A l \in 1 .. n : ByteOf(bits, l) = {}
    <3>1. \A l \in 1 .. n : l < k \/ l = k \/ l = k + 1 \/ l = k + 2 \/ l \in k + 3 .. n
      BY <1>2, <1>11
    <3>2. QED
      BY <1>3, <2>4, <2>8, <3>1
  <2>10. QED
    BY <2>3, <2>9, NoBits
<1>12. QED
  BY <1>2, <1>5, <1>9, <1>10, <1>11

(***************************************************************************)
(* Packets.                                                                *)
(***************************************************************************)

(* A byte, or a byte nobody has written, is the number of its bits.        *)
LEMMA NumberOfBits ==
    ASSUME NEW n \in 0 .. 256
    PROVE  Number(BitSet(n)) = n
<1>1. /\ 0 \in BitSet(n) <=> n % 2 = 1
      /\ 1 \in BitSet(n) <=> (n \div 2) % 2 = 1
      /\ 2 \in BitSet(n) <=> (n \div 4) % 2 = 1
      /\ 3 \in BitSet(n) <=> (n \div 8) % 2 = 1
      /\ 4 \in BitSet(n) <=> (n \div 16) % 2 = 1
      /\ 5 \in BitSet(n) <=> (n \div 32) % 2 = 1
      /\ 6 \in BitSet(n) <=> (n \div 64) % 2 = 1
      /\ 7 \in BitSet(n) <=> (n \div 128) % 2 = 1
      /\ 8 \in BitSet(n) <=> (n \div 256) % 2 = 1
  BY Powers DEF BitSet
<1>2. PICK b0, b1, b2, b3, b4, b5, b6, b7, b8 :
         /\ b0 = n % 2 /\ b1 = (n \div 2) % 2 /\ b2 = (n \div 4) % 2
         /\ b3 = (n \div 8) % 2 /\ b4 = (n \div 16) % 2 /\ b5 = (n \div 32) % 2
         /\ b6 = (n \div 64) % 2 /\ b7 = (n \div 128) % 2 /\ b8 = (n \div 256) % 2
  OBVIOUS
<1>3. /\ b0 \in {0, 1} /\ b1 \in {0, 1} /\ b2 \in {0, 1} /\ b3 \in {0, 1} /\ b4 \in {0, 1}
      /\ b5 \in {0, 1} /\ b6 \in {0, 1} /\ b7 \in {0, 1} /\ b8 \in {0, 1}
  BY <1>2
<1>4. n = b0 + 2 * b1 + 4 * b2 + 8 * b3 + 16 * b4 + 32 * b5 + 64 * b6 + 128 * b7 + 256 * b8
  BY <1>2
<1>5. /\ (IF 0 \in BitSet(n) THEN 1 ELSE 0) = b0
      /\ (IF 1 \in BitSet(n) THEN 2 ELSE 0) = 2 * b1
      /\ (IF 2 \in BitSet(n) THEN 4 ELSE 0) = 4 * b2
      /\ (IF 3 \in BitSet(n) THEN 8 ELSE 0) = 8 * b3
      /\ (IF 4 \in BitSet(n) THEN 16 ELSE 0) = 16 * b4
      /\ (IF 5 \in BitSet(n) THEN 32 ELSE 0) = 32 * b5
      /\ (IF 6 \in BitSet(n) THEN 64 ELSE 0) = 64 * b6
      /\ (IF 7 \in BitSet(n) THEN 128 ELSE 0) = 128 * b7
      /\ (IF 8 \in BitSet(n) THEN 256 ELSE 0) = 256 * b8
  BY <1>1, <1>2, <1>3
<1>6. Number(BitSet(n)) = (IF 0 \in BitSet(n) THEN 1 ELSE 0) + (IF 1 \in BitSet(n) THEN 2 ELSE 0)
         + (IF 2 \in BitSet(n) THEN 4 ELSE 0) + (IF 3 \in BitSet(n) THEN 8 ELSE 0)
         + (IF 4 \in BitSet(n) THEN 16 ELSE 0) + (IF 5 \in BitSet(n) THEN 32 ELSE 0)
         + (IF 6 \in BitSet(n) THEN 64 ELSE 0) + (IF 7 \in BitSet(n) THEN 128 ELSE 0)
         + (IF 8 \in BitSet(n) THEN 256 ELSE 0)
  BY Powers DEF Number
<1>7. QED
  BY <1>3, <1>4, <1>5, <1>6

LEMMA NumberType ==
    ASSUME NEW bits
    PROVE  Number(bits) \in Nat
BY Powers DEF Number

LEMMA BitSetType == \A n \in 0 .. 255 : BitSet(n) \in ByteBits
<1>1. SUFFICES ASSUME NEW n \in 0 .. 255 PROVE BitSet(n) \in ByteBits
  OBVIOUS
<1>2. 8 \notin BitSet(n)
  <2>1. (n \div 256) % 2 = 0
    OBVIOUS
  <2>2. QED
    BY <2>1, Powers DEF BitSet
<1>3. BitSet(n) \subseteq 0 .. 8
  BY DEF BitSet
<1>4. QED
  BY <1>2, <1>3 DEF ByteBits

Programs == {"library", "bridge", "gcs", "sender", "listener"}

(* A seed is a byte, whichever table it is from.                           *)
LEMMA SeedType ==
    ASSUME NEW program \in Programs, NEW id \in Nat
    PROVE  Seed(program, id) \in 0 .. 255
<1>1. Hashed(id) \in 0 .. 255
  BY DEF Hashed
<1>2. ASSUME NEW k \in 1 .. 35 PROVE ks_crc_seed_table[k] \in 0 .. 255
  BY <1>2 DEF ks_crc_seed_table
<1>3. id < 35 => ks_crc_seed_table[id + 1] \in 0 .. 255
  BY <1>2
<1>4. ks_get_crc_seed(id) \in 0 .. 255 /\ get_crc_seed(id) \in 0 .. 255 /\ CRC_SEEDS(id) \in 0 .. 255
  BY <1>1, <1>3 DEF ks_get_crc_seed, get_crc_seed, CRC_SEEDS
<1>5. QED
  BY <1>4 DEF Seed, Programs

LEMMA Same == \A A : SymDiff(A, A) = {}
BY DEF SymDiff

LEMMA SymDiffType ==
    /\ \A a, b \in ByteBits : SymDiff(a, b) \in ByteBits
    /\ \A a, b \in CrcBits : SymDiff(a, b) \in CrcBits
BY DEF SymDiff, ByteBits, CrcBits

(* Two sequences of n bytes differ in these bits.                          *)
DifferIn(p, q, bits, n) ==
    /\ n \in Nat
    /\ p \in Seq(ByteBits) /\ Len(p) = n
    /\ q \in Seq(ByteBits) /\ Len(q) = n
    /\ \A k \in 1 .. n : SymDiff(p[k], q[k]) = ByteOf(bits, k)

(* What differs between two packets alone decides what does between their  *)
(* checksums.                                                              *)
LEMMA Difference ==
    ASSUME NEW p, NEW q, NEW bits, NEW n, DifferIn(p, q, bits, n)
    PROVE  \E D : /\ Differing(D, bits, n)
                  /\ \A seed \in 0 .. 255 :
                        SymDiff(Checksum(p, seed), Checksum(q, seed)) = ks_crc_accumulate({}, D[n])
<1>0. n \in Nat /\ p \in Seq(ByteBits) /\ Len(p) = n /\ q \in Seq(ByteBits) /\ Len(q) = n
  BY DEF DifferIn
<1>1. n \in 0 .. Len(p) /\ n \in 0 .. Len(q)
  BY <1>0
<1>2. PICK g \in [0 .. n -> CrcBits] : Running(g, p, n)
  BY <1>0, <1>1, RunningExists
<1>3. PICK h \in [0 .. n -> CrcBits] : Running(h, q, n)
  BY <1>0, <1>1, RunningExists
<1> DEFINE D == [k \in 0 .. n |-> SymDiff(g[k], h[k])]
<1>4. D \in [0 .. n -> CrcBits]
  BY <1>2, <1>3, SymDiffType
<1>5. \A k \in 0 .. n : D[k] = SymDiff(g[k], h[k])
  OBVIOUS
<1> HIDE DEF D
<1>6. D[0] = {}
  BY <1>0, <1>2, <1>3, <1>5, Same DEF Running
<1>7. ASSUME NEW k \in 1 .. n PROVE D[k] = ks_crc_accumulate(ByteOf(bits, k), D[k - 1])
  <2>1. k \in 0 .. n /\ k - 1 \in 0 .. n
    BY <1>0
  <2>2. p[k] \in ByteBits /\ q[k] \in ByteBits
    BY <1>0, ElementOfSeq
  <2>3. g[k - 1] \in CrcBits /\ h[k - 1] \in CrcBits
    BY <1>2, <1>3, <2>1
  <2>4. g[k] = ks_crc_accumulate(p[k], g[k - 1]) /\ h[k] = ks_crc_accumulate(q[k], h[k - 1])
    BY <1>2, <1>3 DEF Running
  <2>5. ks_crc_accumulate(SymDiff(p[k], q[k]), SymDiff(g[k - 1], h[k - 1])) = SymDiff(g[k], h[k])
    BY <2>2, <2>3, <2>4, AccumulateLinear
  <2>6. SymDiff(p[k], q[k]) = ByteOf(bits, k)
    BY DEF DifferIn
  <2>7. QED
    BY <1>5, <2>1, <2>5, <2>6
<1>8. Differing(D, bits, n)
  BY <1>0, <1>4, <1>6, <1>7 DEF Differing
<1>9. ASSUME NEW seed \in 0 .. 255
      PROVE  SymDiff(Checksum(p, seed), Checksum(q, seed)) = ks_crc_accumulate({}, D[n])
  <2>1. /\ Checksum(p, seed) = ks_crc_accumulate(BitSet(seed), g[n])
        /\ Checksum(q, seed) = ks_crc_accumulate(BitSet(seed), h[n])
    BY <1>0, <1>2, <1>3, ChecksumLemma
  <2>2. n \in 0 .. n /\ g[n] \in CrcBits /\ h[n] \in CrcBits /\ BitSet(seed) \in ByteBits
    <3>1. n \in 0 .. n
      BY <1>0
    <3>2. g[n] \in CrcBits /\ h[n] \in CrcBits
      BY <1>2, <1>3, <3>1
    <3>3. BitSet(seed) \in ByteBits
      BY BitSetType
    <3>4. QED
      BY <3>1, <3>2, <3>3
  <2>3. SymDiff(ks_crc_accumulate(BitSet(seed), g[n]), ks_crc_accumulate(BitSet(seed), h[n]))
            = ks_crc_accumulate(SymDiff(BitSet(seed), BitSet(seed)), SymDiff(g[n], h[n]))
    BY <2>2, AccumulateLinear
  <2>4. QED
    BY <1>5, <2>1, <2>2, <2>3, Same
<1>10. QED
  BY <1>8, <1>9

LEMMA ChecksumType ==
    ASSUME NEW bytes \in Seq(ByteBits), NEW seed \in 0 .. 255
    PROVE  Checksum(bytes, seed) \in CrcBits
<1>1. Len(bytes) \in Nat /\ Len(bytes) \in 0 .. Len(bytes)
  BY LenProperties
<1>2. PICK h \in [0 .. Len(bytes) -> CrcBits] : Running(h, bytes, Len(bytes))
  BY <1>1, RunningExists
<1>3. h[Len(bytes)] \in CrcBits /\ BitSet(seed) \in ByteBits
  BY <1>1, <1>2, BitSetType
<1>4. QED
  BY <1>2, <1>3, ChecksumLemma, AccumulateBits

(* The checksum of two bytes, the low one first.                           *)
LEMMA TwoBytes ==
    ASSUME NEW a \in ByteBits, NEW b \in ByteBits
    PROVE  /\ a \cup Shifted(b, 8) \in CrcBits
           /\ \A i \in 0 .. 7 : i \in a \cup Shifted(b, 8) <=> i \in a
           /\ \A i \in 8 .. 15 : i \in a \cup Shifted(b, 8) <=> i - 8 \in b
<1>1. a \subseteq 0 .. 7 /\ b \subseteq 0 .. 7 /\ b \in CrcBits
  BY DEF ByteBits, CrcBits
<1>2. Shifted(b, 8) \subseteq 0 .. 15 /\ \A i \in 0 .. 15 : i \in Shifted(b, 8) <=> i - 8 \in b
  BY <1>1, ShiftedBit
<1>3. PICK u : u = a \cup Shifted(b, 8)
  OBVIOUS
<1>4. u \subseteq 0 .. 15
  <2>1. \A i \in 0 .. 7 : i \in 0 .. 15
    OBVIOUS
  <2>2. QED
    BY <1>1, <1>2, <1>3, <2>1
<1>5. \A i \in 0 .. 7 : i \in u <=> i \in a
  <2>1. \A i \in 0 .. 7 : i \in 0 .. 15 /\ i - 8 \notin b
    BY <1>1
  <2>2. QED
    BY <1>2, <1>3, <2>1
<1>6. \A i \in 8 .. 15 : i \in u <=> i - 8 \in b
  <2>1. \A i \in 8 .. 15 : i \in 0 .. 15 /\ i \notin a
    BY <1>1
  <2>2. QED
    BY <1>2, <1>3, <2>1
<1>7. QED
  BY <1>3, <1>4, <1>5, <1>6 DEF CrcBits

LEMMA Halved ==
    ASSUME NEW c \in CrcBits
    PROVE  /\ c \cap 0 .. 7 \in ByteBits /\ Shifted(c, -8) \in ByteBits
           /\ (c \cap 0 .. 7) \cup Shifted(Shifted(c, -8), 8) = c
<1>1. PICK b : b = Shifted(c, -8)
  OBVIOUS
<1>2. b \subseteq 0 .. 15 /\ \A i \in 0 .. 15 : i \in b <=> i + 8 \in c
  <2>1. b \subseteq 0 .. 15 /\ \A i \in 0 .. 15 : i \in b <=> i - (-8) \in c
    BY <1>1, ShiftedBit
  <2>2. \A i \in 0 .. 15 : i - (-8) = i + 8
    OBVIOUS
  <2>3. QED
    BY <2>1, <2>2
<1>3. c \subseteq 0 .. 15
  BY DEF CrcBits
<1>4. b \in ByteBits /\ c \cap 0 .. 7 \in ByteBits
  BY <1>2, <1>3 DEF ByteBits
<1>5. PICK d : d = (c \cap 0 .. 7) \cup Shifted(b, 8)
  OBVIOUS
<1>6. /\ d \in CrcBits
      /\ \A i \in 0 .. 7 : i \in d <=> i \in c
      /\ \A i \in 8 .. 15 : i \in d <=> i - 8 \in b
  BY <1>4, <1>5, TwoBytes
<1>7. \A i \in 8 .. 15 : i - 8 \in b <=> i \in c
  <2>1. \A i \in 8 .. 15 : i - 8 \in 0 .. 15 /\ (i - 8) + 8 = i
    OBVIOUS
  <2>2. QED
    BY <1>2, <2>1
<1>8. d = c
  <2>1. d \subseteq 0 .. 15
    BY <1>6 DEF CrcBits
  <2>2. \A i \in 0 .. 15 : i \in 0 .. 7 \/ i \in 8 .. 15
    OBVIOUS
  <2>3. QED
    BY <1>3, <1>6, <1>7, <2>1, <2>2
<1>9. QED
  BY <1>1, <1>4, <1>5, <1>8

(* A fault that Damage can cause behind the message number is noticed: of  *)
(* a packet that any program accepts it leaves none that it accepts,       *)
(* whatever the packet says and however long it is.                        *)
THEOREM FaultsShow ==
    ASSUME NEW r \in Programs, NEW packet \in Seq(ByteBits), Len(packet) >= 4,
           NEW bits, bits # {}, bits \subseteq 16 .. 8 * Len(packet) - 1,
           NEW first \in 16 .. 8 * Len(packet) - 1, \A bit \in bits : first =< bit,
           \/ \A bit \in bits : bit =< first + 12
           \/ \A bit \in bits : bit =< first + 15 /\ bit < 8 * (Len(packet) - 2),
           CrcMatches(r, packet)
    PROVE  ~CrcMatches(r, Inverted(packet, bits))
<1>1. SUFFICES ASSUME CrcMatches(r, Inverted(packet, bits)) PROVE FALSE
  OBVIOUS
<1>2. PICK n : n = Len(packet) - 2
  OBVIOUS
<1>3. Len(packet) \in Nat /\ n \in Nat /\ n >= 2 /\ Len(packet) = n + 2 /\ DOMAIN packet = 1 .. n + 2
  BY <1>2, LenProperties
<1>4. \A k \in 1 .. n + 2 : packet[k] \in ByteBits
  BY <1>3, ElementOfSeq
<1>5. PICK faulty : faulty = Inverted(packet, bits)
  OBVIOUS
<1>6. \A k \in 1 .. n + 2 : faulty[k] = SymDiff(packet[k], ByteOf(bits, k))
  BY <1>3, <1>5 DEF Inverted, ByteOf
<1>7. faulty \in Seq(ByteBits) /\ Len(faulty) = n + 2
  <2>1. \A k \in 1 .. n + 2 : SymDiff(packet[k], ByteOf(bits, k)) \in ByteBits
    BY <1>4, ByteOfType, SymDiffType
  <2>2. faulty = [k \in 1 .. n + 2 |-> SymDiff(packet[k], ByteOf(bits, k))]
    BY <1>3, <1>5 DEF Inverted, ByteOf
  <2>3. faulty \in [1 .. n + 2 -> ByteBits]
    BY <2>1, <2>2
  <2>4. n + 2 \in Nat
    BY <1>3
  <2>5. QED
    BY <2>3, <2>4, SeqOfLength
<1>8. faulty[1] = packet[1] /\ faulty[2] = packet[2]
  <2>1. \A k \in 1 .. 2 : \A i \in 0 .. 7 : 8 * (k - 1) + i \notin bits
    OBVIOUS
  <2>2. ByteOf(bits, 1) = {} /\ ByteOf(bits, 2) = {}
    BY <2>1 DEF ByteOf
  <2>3. \A A : SymDiff(A, {}) = A
    BY DEF SymDiff
  <2>4. 1 \in 1 .. n + 2 /\ 2 \in 1 .. n + 2
    BY <1>3
  <2>5. faulty[1] = SymDiff(packet[1], ByteOf(bits, 1)) /\ faulty[2] = SymDiff(packet[2], ByteOf(bits, 2))
    BY <1>6, <2>4
  <2>6. QED
    BY <2>2, <2>3, <2>5
<1>9. PICK id : id = 256 * (Number(packet[1]) % 16) + Number(packet[2])
  OBVIOUS
<1>10. PICK seed \in 0 .. 255 : seed = Seed(r, id)
  <2>1. id \in Nat
    BY <1>9, NumberType
  <2>2. QED
    BY <2>1, SeedType
<1>11. PICK p, q : p = SubSeq(packet, 1, n) /\ q = SubSeq(faulty, 1, n)
  OBVIOUS
<1>12. /\ p \in Seq(ByteBits) /\ q \in Seq(ByteBits) /\ Len(p) = n /\ Len(q) = n
       /\ \A k \in 1 .. n : p[k] = packet[k] /\ q[k] = faulty[k]
  BY <1>3, <1>7, <1>11, SubSeqProperties
<1>13. PICK a, b : a = packet[n + 1] \cup Shifted(packet[n + 2], 8)
                   /\ b = faulty[n + 1] \cup Shifted(faulty[n + 2], 8)
  OBVIOUS
<1>14. Checksum(p, seed) = a /\ Checksum(q, seed) = b
  <2>1. (n + 2) - 2 = n /\ (n + 2) - 1 = n + 1
    BY <1>3
  <2>2. Checksum(p, seed) = a
    BY <1>3, <1>9, <1>10, <1>11, <1>13, <2>1 DEF CrcMatches
  <2>3. Checksum(q, seed) = b
    BY <1>1, <1>5, <1>7, <1>8, <1>9, <1>10, <1>11, <1>13, <2>1 DEF CrcMatches
  <2>4. QED
    BY <2>2, <2>3
<1>15. PICK c : c = SymDiff(a, b)
  OBVIOUS
<1>16. c \in CrcBits /\ \A i \in 0 .. 15 : i \in c <=> 8 * n + i \in bits
  <2>1. PICK k1, k2 : k1 = n + 1 /\ k2 = n + 2
    OBVIOUS
  <2>2. k1 \in 1 .. n + 2 /\ k2 \in 1 .. n + 2 /\ k1 - 1 = n /\ k2 - 1 = n + 1
    BY <1>3, <2>1
  <2>3. /\ packet[k1] \in ByteBits /\ packet[k2] \in ByteBits
        /\ faulty[k1] \in ByteBits /\ faulty[k2] \in ByteBits
    BY <1>4, <1>7, <2>2, ElementOfSeq
  <2>4. /\ a \in CrcBits /\ \A i \in 0 .. 7 : i \in a <=> i \in packet[k1]
        /\ \A i \in 8 .. 15 : i \in a <=> i - 8 \in packet[k2]
    <3>1. PICK low \in ByteBits, high \in ByteBits : low = packet[k1] /\ high = packet[k2]
      BY <2>3
    <3>2. a = low \cup Shifted(high, 8)
      BY <1>13, <2>1, <3>1
    <3>3. QED
      BY <3>1, <3>2, TwoBytes
  <2>5. /\ b \in CrcBits /\ \A i \in 0 .. 7 : i \in b <=> i \in faulty[k1]
        /\ \A i \in 8 .. 15 : i \in b <=> i - 8 \in faulty[k2]
    <3>1. PICK low \in ByteBits, high \in ByteBits : low = faulty[k1] /\ high = faulty[k2]
      BY <2>3
    <3>2. b = low \cup Shifted(high, 8)
      BY <1>13, <2>1, <3>1
    <3>3. QED
      BY <3>1, <3>2, TwoBytes
  <2>6. \A i : /\ i \in faulty[k1] <=> ~(i \in packet[k1] <=> i \in ByteOf(bits, k1))
               /\ i \in faulty[k2] <=> ~(i \in packet[k2] <=> i \in ByteOf(bits, k2))
    BY <1>6, <2>2, SymDiffBit
  <2>7. \A i : i \in c <=> ~(i \in a <=> i \in b)
    BY <1>15, SymDiffBit
  <2>8. c \in CrcBits
    BY <1>15, <2>4, <2>5, SymDiffType
  <2>9. ASSUME NEW i \in 0 .. 7 PROVE i \in c <=> 8 * n + i \in bits
    <3>1. i \in c <=> i \in ByteOf(bits, k1)
      BY <2>4, <2>5, <2>6, <2>7
    <3>2. i \in ByteOf(bits, k1) <=> 8 * (k1 - 1) + i \in bits
      BY DEF ByteOf
    <3>3. QED
      BY <2>2, <3>1, <3>2
  <2>10. ASSUME NEW i \in 8 .. 15 PROVE i \in c <=> 8 * n + i \in bits
    <3>1. i \in c <=> i - 8 \in ByteOf(bits, k2)
      BY <2>4, <2>5, <2>6, <2>7
    <3>2. i - 8 \in ByteOf(bits, k2) <=> 8 * (k2 - 1) + (i - 8) \in bits
      BY DEF ByteOf
    <3>3. 8 * (k2 - 1) + (i - 8) = 8 * n + i
      BY <1>3, <2>2
    <3>4. QED
      BY <3>1, <3>2, <3>3
  <2>11. \A i \in 0 .. 15 : i \in 0 .. 7 \/ i \in 8 .. 15
    OBVIOUS
  <2>12. QED
    BY <2>8, <2>9, <2>10, <2>11
<1>17. ASSUME NEW k \in 1 .. n PROVE SymDiff(p[k], q[k]) = ByteOf(bits, k)
  <2>1. p[k] = packet[k] /\ q[k] = SymDiff(packet[k], ByteOf(bits, k))
    BY <1>3, <1>6, <1>12
  <2>2. \A A, B : SymDiff(A, SymDiff(A, B)) = B
    BY DEF SymDiff
  <2>3. QED
    BY <2>1, <2>2
<1>18. PICK D : /\ Differing(D, bits, n)
                /\ \A z \in 0 .. 255 :
                      SymDiff(Checksum(p, z), Checksum(q, z)) = ks_crc_accumulate({}, D[n])
  <2>1. DifferIn(p, q, bits, n)
    BY <1>3, <1>12, <1>17 DEF DifferIn
  <2>2. QED
    BY <2>1, Difference
<1>19. ks_crc_accumulate({}, D[n]) = c
  BY <1>10, <1>14, <1>15, <1>18
<1>20. bits \subseteq 0 .. 8 * n + 15 /\ first \in 0 .. 8 * n + 15
  BY <1>3
<1>21. \/ \A bit \in bits : bit =< first + 12
       \/ \A bit \in bits : bit =< first + 15 /\ bit < 8 * n
  BY <1>2
<1>22. bits = {}
  BY <1>3, <1>16, <1>18, <1>19, <1>20, <1>21, CloseBits
<1>23. QED
  BY <1>22

----
(***************************************************************************)
(* The tables.  A table's rows lie apart, name a field once, and follow    *)
(* each other without a gap.                                               *)
(***************************************************************************)

(***************************************************************************)
(* The tables.                                                             *)
(***************************************************************************)

(* Rows lie within the announced length and apart from each other.         *)
Placing(codec) ==
    /\ codec.returns \in Nat
    /\ \A row \in codec.rows :
          /\ row.at \in Nat /\ row.size \in Nat /\ row.at + row.size =< codec.returns
          /\ row.as \in {"bytes", "int32", "half", "clamped", "zero", "string"}
          /\ row.as = "half" => row.size = 2
          /\ row.as = "int32" => row.size = 4
          /\ row.as \in {"clamped", "zero"} => row.size = 1
    /\ \A a, b \in codec.rows : a = b \/ a.at + a.size =< b.at \/ b.at + b.size =< a.at

(* A field has one row, and its name says how it is converted.             *)
Naming(codec) ==
    /\ \A a, b \in codec.rows : a.field = b.field => a = b \/ a.as = "zero"
    /\ \A row \in codec.rows :
          /\ row.field \in Rates <=> row.as = "half"
          /\ row.field = "zero" <=> row.as = "zero"
          /\ row.field \in {"param_id", "text"} => row.as \in {"bytes", "string"}
          /\ row.as = "clamped" => row.field = "count"
          /\ row.field # "rate"

Starts(rows, at) == \E row \in rows : row.at = at /\ row.size > 0

LEMMA StartsIf ==
    ASSUME NEW rows, NEW row \in rows, row.size > 0
    PROVE  Starts(rows, row.at)
BY DEF Starts

(* From the first byte on, where a row ends another starts.                *)
Chained(codec) ==
    /\ codec.returns > 0 => Starts(codec.rows, 0)
    /\ \A row \in codec.rows :
          row.at + row.size = codec.returns \/ Starts(codec.rows, row.at + row.size)

Table(codec) ==
    /\ Placing(codec) /\ Naming(codec) /\ Chained(codec)
    /\ \A row \in codec.rows : row.as # "string"

USE DEF Codec, Row, U8, U16, U32, F32, I32, Half, Mem, Zero, Str

LEMMA AttitudeTable ==
    Table(ks_serialize_attitude) /\ ks_deserialize_attitude = ks_serialize_attitude
<1>1. PICK rows : rows = ks_serialize_attitude.rows
  OBVIOUS
<1>2. /\ F32(0, "roll") \in rows /\ F32(4, "pitch") \in rows /\ F32(8, "yaw") \in rows
      /\ Half(12, "rollspeed") \in rows /\ Half(14, "pitchspeed") \in rows
      /\ Half(16, "yawspeed") \in rows
  BY <1>1 DEF ks_serialize_attitude
<1>3. /\ Starts(rows, 0) /\ Starts(rows, 4) /\ Starts(rows, 8) /\ Starts(rows, 12)
      /\ Starts(rows, 14) /\ Starts(rows, 16)
  BY <1>2, StartsIf
<1>4. QED
  BY <1>1, <1>3 DEF Table, Placing, Naming, Chained, Rates, ks_serialize_attitude, ks_deserialize_attitude

LEMMA HeartbeatTable ==
    Table(ks_serialize_heartbeat) /\ ks_deserialize_heartbeat = ks_serialize_heartbeat
<1>1. PICK rows : rows = ks_serialize_heartbeat.rows
  OBVIOUS
<1>2. /\ U32(0, "system_status") \in rows /\ U8(4, "system_type") \in rows
      /\ U8(5, "autopilot_type") \in rows /\ U8(6, "base_mode") \in rows
      /\ U8(7, "lost_link_action") \in rows /\ U16(8, "lost_link_timeout_s") \in rows
  BY <1>1 DEF ks_serialize_heartbeat
<1>3. /\ Starts(rows, 0) /\ Starts(rows, 4) /\ Starts(rows, 5) /\ Starts(rows, 6)
      /\ Starts(rows, 7) /\ Starts(rows, 8)
  BY <1>2, StartsIf
<1>4. QED
  BY <1>1, <1>3 DEF Table, Placing, Naming, Chained, Rates, ks_serialize_heartbeat, ks_deserialize_heartbeat

LEMMA GpsRawTable ==
    Table(ks_serialize_gps_raw) /\ ks_deserialize_gps_raw = ks_serialize_gps_raw
<1>1. PICK rows : rows = ks_serialize_gps_raw.rows
  OBVIOUS
<1>2. /\ I32(0, "lat") \in rows /\ I32(4, "lon") \in rows /\ I32(8, "alt") \in rows
      /\ U16(12, "eph") \in rows /\ U16(14, "epv") \in rows /\ U16(16, "vel") \in rows
      /\ U16(18, "cog") \in rows /\ U8(20, "fix_type") \in rows /\ U8(21, "satellites") \in rows
  BY <1>1 DEF ks_serialize_gps_raw
<1>3. /\ Starts(rows, 0) /\ Starts(rows, 4) /\ Starts(rows, 8) /\ Starts(rows, 12)
      /\ Starts(rows, 14) /\ Starts(rows, 16) /\ Starts(rows, 18) /\ Starts(rows, 20)
      /\ Starts(rows, 21)
  BY <1>2, StartsIf
<1>4. QED
  BY <1>1, <1>3 DEF Table, Placing, Naming, Chained, Rates, ks_serialize_gps_raw, ks_deserialize_gps_raw

LEMMA BatteryTable ==
    Table(ks_serialize_battery) /\ ks_deserialize_battery = ks_serialize_battery
<1>1. PICK rows : rows = ks_serialize_battery.rows
  OBVIOUS
<1>2. /\ U16(0, "voltage") \in rows /\ U16(2, "current") \in rows
      /\ U16(4, "remaining") \in rows /\ U8(6, "cell_count") \in rows
      /\ U8(7, "status") \in rows
  BY <1>1 DEF ks_serialize_battery
<1>3. /\ Starts(rows, 0) /\ Starts(rows, 2) /\ Starts(rows, 4) /\ Starts(rows, 6)
      /\ Starts(rows, 7)
  BY <1>2, StartsIf
<1>4. QED
  BY <1>1, <1>3 DEF Table, Placing, Naming, Chained, Rates, ks_serialize_battery, ks_deserialize_battery

LEMMA RcInputTable ==
    Table(ks_serialize_rc_input) /\ ks_deserialize_rc_input = ks_serialize_rc_input
<1>1. PICK rows : rows = ks_serialize_rc_input.rows
  OBVIOUS
<1>2. /\ Mem(0, "channels", 16) \in rows /\ U8(16, "rssi") \in rows
      /\ U8(17, "quality") \in rows
  BY <1>1 DEF ks_serialize_rc_input
<1>3. Starts(rows, 0) /\ Starts(rows, 16) /\ Starts(rows, 17)
  BY <1>2, StartsIf
<1>4. QED
  BY <1>1, <1>3 DEF Table, Placing, Naming, Chained, Rates, ks_serialize_rc_input, ks_deserialize_rc_input

LEMMA CommandTable ==
    Table(ks_serialize_command) /\ ks_deserialize_command = ks_serialize_command
<1>1. PICK rows : rows = ks_serialize_command.rows
  OBVIOUS
<1>2. /\ U16(0, "command_id") \in rows /\ U16(2, "param1") \in rows /\ U16(4, "param2") \in rows
      /\ U16(6, "param3") \in rows
  BY <1>1 DEF ks_serialize_command
<1>3. Starts(rows, 0) /\ Starts(rows, 2) /\ Starts(rows, 4) /\ Starts(rows, 6)
  BY <1>2, StartsIf
<1>4. QED
  BY <1>1, <1>3 DEF Table, Placing, Naming, Chained, Rates, ks_serialize_command, ks_deserialize_command

LEMMA KeyExchangeTable ==
    Table(ks_serialize_key_exchange) /\ ks_deserialize_key_exchange = ks_serialize_key_exchange
<1>1. PICK rows : rows = ks_serialize_key_exchange.rows
  OBVIOUS
<1>2. /\ Mem(0, "public_key", 32) \in rows /\ U8(32, "seq_num") \in rows
      /\ Mem(33, "signature", 64) \in rows
  BY <1>1 DEF ks_serialize_key_exchange
<1>3. Starts(rows, 0) /\ Starts(rows, 32) /\ Starts(rows, 33)
  BY <1>2, StartsIf
<1>4. QED
  BY <1>1, <1>3 DEF Table, Placing, Naming, Chained, Rates, ks_serialize_key_exchange, ks_deserialize_key_exchange

LEMMA KeyExchangeAckTable ==
    Table(ks_serialize_key_exchange_ack) /\ ks_deserialize_key_exchange_ack = ks_serialize_key_exchange_ack
<1>1. PICK rows : rows = ks_serialize_key_exchange_ack.rows
  OBVIOUS
<1>2. U8(0, "seq_num") \in rows /\ U8(1, "status") \in rows
  BY <1>1 DEF ks_serialize_key_exchange_ack
<1>3. Starts(rows, 0) /\ Starts(rows, 1)
  BY <1>2, StartsIf
<1>4. QED
  BY <1>1, <1>3 DEF Table, Placing, Naming, Chained, Rates, ks_serialize_key_exchange_ack, ks_deserialize_key_exchange_ack

LEMMA CommandAckTable ==
    Table(ks_serialize_command_ack) /\ ks_deserialize_command_ack = ks_serialize_command_ack
<1>1. PICK rows : rows = ks_serialize_command_ack.rows
  OBVIOUS
<1>2. U16(0, "command_id") \in rows /\ U8(2, "result") \in rows /\ U8(3, "progress") \in rows
  BY <1>1 DEF ks_serialize_command_ack
<1>3. Starts(rows, 0) /\ Starts(rows, 2) /\ Starts(rows, 3)
  BY <1>2, StartsIf
<1>4. QED
  BY <1>1, <1>3 DEF Table, Placing, Naming, Chained, Rates, ks_serialize_command_ack, ks_deserialize_command_ack

LEMMA ModeChangeTable ==
    Table(ks_serialize_mode_change) /\ ks_deserialize_mode_change = ks_serialize_mode_change
<1>1. PICK rows : rows = ks_serialize_mode_change.rows
  OBVIOUS
<1>2. U8(0, "mode") \in rows /\ U8(1, "reserved") \in rows
  BY <1>1 DEF ks_serialize_mode_change
<1>3. Starts(rows, 0) /\ Starts(rows, 1)
  BY <1>2, StartsIf
<1>4. QED
  BY <1>1, <1>3 DEF Table, Placing, Naming, Chained, Rates, ks_serialize_mode_change, ks_deserialize_mode_change

LEMMA MissionItemTable ==
    Table(ks_serialize_mission_item) /\ ks_deserialize_mission_item = ks_serialize_mission_item
<1>1. PICK rows : rows = ks_serialize_mission_item.rows
  OBVIOUS
<1>2. /\ U16(0, "seq") \in rows /\ U8(2, "frame") \in rows /\ U8(3, "command") \in rows
      /\ I32(4, "lat") \in rows /\ I32(8, "lon") \in rows /\ I32(12, "alt") \in rows
      /\ U16(16, "speed") \in rows /\ U16(18, "loiter_time") \in rows
  BY <1>1 DEF ks_serialize_mission_item
<1>3. /\ Starts(rows, 0) /\ Starts(rows, 2) /\ Starts(rows, 3) /\ Starts(rows, 4)
      /\ Starts(rows, 8) /\ Starts(rows, 12) /\ Starts(rows, 16) /\ Starts(rows, 18)
  BY <1>2, StartsIf
<1>4. QED
  BY <1>1, <1>3 DEF Table, Placing, Naming, Chained, Rates, ks_serialize_mission_item, ks_deserialize_mission_item

LEMMA ParamRequestReadTable ==
    Table(ks_serialize_param_request_read)
<1>1. PICK rows : rows = ks_serialize_param_request_read.rows
  OBVIOUS
<1>2. Mem(0, "param_id", 16) \in rows /\ U16(16, "param_index") \in rows
  BY <1>1 DEF ks_serialize_param_request_read
<1>3. Starts(rows, 0) /\ Starts(rows, 16)
  BY <1>2, StartsIf
<1>4. QED
  BY <1>1, <1>3 DEF Table, Placing, Naming, Chained, Rates, ks_serialize_param_request_read

LEMMA ParamValueTable ==
    Table(ks_serialize_param_value)
<1>1. PICK rows : rows = ks_serialize_param_value.rows
  OBVIOUS
<1>2. /\ Mem(0, "param_id", 16) \in rows /\ F32(16, "param_value") \in rows
      /\ U8(20, "param_type") \in rows /\ U16(21, "param_count") \in rows
      /\ U16(23, "param_index") \in rows
  BY <1>1 DEF ks_serialize_param_value
<1>3. /\ Starts(rows, 0) /\ Starts(rows, 16) /\ Starts(rows, 20) /\ Starts(rows, 21)
      /\ Starts(rows, 23)
  BY <1>2, StartsIf
<1>4. QED
  BY <1>1, <1>3 DEF Table, Placing, Naming, Chained, Rates, ks_serialize_param_value

LEMMA ParamSetTable ==
    Table(ks_serialize_param_set)
<1>1. PICK rows : rows = ks_serialize_param_set.rows
  OBVIOUS
<1>2. /\ Mem(0, "param_id", 16) \in rows /\ F32(16, "param_value") \in rows
      /\ U8(20, "param_type") \in rows
  BY <1>1 DEF ks_serialize_param_set
<1>3. Starts(rows, 0) /\ Starts(rows, 16) /\ Starts(rows, 20)
  BY <1>2, StartsIf
<1>4. QED
  BY <1>1, <1>3 DEF Table, Placing, Naming, Chained, Rates, ks_serialize_param_set

LEMMA LogRequestListTable ==
    Table(ks_serialize_log_request_list) /\ ks_deserialize_log_request_list = ks_serialize_log_request_list
<1>1. PICK rows : rows = ks_serialize_log_request_list.rows
  OBVIOUS
<1>2. U16(0, "start") \in rows /\ U16(2, "end") \in rows
  BY <1>1 DEF ks_serialize_log_request_list
<1>3. Starts(rows, 0) /\ Starts(rows, 2)
  BY <1>2, StartsIf
<1>4. QED
  BY <1>1, <1>3 DEF Table, Placing, Naming, Chained, Rates, ks_serialize_log_request_list, ks_deserialize_log_request_list

LEMMA LogEntryTable ==
    Table(ks_serialize_log_entry) /\ ks_deserialize_log_entry = ks_serialize_log_entry
<1>1. PICK rows : rows = ks_serialize_log_entry.rows
  OBVIOUS
<1>2. /\ U16(0, "id") \in rows /\ U16(2, "num_logs") \in rows /\ U16(4, "last_log_num") \in rows
      /\ U32(6, "time_utc") \in rows /\ U32(10, "size") \in rows
  BY <1>1 DEF ks_serialize_log_entry
<1>3. /\ Starts(rows, 0) /\ Starts(rows, 2) /\ Starts(rows, 4) /\ Starts(rows, 6)
      /\ Starts(rows, 10)
  BY <1>2, StartsIf
<1>4. QED
  BY <1>1, <1>3 DEF Table, Placing, Naming, Chained, Rates, ks_serialize_log_entry, ks_deserialize_log_entry

LEMMA LogRequestDataTable ==
    Table(ks_serialize_log_request_data) /\ ks_deserialize_log_request_data = ks_serialize_log_request_data
<1>1. PICK rows : rows = ks_serialize_log_request_data.rows
  OBVIOUS
<1>2. U16(0, "id") \in rows /\ U32(2, "offset") \in rows /\ U32(6, "count") \in rows
  BY <1>1 DEF ks_serialize_log_request_data
<1>3. Starts(rows, 0) /\ Starts(rows, 2) /\ Starts(rows, 6)
  BY <1>2, StartsIf
<1>4. QED
  BY <1>1, <1>3 DEF Table, Placing, Naming, Chained, Rates, ks_serialize_log_request_data, ks_deserialize_log_request_data

LEMMA StatustextTable ==
    Table(ks_serialize_statustext)
<1>1. PICK rows : rows = ks_serialize_statustext.rows
  OBVIOUS
<1>2. U8(0, "severity") \in rows /\ Mem(1, "text", 49) \in rows /\ Zero(50) \in rows
  BY <1>1 DEF ks_serialize_statustext
<1>3. Starts(rows, 0) /\ Starts(rows, 1) /\ Starts(rows, 50)
  BY <1>2, StartsIf
<1>4. QED
  BY <1>1, <1>3 DEF Table, Placing, Naming, Chained, Rates, ks_serialize_statustext

LEMMA SysStatusTable ==
    Table(ks_serialize_sys_status) /\ ks_deserialize_sys_status = ks_serialize_sys_status
<1>1. PICK rows : rows = ks_serialize_sys_status.rows
  OBVIOUS
<1>2. /\ U32(0, "sensors_present") \in rows /\ U32(4, "sensors_enabled") \in rows
      /\ U32(8, "sensors_health") \in rows /\ U16(12, "load") \in rows
      /\ U16(14, "voltage_battery") \in rows /\ U16(16, "current_battery") \in rows
      /\ U8(18, "battery_remaining") \in rows /\ U16(19, "drop_rate_comm") \in rows
  BY <1>1 DEF ks_serialize_sys_status
<1>3. /\ Starts(rows, 0) /\ Starts(rows, 4) /\ Starts(rows, 8) /\ Starts(rows, 12)
      /\ Starts(rows, 14) /\ Starts(rows, 16) /\ Starts(rows, 18) /\ Starts(rows, 19)
  BY <1>2, StartsIf
<1>4. QED
  BY <1>1, <1>3 DEF Table, Placing, Naming, Chained, Rates, ks_serialize_sys_status, ks_deserialize_sys_status

LEMMA VfrHudTable ==
    Table(ks_serialize_vfr_hud) /\ ks_deserialize_vfr_hud = ks_serialize_vfr_hud
<1>1. PICK rows : rows = ks_serialize_vfr_hud.rows
  OBVIOUS
<1>2. /\ F32(0, "airspeed") \in rows /\ F32(4, "groundspeed") \in rows
      /\ U16(8, "heading") \in rows /\ U16(10, "throttle") \in rows /\ F32(12, "alt") \in rows
      /\ F32(16, "climb") \in rows
  BY <1>1 DEF ks_serialize_vfr_hud
<1>3. /\ Starts(rows, 0) /\ Starts(rows, 4) /\ Starts(rows, 8) /\ Starts(rows, 10)
      /\ Starts(rows, 12) /\ Starts(rows, 16)
  BY <1>2, StartsIf
<1>4. QED
  BY <1>1, <1>3 DEF Table, Placing, Naming, Chained, Rates, ks_serialize_vfr_hud, ks_deserialize_vfr_hud

LEMMA NavControllerTable ==
    Table(ks_serialize_nav_controller) /\ ks_deserialize_nav_controller = ks_serialize_nav_controller
<1>1. PICK rows : rows = ks_serialize_nav_controller.rows
  OBVIOUS
<1>2. /\ F32(0, "nav_roll") \in rows /\ F32(4, "nav_pitch") \in rows
      /\ U16(8, "nav_bearing") \in rows /\ U16(10, "target_bearing") \in rows
      /\ U16(12, "wp_dist") \in rows /\ F32(14, "alt_error") \in rows
      /\ F32(18, "aspd_error") \in rows /\ F32(22, "xtrack_error") \in rows
  BY <1>1 DEF ks_serialize_nav_controller
<1>3. /\ Starts(rows, 0) /\ Starts(rows, 4) /\ Starts(rows, 8) /\ Starts(rows, 10)
      /\ Starts(rows, 12) /\ Starts(rows, 14) /\ Starts(rows, 18) /\ Starts(rows, 22)
  BY <1>2, StartsIf
<1>4. QED
  BY <1>1, <1>3 DEF Table, Placing, Naming, Chained, Rates, ks_serialize_nav_controller, ks_deserialize_nav_controller

LEMMA MissionCountTable ==
    Table(ks_serialize_mission_count) /\ ks_deserialize_mission_count = ks_serialize_mission_count
<1>1. PICK rows : rows = ks_serialize_mission_count.rows
  OBVIOUS
<1>2. /\ U16(0, "count") \in rows /\ U8(2, "target_sys") \in rows
      /\ U8(3, "target_comp") \in rows
  BY <1>1 DEF ks_serialize_mission_count
<1>3. Starts(rows, 0) /\ Starts(rows, 2) /\ Starts(rows, 3)
  BY <1>2, StartsIf
<1>4. QED
  BY <1>1, <1>3 DEF Table, Placing, Naming, Chained, Rates, ks_serialize_mission_count, ks_deserialize_mission_count

LEMMA MissionRequestTable ==
    Table(ks_serialize_mission_request) /\ ks_deserialize_mission_request = ks_serialize_mission_request
<1>1. PICK rows : rows = ks_serialize_mission_request.rows
  OBVIOUS
<1>2. U16(0, "seq") \in rows /\ U8(2, "target_sys") \in rows /\ U8(3, "target_comp") \in rows
  BY <1>1 DEF ks_serialize_mission_request
<1>3. Starts(rows, 0) /\ Starts(rows, 2) /\ Starts(rows, 3)
  BY <1>2, StartsIf
<1>4. QED
  BY <1>1, <1>3 DEF Table, Placing, Naming, Chained, Rates, ks_serialize_mission_request, ks_deserialize_mission_request

LEMMA MissionAckTable ==
    Table(ks_serialize_mission_ack) /\ ks_deserialize_mission_ack = ks_serialize_mission_ack
<1>1. PICK rows : rows = ks_serialize_mission_ack.rows
  OBVIOUS
<1>2. /\ U8(0, "target_sys") \in rows /\ U8(1, "target_comp") \in rows /\ U8(2, "type") \in rows
      /\ Zero(3) \in rows
  BY <1>1 DEF ks_serialize_mission_ack
<1>3. Starts(rows, 0) /\ Starts(rows, 1) /\ Starts(rows, 2) /\ Starts(rows, 3)
  BY <1>2, StartsIf
<1>4. QED
  BY <1>1, <1>3 DEF Table, Placing, Naming, Chained, Rates, ks_serialize_mission_ack, ks_deserialize_mission_ack

LEMMA NpntPaTable ==
    Table(ks_serialize_npnt_pa) /\ ks_deserialize_npnt_pa = ks_serialize_npnt_pa
<1>1. PICK rows : rows = ks_serialize_npnt_pa.rows
  OBVIOUS
<1>2. /\ Mem(0, "signature", 64) \in rows /\ U32(64, "valid_from") \in rows
      /\ U32(68, "valid_until") \in rows /\ I32(72, "center_lat") \in rows
      /\ I32(76, "center_lon") \in rows /\ U16(80, "radius_m") \in rows
  BY <1>1 DEF ks_serialize_npnt_pa
<1>3. /\ Starts(rows, 0) /\ Starts(rows, 64) /\ Starts(rows, 68) /\ Starts(rows, 72)
      /\ Starts(rows, 76) /\ Starts(rows, 80)
  BY <1>2, StartsIf
<1>4. QED
  BY <1>1, <1>3 DEF Table, Placing, Naming, Chained, Rates, ks_serialize_npnt_pa, ks_deserialize_npnt_pa

LEMMA NpntStatusTable ==
    Table(ks_serialize_npnt_status) /\ ks_deserialize_npnt_status = ks_serialize_npnt_status
<1>1. PICK rows : rows = ks_serialize_npnt_status.rows
  OBVIOUS
<1>2. U8(0, "status") \in rows /\ U32(1, "valid_until") \in rows
  BY <1>1 DEF ks_serialize_npnt_status
<1>3. Starts(rows, 0) /\ Starts(rows, 1)
  BY <1>2, StartsIf
<1>4. QED
  BY <1>1, <1>3 DEF Table, Placing, Naming, Chained, Rates, ks_serialize_npnt_status, ks_deserialize_npnt_status

LEMMA RidBasicIdTable ==
    Table(ks_serialize_rid_basic_id) /\ ks_deserialize_rid_basic_id = ks_serialize_rid_basic_id
<1>1. PICK rows : rows = ks_serialize_rid_basic_id.rows
  OBVIOUS
<1>2. U8(0, "id_type") \in rows /\ U8(1, "ua_type") \in rows /\ Mem(2, "uas_id", 20) \in rows
  BY <1>1 DEF ks_serialize_rid_basic_id
<1>3. Starts(rows, 0) /\ Starts(rows, 1) /\ Starts(rows, 2)
  BY <1>2, StartsIf
<1>4. QED
  BY <1>1, <1>3 DEF Table, Placing, Naming, Chained, Rates, ks_serialize_rid_basic_id, ks_deserialize_rid_basic_id

LEMMA RidLocationTable ==
    Table(ks_serialize_rid_location)
<1>1. PICK rows : rows = ks_serialize_rid_location.rows
  OBVIOUS
<1>2. /\ U8(0, "status") \in rows /\ I32(1, "lat") \in rows /\ I32(5, "lon") \in rows
      /\ U16(9, "geodetic_alt") \in rows /\ U16(11, "speed") \in rows
      /\ U16(13, "track_deg") \in rows /\ Zero(15) \in rows
  BY <1>1 DEF ks_serialize_rid_location
<1>3. /\ Starts(rows, 0) /\ Starts(rows, 1) /\ Starts(rows, 5) /\ Starts(rows, 9)
      /\ Starts(rows, 11) /\ Starts(rows, 13) /\ Starts(rows, 15)
  BY <1>2, StartsIf
<1>4. QED
  BY <1>1, <1>3 DEF Table, Placing, Naming, Chained, Rates, ks_serialize_rid_location

LEMMA BridgeHeartbeatTable ==
    Table(BridgeHeartbeat)
<1>1. PICK rows : rows = BridgeHeartbeat.rows
  OBVIOUS
<1>2. /\ U32(0, "system_status") \in rows /\ U8(4, "system_type") \in rows
      /\ U8(5, "autopilot_type") \in rows /\ U8(6, "base_mode") \in rows
      /\ U8(7, "mav_status") \in rows /\ Zero(8) \in rows /\ Zero(9) \in rows
  BY <1>1 DEF BridgeHeartbeat
<1>3. /\ Starts(rows, 0) /\ Starts(rows, 4) /\ Starts(rows, 5) /\ Starts(rows, 6)
      /\ Starts(rows, 7) /\ Starts(rows, 8) /\ Starts(rows, 9)
  BY <1>2, StartsIf
<1>4. QED
  BY <1>1, <1>3 DEF Table, Placing, Naming, Chained, Rates, BridgeHeartbeat

LEMMA BridgeAttitudeTable ==
    Table(BridgeAttitude)
<1>1. PICK rows : rows = BridgeAttitude.rows
  OBVIOUS
<1>2. F32(0, "roll") \in rows /\ F32(4, "pitch") \in rows /\ F32(8, "yaw") \in rows
  BY <1>1 DEF BridgeAttitude
<1>3. Starts(rows, 0) /\ Starts(rows, 4) /\ Starts(rows, 8)
  BY <1>2, StartsIf
<1>4. QED
  BY <1>1, <1>3 DEF Table, Placing, Naming, Chained, Rates, BridgeAttitude

LEMMA BridgeAckTable ==
    Table(BridgeAck)
<1>1. PICK rows : rows = BridgeAck.rows
  OBVIOUS
<1>2. U16(0, "command_id") \in rows /\ Zero(2) \in rows
  BY <1>1 DEF BridgeAck
<1>3. Starts(rows, 0) /\ Starts(rows, 2)
  BY <1>2, StartsIf
<1>4. QED
  BY <1>1, <1>3 DEF Table, Placing, Naming, Chained, Rates, BridgeAck

HIDE DEF Codec, Row, U8, U16, U32, F32, I32, Half, Mem, Zero, Str

(* Every byte of the announced length belongs to a row.                    *)
LEMMA Covered ==
    ASSUME NEW codec, Table(codec), NEW offset \in 0 .. codec.returns - 1
    PROVE  \E row \in codec.rows : Covers(row, offset)
<1>1. codec.returns \in Nat
  BY DEF Table, Placing
<1>2. \A row \in codec.rows : row.at \in Nat /\ row.size \in Nat
  BY DEF Table, Placing
<1> DEFINE Bare == {o \in 0 .. codec.returns - 1 : \A row \in codec.rows : ~Covers(row, o)}
<1>3. SUFFICES ASSUME Bare # {} PROVE FALSE
  BY <1>1
<1>4. PICK o \in Bare : \A p \in Bare : o =< p
  <2>1. Bare \subseteq Nat
    BY <1>1
  <2>2. QED
    BY <1>3, <2>1, Smallest
<1>5. o \in 0 .. codec.returns - 1 /\ \A row \in codec.rows : ~Covers(row, o)
  OBVIOUS
<1>6. ~Starts(codec.rows, o)
  BY <1>2, <1>5 DEF Starts, Covers
<1>7. o # 0
  BY <1>1, <1>5, <1>6 DEF Table, Chained
<1>8. PICK row \in codec.rows : Covers(row, o - 1)
  <2>1. o - 1 \in 0 .. codec.returns - 1 /\ ~(o =< o - 1)
    BY <1>1, <1>5, <1>7
  <2>2. o - 1 \notin Bare
    BY <1>4, <2>1
  <2>3. QED
    BY <2>1, <2>2
<1>9. row.at + row.size = o
  <2>1. ~Covers(row, o)
    BY <1>5
  <2>2. QED
    BY <1>1, <1>2, <1>5, <1>8, <2>1 DEF Covers
<1>10. QED
  BY <1>1, <1>5, <1>6, <1>9 DEF Table, Chained

(* A writer's row that puts in the payload what a reader's row takes.      *)
Partner(r, row) ==
    /\ row.at = r.at /\ row.field = r.field
    /\ \/ row.as = r.as /\ row.size = r.size
       \/ r.as = "bytes" /\ row.as = "string" /\ row.size =< r.size

Fed(rows, row) == \E r \in rows : Partner(r, row)

(* A reader's row where the writer has only zeros, for no field of its own. *)
Blank(rows, row) ==
    /\ row.as = "bytes"
    /\ \A r \in rows : r.field # row.field
    /\ \A offset \in row.at .. row.at + row.size - 1 :
          \E r \in rows : Covers(r, offset) /\ r.as = "zero"

(* A reader reads of what a writer writes no more than that.               *)
Answers(written, read) ==
    /\ Placing(read) /\ Naming(read)
    /\ read.returns =< written.returns
    /\ \A row \in read.rows : Fed(written.rows, row) \/ Blank(written.rows, row)

LEMMA FedBy ==
    ASSUME NEW rows, NEW r \in rows, NEW row, Partner(r, row)
    PROVE  Fed(rows, row)
BY DEF Fed

LEMMA Itself ==
    ASSUME NEW codec, Table(codec)
    PROVE  Answers(codec, codec)
<1>1. \A row \in codec.rows : Partner(row, row)
  BY DEF Partner
<1>2. \A row \in codec.rows : Fed(codec.rows, row)
  BY <1>1 DEF Fed
<1>3. codec.returns \in Nat
  BY DEF Table, Placing
<1>4. QED
  BY <1>2, <1>3 DEF Answers, Table

USE DEF Codec, Row, U8, U16, U32, F32, I32, Half, Mem, Zero, Str

LEMMA DeserializeParamRequestRead ==
    Answers(ks_serialize_param_request_read, ks_deserialize_param_request_read)
<1>1. PICK rows : rows = ks_serialize_param_request_read.rows
  OBVIOUS
<1>2. Mem(0, "param_id", 16) \in rows /\ U16(16, "param_index") \in rows
  BY <1>1 DEF ks_serialize_param_request_read
<1>3. Fed(rows, Str(0, "param_id", 15)) /\ Fed(rows, U16(16, "param_index"))
  BY <1>2, FedBy DEF Partner
<1>4. QED
  BY <1>1, <1>3 DEF Answers, Placing, Naming, Rates, ks_serialize_param_request_read, ks_deserialize_param_request_read

LEMMA DeserializeParamValue ==
    Answers(ks_serialize_param_value, ks_deserialize_param_value)
<1>1. PICK rows : rows = ks_serialize_param_value.rows
  OBVIOUS
<1>2. /\ Mem(0, "param_id", 16) \in rows /\ F32(16, "param_value") \in rows
      /\ U8(20, "param_type") \in rows /\ U16(21, "param_count") \in rows
      /\ U16(23, "param_index") \in rows
  BY <1>1 DEF ks_serialize_param_value
<1>3. /\ Fed(rows, Str(0, "param_id", 15)) /\ Fed(rows, F32(16, "param_value"))
      /\ Fed(rows, U8(20, "param_type")) /\ Fed(rows, U16(21, "param_count"))
      /\ Fed(rows, U16(23, "param_index"))
  BY <1>2, FedBy DEF Partner
<1>4. QED
  BY <1>1, <1>3 DEF Answers, Placing, Naming, Rates, ks_serialize_param_value, ks_deserialize_param_value

LEMMA DeserializeParamSet ==
    Answers(ks_serialize_param_set, ks_deserialize_param_set)
<1>1. PICK rows : rows = ks_serialize_param_set.rows
  OBVIOUS
<1>2. /\ Mem(0, "param_id", 16) \in rows /\ F32(16, "param_value") \in rows
      /\ U8(20, "param_type") \in rows
  BY <1>1 DEF ks_serialize_param_set
<1>3. /\ Fed(rows, Str(0, "param_id", 15)) /\ Fed(rows, F32(16, "param_value"))
      /\ Fed(rows, U8(20, "param_type"))
  BY <1>2, FedBy DEF Partner
<1>4. QED
  BY <1>1, <1>3 DEF Answers, Placing, Naming, Rates, ks_serialize_param_set, ks_deserialize_param_set

LEMMA DeserializeStatustext ==
    Answers(ks_serialize_statustext, ks_deserialize_statustext)
<1>1. PICK rows : rows = ks_serialize_statustext.rows
  OBVIOUS
<1>2. U8(0, "severity") \in rows /\ Mem(1, "text", 49) \in rows
  BY <1>1 DEF ks_serialize_statustext
<1>3. Fed(rows, U8(0, "severity")) /\ Fed(rows, Str(1, "text", 49))
  BY <1>2, FedBy DEF Partner
<1>4. QED
  BY <1>1, <1>3 DEF Answers, Placing, Naming, Rates, ks_serialize_statustext, ks_deserialize_statustext

LEMMA DeserializeRidLocation ==
    Answers(ks_serialize_rid_location, ks_deserialize_rid_location)
<1>1. PICK rows : rows = ks_serialize_rid_location.rows
  OBVIOUS
<1>2. /\ U8(0, "status") \in rows /\ I32(1, "lat") \in rows /\ I32(5, "lon") \in rows
      /\ U16(9, "geodetic_alt") \in rows /\ U16(11, "speed") \in rows
      /\ U16(13, "track_deg") \in rows
  BY <1>1 DEF ks_serialize_rid_location
<1>3. /\ Fed(rows, U8(0, "status")) /\ Fed(rows, I32(1, "lat")) /\ Fed(rows, I32(5, "lon"))
      /\ Fed(rows, U16(9, "geodetic_alt")) /\ Fed(rows, U16(11, "speed"))
      /\ Fed(rows, U16(13, "track_deg"))
  BY <1>2, FedBy DEF Partner
<1>4. QED
  BY <1>1, <1>3 DEF Answers, Placing, Naming, Rates, ks_serialize_rid_location, ks_deserialize_rid_location

LEMMA DecodeHeartbeat ==
    Answers(ks_serialize_heartbeat, decode_heartbeat)
<1>1. PICK rows : rows = ks_serialize_heartbeat.rows
  OBVIOUS
<1>2. /\ U32(0, "system_status") \in rows /\ U8(4, "system_type") \in rows
      /\ U8(6, "base_mode") \in rows
  BY <1>1 DEF ks_serialize_heartbeat
<1>3. /\ Fed(rows, U32(0, "system_status")) /\ Fed(rows, U8(4, "system_type"))
      /\ Fed(rows, U8(6, "base_mode"))
  BY <1>2, FedBy DEF Partner
<1>4. QED
  BY <1>1, <1>3 DEF Answers, Placing, Naming, Rates, ks_serialize_heartbeat, decode_heartbeat

LEMMA DecodeAttitude ==
    Answers(ks_serialize_attitude, decode_attitude)
<1>1. PICK rows : rows = ks_serialize_attitude.rows
  OBVIOUS
<1>2. F32(0, "roll") \in rows /\ F32(4, "pitch") \in rows /\ F32(8, "yaw") \in rows
  BY <1>1 DEF ks_serialize_attitude
<1>3. Fed(rows, F32(0, "roll")) /\ Fed(rows, F32(4, "pitch")) /\ Fed(rows, F32(8, "yaw"))
  BY <1>2, FedBy DEF Partner
<1>4. QED
  BY <1>1, <1>3 DEF Answers, Placing, Naming, Rates, ks_serialize_attitude, decode_attitude

LEMMA DecodeCmdAck ==
    Answers(ks_serialize_command_ack, decode_cmd_ack)
<1>1. PICK rows : rows = ks_serialize_command_ack.rows
  OBVIOUS
<1>2. U16(0, "command_id") \in rows /\ U8(2, "result") \in rows
  BY <1>1 DEF ks_serialize_command_ack
<1>3. Fed(rows, U16(0, "command_id")) /\ Fed(rows, U8(2, "result"))
  BY <1>2, FedBy DEF Partner
<1>4. QED
  BY <1>1, <1>3 DEF Answers, Placing, Naming, Rates, ks_serialize_command_ack, decode_cmd_ack

LEMMA Listenerheartbeat ==
    Answers(ks_serialize_heartbeat, ListenerHeartbeat)
<1>1. PICK rows : rows = ks_serialize_heartbeat.rows
  OBVIOUS
<1>2. /\ U32(0, "system_status") \in rows /\ U8(4, "system_type") \in rows
      /\ U8(5, "autopilot_type") \in rows /\ U8(6, "base_mode") \in rows
      /\ U8(7, "lost_link_action") \in rows /\ U16(8, "lost_link_timeout_s") \in rows
  BY <1>1 DEF ks_serialize_heartbeat
<1>3. /\ Fed(rows, U32(0, "system_status")) /\ Fed(rows, U8(4, "system_type"))
      /\ Fed(rows, U8(5, "autopilot_type")) /\ Fed(rows, U8(6, "base_mode"))
      /\ Fed(rows, U8(7, "lost_link_action")) /\ Fed(rows, U16(8, "lost_link_timeout_s"))
  BY <1>2, FedBy DEF Partner
<1>4. QED
  BY <1>1, <1>3 DEF Answers, Placing, Naming, Rates, ks_serialize_heartbeat, ListenerHeartbeat

LEMMA BridgeHeartbeatForDecodeHeartbeat ==
    Answers(BridgeHeartbeat, decode_heartbeat)
<1>1. PICK rows : rows = BridgeHeartbeat.rows
  OBVIOUS
<1>2. /\ U32(0, "system_status") \in rows /\ U8(4, "system_type") \in rows
      /\ U8(6, "base_mode") \in rows
  BY <1>1 DEF BridgeHeartbeat
<1>3. /\ Fed(rows, U32(0, "system_status")) /\ Fed(rows, U8(4, "system_type"))
      /\ Fed(rows, U8(6, "base_mode"))
  BY <1>2, FedBy DEF Partner
<1>4. QED
  BY <1>1, <1>3 DEF Answers, Placing, Naming, Rates, BridgeHeartbeat, decode_heartbeat

LEMMA BridgeAttitudeForDecodeAttitude ==
    Answers(BridgeAttitude, decode_attitude)
<1>1. PICK rows : rows = BridgeAttitude.rows
  OBVIOUS
<1>2. F32(0, "roll") \in rows /\ F32(4, "pitch") \in rows /\ F32(8, "yaw") \in rows
  BY <1>1 DEF BridgeAttitude
<1>3. Fed(rows, F32(0, "roll")) /\ Fed(rows, F32(4, "pitch")) /\ Fed(rows, F32(8, "yaw"))
  BY <1>2, FedBy DEF Partner
<1>4. QED
  BY <1>1, <1>3 DEF Answers, Placing, Naming, Rates, BridgeAttitude, decode_attitude

\* By hand: rows of zeros, and the size of log_data's data.
LEMMA BridgeAckForDecodeCmdAck ==
    Answers(BridgeAck, decode_cmd_ack)
<1>1. PICK rows : rows = BridgeAck.rows
  OBVIOUS
<1>2. U16(0, "command_id") \in rows /\ Zero(2) \in rows
  BY <1>1 DEF BridgeAck
<1>3. Fed(rows, U16(0, "command_id"))
  BY <1>2, FedBy DEF Partner
<1>4. Blank(rows, U8(2, "result"))
  <2>1. \A r \in rows : r.field # "result"
    BY <1>1 DEF BridgeAck
  <2>2. \A offset \in 2 .. 2 : Covers(Zero(2), offset)
    BY DEF Covers
  <2>3. QED
    BY <1>2, <2>1, <2>2 DEF Blank
<1>5. QED
  BY <1>1, <1>3, <1>4 DEF Answers, Placing, Naming, Rates, BridgeAck, decode_cmd_ack

LEMMA GcsCommandTable ==
    Table(GcsCommand)
<1>1. PICK rows : rows = GcsCommand.rows
  OBVIOUS
<1>2. U16(0, "command_id") \in rows /\ \A offset \in 2 .. 29 : Zero(offset) \in rows
  BY <1>1 DEF GcsCommand
<1>3. Starts(rows, 0) /\ \A offset \in 2 .. 29 : Starts(rows, offset)
  <2>1. U16(0, "command_id").size > 0 /\ U16(0, "command_id").at = 0
    OBVIOUS
  <2>2. ASSUME NEW offset \in 2 .. 29 PROVE Zero(offset).at = offset /\ Zero(offset).size > 0
    OBVIOUS
  <2>3. QED
    BY <1>2, <2>1, <2>2 DEF Starts
<1>4. \A row \in rows : row = U16(0, "command_id") \/ \E offset \in 2 .. 29 : row = Zero(offset)
  BY <1>1 DEF GcsCommand
<1>5. GcsCommand.returns = 30
  BY DEF GcsCommand
<1>6. Placing(GcsCommand)
  BY <1>1, <1>4, <1>5 DEF Placing
<1>7. Naming(GcsCommand)
  BY <1>1, <1>4 DEF Naming, Rates
<1>8. Chained(GcsCommand)
  <2>1. ASSUME NEW offset \in 2 .. 29
        PROVE  Zero(offset).at + Zero(offset).size = 30 \/ Starts(rows, Zero(offset).at + Zero(offset).size)
    <3>1. Zero(offset).at + Zero(offset).size = offset + 1
      OBVIOUS
    <3>2. offset + 1 = 30 \/ offset + 1 \in 2 .. 29
      OBVIOUS
    <3>3. QED
      BY <1>3, <3>1, <3>2
  <2>2. Starts(rows, U16(0, "command_id").at + U16(0, "command_id").size)
    <3>1. U16(0, "command_id").at + U16(0, "command_id").size = 2
      OBVIOUS
    <3>2. QED
      BY <1>3, <3>1
  <2>3. QED
    BY <1>1, <1>3, <1>4, <1>5, <2>1, <2>2 DEF Chained
<1>9. QED
  BY <1>1, <1>4, <1>6, <1>7, <1>8 DEF Table

LEMMA GcsCommandForCommand ==
    Answers(GcsCommand, ks_deserialize_command)
<1>1. PICK rows : rows = GcsCommand.rows
  OBVIOUS
<1>2. U16(0, "command_id") \in rows /\ \A offset \in 2 .. 29 : Zero(offset) \in rows
  BY <1>1 DEF GcsCommand
<1>3. Fed(rows, U16(0, "command_id"))
  BY <1>2, FedBy DEF Partner
<1>4. \A r \in rows : r.field \in {"command_id", "zero"}
  BY <1>1 DEF GcsCommand
<1>5. ASSUME NEW at \in 2 .. 28, NEW field, field \notin {"command_id", "zero"}
      PROVE  Blank(rows, U16(at, field))
  <2>1. ASSUME NEW offset \in at .. at + 1 PROVE \E r \in rows : Covers(r, offset) /\ r.as = "zero"
    <3>1. offset \in 2 .. 29
      OBVIOUS
    <3>2. Zero(offset) \in rows /\ Covers(Zero(offset), offset) /\ Zero(offset).as = "zero"
      BY <1>2, <3>1 DEF Covers
    <3>3. QED
      BY <3>2
  <2>2. PICK row : row = U16(at, field)
    OBVIOUS
  <2>3. row.at = at /\ row.size = 2 /\ row.as = "bytes" /\ row.field = field
    BY <2>2
  <2>4. row.at + row.size - 1 = at + 1
    BY <2>3
  <2>5. \A r \in rows : r.field # row.field
    BY <1>4, <1>5, <2>3
  <2>6. Blank(rows, row)
    BY <2>1, <2>3, <2>4, <2>5 DEF Blank
  <2>7. QED
    BY <2>2, <2>6
<1>6. Blank(rows, U16(2, "param1")) /\ Blank(rows, U16(4, "param2")) /\ Blank(rows, U16(6, "param3"))
  BY <1>5
<1>7. QED
  BY <1>1, <1>3, <1>6 DEF Answers, Placing, Naming, Rates, GcsCommand, ks_deserialize_command

LEMMA BridgePositionTable ==
    Table(BridgePosition)
<1>1. PICK rows : rows = BridgePosition.rows
  OBVIOUS
<1>2. /\ U32(0, "lat") \in rows /\ U32(4, "lon") \in rows /\ U32(8, "alt") \in rows
      /\ \A offset \in 12 .. 15 : Zero(offset) \in rows
  BY <1>1 DEF BridgePosition
<1>3. Zero(12) \in rows /\ Zero(13) \in rows /\ Zero(14) \in rows /\ Zero(15) \in rows
  BY <1>2
<1>4. /\ Starts(rows, 0) /\ Starts(rows, 4) /\ Starts(rows, 8) /\ Starts(rows, 12)
      /\ Starts(rows, 13) /\ Starts(rows, 14) /\ Starts(rows, 15)
  BY <1>2, <1>3, StartsIf
<1>5. rows = {U32(0, "lat"), U32(4, "lon"), U32(8, "alt"), Zero(12), Zero(13), Zero(14), Zero(15)}
  <2>1. \A offset \in 12 .. 15 : offset \in {12, 13, 14, 15}
    OBVIOUS
  <2>2. QED
    BY <1>1, <1>2, <1>3, <2>1 DEF BridgePosition
<1>6. BridgePosition.returns = 16
  BY DEF BridgePosition
<1>7. QED
  BY <1>1, <1>4, <1>5, <1>6 DEF Table, Placing, Naming, Chained, Rates

LEMMA BridgePositionForDecodeGps ==
    Answers(BridgePosition, decode_gps)
<1>1. PICK rows : rows = BridgePosition.rows
  OBVIOUS
<1>2. /\ U32(0, "lat") \in rows /\ U32(4, "lon") \in rows /\ U32(8, "alt") \in rows
      /\ \A offset \in 12 .. 15 : Zero(offset) \in rows
  BY <1>1 DEF BridgePosition
<1>3. Fed(rows, U32(0, "lat")) /\ Fed(rows, U32(4, "lon")) /\ Fed(rows, U32(8, "alt"))
  BY <1>2, FedBy DEF Partner
<1>4. \A r \in rows : r.field \in {"lat", "lon", "alt", "zero"}
  BY <1>1 DEF BridgePosition
<1>5. ASSUME NEW offset \in 12 .. 15 PROVE \E r \in rows : Covers(r, offset) /\ r.as = "zero"
  <2>1. Zero(offset) \in rows /\ Covers(Zero(offset), offset) /\ Zero(offset).as = "zero"
    BY <1>2 DEF Covers
  <2>2. QED
    BY <2>1
<1>6. Blank(rows, U16(12, "eph")) /\ Blank(rows, U8(14, "satellites")) /\ Blank(rows, U8(15, "fix_type"))
  BY <1>4, <1>5 DEF Blank
<1>7. QED
  BY <1>1, <1>3, <1>6 DEF Answers, Placing, Naming, Rates, BridgePosition, decode_gps

LEMMA LogDataTable ==
    ASSUME NEW c \in 0 .. 255
    PROVE  Table(ks_serialize_log_data(c)) /\ ks_deserialize_log_data(c) = ks_serialize_log_data(c)
<1>1. PICK n \in 0 .. 90 : n = Clamped(c)
  BY DEF Clamped
<1>2. PICK rows : rows = ks_serialize_log_data(c).rows
  OBVIOUS
<1>3. /\ U16(0, "id") \in rows /\ U32(2, "offset") \in rows /\ Row(6, "count", 1, "clamped") \in rows
      /\ Mem(7, "data", n) \in rows
  BY <1>1, <1>2 DEF ks_serialize_log_data
<1>4. Starts(rows, 0) /\ Starts(rows, 2) /\ Starts(rows, 6) /\ (n > 0 => Starts(rows, 7))
  BY <1>3, StartsIf
<1>5. PICK codec : codec = ks_serialize_log_data(c)
  OBVIOUS
<1>6. /\ codec.returns = 7 + n
      /\ codec.rows = {U16(0, "id"), U32(2, "offset"), Row(6, "count", 1, "clamped"), Mem(7, "data", n)}
  BY <1>1, <1>5 DEF ks_serialize_log_data
<1>7. Placing(codec)
  BY <1>6 DEF Placing
<1>8. Naming(codec)
  BY <1>6 DEF Naming, Rates
<1>9. Chained(codec)
  BY <1>2, <1>4, <1>5, <1>6 DEF Chained
<1>10. ks_deserialize_log_data(c) = ks_serialize_log_data(c)
  BY DEF ks_serialize_log_data, ks_deserialize_log_data
<1>11. QED
  BY <1>5, <1>6, <1>7, <1>8, <1>9, <1>10 DEF Table

HIDE DEF Codec, Row, U8, U16, U32, F32, I32, Half, Mem, Zero, Str

----
(***************************************************************************)
(* What a serializer leaves in its buffer.                                 *)
(***************************************************************************)

ByteSeq == Seq(0 .. 255)

(* The value v has the bytes that a writer's row puts in the payload.      *)
Holds(row, v) ==
    row.as # "zero" =>
        /\ row.field \in DOMAIN v /\ v[row.field] \in ByteSeq
        /\ row.as = "half" => Len(v[row.field]) = 4
        /\ row.as \in {"bytes", "int32", "clamped"} => Len(v[row.field]) >= row.size
        /\ row.as \in {"bytes", "int32"} /\ row.field \notin {"text", "data"} =>
              Len(v[row.field]) = row.size

LEMMA BytesOf ==
    ASSUME NEW n \in Nat, NEW f \in [1 .. n -> 0 .. 255]
    PROVE  f \in ByteSeq /\ Len(f) = n
<1>1. PICK bytes : bytes = 0 .. 255
  OBVIOUS
<1>2. f \in [1 .. n -> bytes]
  BY <1>1
<1>3. f \in Seq(bytes) /\ Len(f) = n
  BY <1>2, SeqOfLength
<1>4. QED
  BY <1>1, <1>3 DEF ByteSeq

LEMMA SeqBytes ==
    ASSUME NEW x \in ByteSeq
    PROVE  /\ Len(x) = 4 => x \in FloatBytes
           /\ Len(x) = 2 => x \in HalfBytes
           /\ \A k \in 1 .. Len(x) : x[k] \in 0 .. 255
<1>1. x \in [1 .. Len(x) -> 0 .. 255] /\ Len(x) \in Nat
  BY LenProperties DEF ByteSeq
<1>2. QED
  BY <1>1 DEF FloatBytes, HalfBytes

LEMMA HalfSeq ==
    ASSUME NEW h \in HalfBytes
    PROVE  h \in ByteSeq /\ Len(h) = 2
<1>1. 2 \in Nat /\ h \in [1 .. 2 -> 0 .. 255]
  BY DEF HalfBytes
<1>2. QED
  BY <1>1, BytesOf

(* Two sequences with the same elements are the same.                      *)
LEMMA SameSeq ==
    ASSUME NEW x \in ByteSeq, NEW y \in ByteSeq, Len(x) = Len(y),
           \A k \in 1 .. Len(x) : x[k] = y[k]
    PROVE  x = y
BY SeqEqual DEF ByteSeq

LEMMA FirstBytes ==
    ASSUME NEW x \in ByteSeq, NEW n \in Nat, n =< Len(x)
    PROVE  /\ SubSeq(x, 1, n) \in ByteSeq /\ Len(SubSeq(x, 1, n)) = n
           /\ \A k \in 1 .. n : SubSeq(x, 1, n)[k] = x[k]
           /\ n = Len(x) => SubSeq(x, 1, n) = x
<1>1. Len(x) \in Nat /\ \A k \in 1 .. Len(x) : x[k] \in 0 .. 255
  BY SeqBytes, LenProperties DEF ByteSeq
<1>2. PICK i \in Int, j \in Int : i = 1 /\ j = n
  OBVIOUS
<1>3. PICK S : S = 0 .. 255
  OBVIOUS
<1>4. \A p \in i .. j : x[p] \in S
  BY <1>1, <1>2, <1>3
<1>5. /\ SubSeq(x, i, j) \in Seq(S)
      /\ Len(SubSeq(x, i, j)) = IF i =< j THEN j - i + 1 ELSE 0
      /\ \A k \in 1 .. j - i + 1 : SubSeq(x, i, j)[k] = x[i + k - 1]
  BY <1>2, <1>4, SubSeqProperties
<1>6. /\ SubSeq(x, 1, n) \in Seq(S)
      /\ Len(SubSeq(x, 1, n)) = n
      /\ \A k \in 1 .. n : SubSeq(x, 1, n)[k] = x[k]
  BY <1>2, <1>5
<1>7. SubSeq(x, 1, n) \in ByteSeq
  BY <1>3, <1>6, Zenon DEF ByteSeq
<1>8. n = Len(x) => SubSeq(x, 1, n) = x
  BY <1>1, <1>6, <1>7, SameSeq
<1>9. QED
  BY <1>6, <1>7, <1>8

LEMMA PutType ==
    ASSUME NEW codec, Table(codec), NEW row \in codec.rows, NEW v, Holds(row, v)
    PROVE  Put(row, v) \in ByteSeq /\ Len(Put(row, v)) = row.size
<1>1. /\ row.size \in Nat
      /\ row.as \in {"bytes", "int32", "half", "clamped", "zero"}
      /\ row.as = "half" => row.size = 2
      /\ row.as \in {"clamped", "zero"} => row.size = 1
  BY DEF Table, Placing
<1>2. CASE row.as = "zero"
  <2>1. Put(row, v) = <<0>>
    BY <1>2 DEF Put
  <2>2. QED
    BY <1>1, <1>2, <2>1 DEF ByteSeq
<1>3. PICK x : x = v[row.field]
  OBVIOUS
<1>4. row.as # "zero" => x \in ByteSeq
  BY <1>3 DEF Holds
<1>5. CASE row.as \in {"bytes", "int32"}
  <2>1. Put(row, v) = SubSeq(x, 1, row.size)
    BY <1>3, <1>5 DEF Put
  <2>2. x \in Seq(0 .. 255) /\ Len(x) >= row.size
    BY <1>3, <1>4, <1>5 DEF Holds, ByteSeq
  <2>3. SubSeq(x, 1, row.size) \in ByteSeq /\ Len(SubSeq(x, 1, row.size)) = row.size
    BY <1>1, <1>4, <1>5, <2>2, FirstBytes
  <2>4. QED
    BY <2>1, <2>3
<1>6. CASE row.as = "half"
  <2>1. Put(row, v) = float_to_half(x)
    BY <1>3, <1>6 DEF Put
  <2>2. x \in FloatBytes
    BY <1>3, <1>4, <1>6, SeqBytes DEF Holds
  <2>3. float_to_half(x) \in HalfBytes
    BY <2>2, FloatHalves
  <2>4. QED
    BY <1>1, <1>6, <2>1, <2>3, HalfSeq
<1>7. CASE row.as = "clamped"
  <2>1. Put(row, v) = <<Clamped(x[1])>>
    BY <1>3, <1>7 DEF Put
  <2>2. Len(x) >= 1 /\ x \in ByteSeq
    BY <1>1, <1>3, <1>4, <1>7 DEF Holds
  <2>3. x[1] \in 0 .. 255
    BY <2>2, SeqBytes, LenProperties DEF ByteSeq
  <2>4. Clamped(x[1]) \in 0 .. 255
    BY <2>3 DEF Clamped
  <2>5. QED
    BY <1>1, <1>7, <2>1, <2>4 DEF ByteSeq
<1>8. QED
  BY <1>1, <1>2, <1>5, <1>6, <1>7

(* Every byte of the announced length is written, each row's at its place. *)
LEMMA SerializedBytes ==
    ASSUME NEW w, NEW m, NEW v, NEW codec, codec = Serializer(w, m, v), Table(codec),
           \A row \in codec.rows : Holds(row, v),
           NEW bytes, bytes = Serialized(w, m, v)
    PROVE  /\ bytes \in ByteSeq /\ Len(bytes) = codec.returns
           /\ \A row \in codec.rows : \A k \in 1 .. row.size : bytes[row.at + k] = Put(row, v)[k]
<1> DEFINE RowAt(offset) == CHOOSE row \in codec.rows : Covers(row, offset)
           ByteAt(offset) == IF \E row \in codec.rows : Covers(row, offset)
                             THEN Put(RowAt(offset), v)[offset - RowAt(offset).at + 1]
                             ELSE Junk
<1>1. bytes = [p \in 1 .. codec.returns |-> ByteAt(p - 1)]
  BY DEF Serialized
<1>2. codec.returns \in Nat
  BY DEF Table, Placing
<1>3. ASSUME NEW p \in 1 .. codec.returns
      PROVE  \E row \in codec.rows : /\ Covers(row, p - 1)
                                     /\ bytes[p] = Put(row, v)[p - row.at]
  <2>1. p - 1 \in 0 .. codec.returns - 1
    BY <1>2
  <2>2. \E row \in codec.rows : Covers(row, p - 1)
    BY <2>1, Covered
  <2>3. PICK row : row = RowAt(p - 1)
    OBVIOUS
  <2>4. row \in codec.rows /\ Covers(row, p - 1)
    BY <2>2, <2>3
  <2>5. bytes[p] = Put(row, v)[p - 1 - row.at + 1]
    BY <1>1, <2>2, <2>3
  <2>6. p - 1 - row.at + 1 = p - row.at
    BY <1>2, <2>4 DEF Table, Placing
  <2>7. QED
    BY <2>4, <2>5, <2>6
<1> HIDE DEF RowAt, ByteAt
<1>4. ASSUME NEW p \in 1 .. codec.returns PROVE bytes[p] \in 0 .. 255
  <2>1. PICK row \in codec.rows : Covers(row, p - 1) /\ bytes[p] = Put(row, v)[p - row.at]
    BY <1>3
  <2>2. row.at \in Nat /\ row.size \in Nat
    BY DEF Table, Placing
  <2>3. p - row.at \in 1 .. row.size
    BY <1>2, <2>1, <2>2 DEF Covers
  <2>4. Put(row, v) \in ByteSeq /\ Len(Put(row, v)) = row.size
    BY PutType
  <2>5. QED
    BY <2>1, <2>3, <2>4, SeqBytes
<1>5. bytes \in ByteSeq /\ Len(bytes) = codec.returns
  <2>1. bytes \in [1 .. codec.returns -> 0 .. 255]
    BY <1>1, <1>4
  <2>2. QED
    BY <1>2, <2>1, BytesOf
<1>6. ASSUME NEW row \in codec.rows, NEW k \in 1 .. row.size
      PROVE  bytes[row.at + k] = Put(row, v)[k]
  <2>1. row.at \in Nat /\ row.size \in Nat /\ row.at + row.size =< codec.returns
    BY DEF Table, Placing
  <2>2. PICK p \in 1 .. codec.returns : p = row.at + k
    BY <1>2, <2>1
  <2>3. PICK r \in codec.rows : Covers(r, p - 1) /\ bytes[p] = Put(r, v)[p - r.at]
    BY <1>3
  <2>4. r.at \in Nat /\ r.size \in Nat
    BY DEF Table, Placing
  <2>5. r.at =< p - 1 /\ p - 1 < r.at + r.size /\ row.at =< p - 1 /\ p - 1 < row.at + row.size
    BY <1>2, <2>1, <2>2, <2>3, <2>4 DEF Covers
  <2>6. r = row
    <3>1. r = row \/ r.at + r.size =< row.at \/ row.at + row.size =< r.at
      BY DEF Table, Placing
    <3>2. QED
      BY <1>2, <2>1, <2>4, <2>5, <3>1
  <2>7. p - r.at = k
    BY <2>1, <2>2, <2>6
  <2>8. QED
    BY <2>2, <2>3, <2>6, <2>7
<1>7. QED
  BY <1>5, <1>6

----
(***************************************************************************)
(* What a deserializer takes from its buffer.                              *)
(***************************************************************************)

(* What a reader's row makes of the value that was written.                *)
Carries(row, v, y) ==
    /\ row.as = "bytes" => y = SubSeq(v[row.field], 1, row.size)
    /\ row.as = "int32" /\ IntBits = 32 => y = SubSeq(v[row.field], 1, row.size)
    /\ row.as = "half" => y = half_to_float(float_to_half(v[row.field]))
    /\ row.as = "string" => y = Append(SubSeq(v[row.field], 1, row.size), 0)
    /\ row.as = "clamped" => y = <<Clamped(v[row.field][1])>>
    /\ row.as = "zero" => y = <<0>>

(* The buffer in begins with these bytes.                                  *)
Begins(in, bytes) ==
    /\ in \in Seq(0 .. 256) /\ Len(in) >= Len(bytes)
    /\ \A k \in 1 .. Len(bytes) : in[k] = bytes[k]

(* The bytes at a row's place, whole and without junk.                     *)
Piece(bytes, row, cut) ==
    /\ cut \in ByteSeq /\ Len(cut) = row.size
    /\ \A k \in 1 .. row.size : cut[k] = bytes[row.at + k] /\ cut[k] \in 0 .. 255

CutFrom(in, row, cut) == cut = SubSeq(in, row.at + 1, row.at + row.size)

LEMMA CutOut ==
    ASSUME NEW bytes \in ByteSeq, NEW in, Begins(in, bytes), NEW row, row.at \in Nat,
           row.size \in Nat, row.at + row.size =< Len(bytes), NEW cut, CutFrom(in, row, cut)
    PROVE  Piece(bytes, row, cut)
<1>1. PICK at \in Nat, size \in Nat : at = row.at /\ size = row.size
  OBVIOUS
<1>2. Len(bytes) \in Nat /\ Len(in) \in Nat /\ in \in Seq(0 .. 256) /\ Len(in) >= Len(bytes)
  BY LenProperties DEF ByteSeq, Begins
<1>3. at + size =< Len(bytes) /\ cut = SubSeq(in, at + 1, at + size)
  BY <1>1 DEF CutFrom
<1>4. ASSUME NEW k \in 1 .. size PROVE in[at + k] = bytes[at + k] /\ bytes[at + k] \in 0 .. 255
  <2>1. PICK p \in 1 .. Len(bytes) : p = at + k
    BY <1>2, <1>3
  <2>2. QED
    BY <2>1, SeqBytes DEF Begins
<1>5. PICK i \in Int, j \in Int : i = at + 1 /\ j = at + size
  OBVIOUS
<1>6. \A p \in i .. j : in[p] \in 0 .. 255
  <2>1. ASSUME NEW p \in i .. j PROVE in[p] \in 0 .. 255
    <3>1. PICK k \in 1 .. size : p = at + k
      BY <1>5
    <3>2. QED
      BY <1>4, <3>1
  <2>2. QED
    BY <2>1
<1>7. /\ cut \in Seq(0 .. 255)
      /\ Len(cut) = IF i =< j THEN j - i + 1 ELSE 0
      /\ \A k \in 1 .. j - i + 1 : cut[k] = in[i + k - 1]
  <2>1. cut = SubSeq(in, i, j)
    BY <1>5, <1>3
  <2>2. PICK S : S = 0 .. 255
    OBVIOUS
  <2>3. \A p \in i .. j : in[p] \in S
    BY <1>6, <2>2
  <2>4. /\ SubSeq(in, i, j) \in Seq(S)
        /\ Len(SubSeq(in, i, j)) = IF i =< j THEN j - i + 1 ELSE 0
        /\ \A k \in 1 .. j - i + 1 : SubSeq(in, i, j)[k] = in[i + k - 1]
    BY <1>5, <2>3, SubSeqProperties
  <2>5. QED
    BY <2>1, <2>2, <2>4, Zenon
<1>8. j - i + 1 = size /\ \A k \in 1 .. size : i + k - 1 = at + k
  BY <1>5
<1>9. Len(cut) = size
  BY <1>5, <1>7, <1>8
<1>10. \A k \in 1 .. size : cut[k] = bytes[at + k] /\ cut[k] \in 0 .. 255
  <2>1. ASSUME NEW k \in 1 .. size PROVE cut[k] = bytes[at + k] /\ cut[k] \in 0 .. 255
    <3>1. cut[k] = in[i + k - 1] /\ i + k - 1 = at + k
      BY <1>7, <1>8
    <3>2. QED
      BY <1>4, <3>1
  <2>2. QED
    BY <2>1
<1>11. QED
  BY <1>1, <1>7, <1>9, <1>10 DEF ByteSeq, Piece

(* bytes are what a writer's table makes of the value v.                   *)
Writes(written, v, bytes) ==
    /\ Table(written) /\ \A row \in written.rows : Holds(row, v)
    /\ bytes \in ByteSeq /\ Len(bytes) = written.returns
    /\ \A row \in written.rows : \A k \in 1 .. row.size : bytes[row.at + k] = Put(row, v)[k]

(* y is what a row makes of the bytes at its place.                        *)
Reads(row, cut, upper, y) ==
    /\ row.as = "bytes" => y = cut
    /\ row.as = "int32" => y = unpack_int32(cut, upper)
    /\ row.as = "half" => y = half_to_float(cut)
    /\ row.as = "string" => y = Append(cut, 0)
    /\ row.as = "clamped" => y = <<Clamped(cut[1])>>
    /\ row.as = "zero" => y = <<0>>

LEMMA TakeOf ==
    ASSUME NEW bytes, NEW row, NEW in, NEW upper, NEW cut,
           Piece(bytes, row, cut), CutFrom(in, row, cut), NEW y, y = Take(row, in, upper)
    PROVE  Reads(row, cut, upper, y)
<1>1. Junk \notin {cut[k] : k \in 1 .. row.size}
  <2>1. ASSUME NEW k \in 1 .. row.size PROVE cut[k] # 256
    <3>1. cut[k] \in 0 .. 255
      BY DEF Piece
    <3>2. QED
      BY <3>1
  <2>2. QED
    BY <2>1 DEF Junk
<1>2. y = CASE row.as = "bytes" \/ Junk \in {cut[k] : k \in 1 .. row.size} -> cut
            [] row.as = "int32" -> unpack_int32(cut, upper)
            [] row.as = "half" -> half_to_float(cut)
            [] row.as = "string" -> Append(cut, 0)
            [] row.as = "clamped" -> <<Clamped(cut[1])>>
            [] row.as = "zero" -> <<0>>
  BY DEF Take, CutFrom
<1>3. QED
  BY <1>1, <1>2 DEF Reads

LEMMA TakeType ==
    ASSUME NEW row, row.as \in {"bytes", "int32", "half", "clamped", "zero", "string"},
           row.as = "half" => row.size = 2, row.as = "int32" => row.size = 4,
           row.as = "clamped" => row.size = 1,
           NEW bytes, NEW cut, Piece(bytes, row, cut), NEW upper \in {0, 255},
           NEW y, Reads(row, cut, upper, y)
    PROVE  y \in ByteSeq
<1>0. cut \in ByteSeq /\ Len(cut) = row.size
  BY DEF Piece
<1>1. CASE row.as = "bytes"
  BY <1>0, <1>1 DEF Reads
<1>2. CASE row.as = "int32"
  <2>1. cut \in FloatBytes
    BY <1>0, <1>2, SeqBytes
  <2>2. cut[1] \in 0 .. 255 /\ cut[2] \in 0 .. 255
    BY <2>1 DEF FloatBytes
  <2>3. <<cut[1], cut[2], upper, upper>> \in Seq(0 .. 255)
    BY <2>2
  <2>4. y = cut \/ y = <<cut[1], cut[2], upper, upper>>
    BY <1>2 DEF unpack_int32, Reads
  <2>5. QED
    BY <1>0, <2>3, <2>4 DEF ByteSeq
<1>3. CASE row.as = "half"
  <2>1. cut \in HalfBytes
    BY <1>0, <1>3, SeqBytes
  <2>2. QED
    BY <1>3, <2>1, HalfType DEF ByteSeq, Reads
<1>4. CASE row.as = "string"
  <2>1. cut \in Seq(0 .. 255) /\ 0 \in 0 .. 255
    BY <1>0 DEF ByteSeq
  <2>2. Append(cut, 0) \in Seq(0 .. 255)
    BY <2>1, AppendProperties
  <2>3. QED
    BY <1>4, <2>2 DEF ByteSeq, Reads
<1>5. CASE row.as = "clamped"
  <2>1. cut[1] \in 0 .. 255
    BY <1>5 DEF Piece
  <2>2. Clamped(cut[1]) \in 0 .. 255
    BY <2>1 DEF Clamped
  <2>3. QED
    <3>1. PICK c \in 0 .. 255 : c = Clamped(cut[1])
      BY <2>2
    <3>2. y = <<c>> /\ <<c>> \in Seq(0 .. 255)
      BY <1>5, <3>1 DEF Reads
    <3>3. QED
      BY <3>2 DEF ByteSeq
<1>6. CASE row.as = "zero"
  <2>1. y = <<0>> /\ <<0>> \in Seq(0 .. 255)
    BY <1>6 DEF Reads
  <2>2. QED
    BY <2>1 DEF ByteSeq
<1>7. QED
  BY <1>1, <1>2, <1>3, <1>4, <1>5, <1>6

(* What a reader takes are bytes, and come from the value.                 *)
LEMMA FedCarries ==
    ASSUME NEW written, NEW v, NEW bytes, Writes(written, v, bytes),
           NEW r \in written.rows, NEW row, Partner(r, row), row.size \in Nat,
           NEW cut, Piece(bytes, row, cut), NEW upper, NEW y,
           row.as = "int32" => row.size = 4,
           Reads(row, cut, upper, y)
    PROVE  Carries(row, v, y)
<1>1. /\ row.at = r.at /\ row.field = r.field /\ row.size =< r.size
      /\ r.size \in Nat /\ r.as # "string" /\ Holds(r, v)
      /\ row.as # "string" => row.as = r.as /\ row.size = r.size
      /\ row.as = "string" => r.as = "bytes"
      /\ r.as = "clamped" => r.size = 1
  <2>1. /\ r.size \in Nat /\ r.as # "string" /\ Holds(r, v)
        /\ r.as = "clamped" => r.size = 1
    BY DEF Writes, Table, Placing
  <2>2. /\ row.at = r.at /\ row.field = r.field
        /\ \/ row.as = r.as /\ row.size = r.size
           \/ r.as = "bytes" /\ row.as = "string" /\ row.size =< r.size
    BY DEF Partner
  <2>3. QED
    BY <2>1, <2>2
<1>2. PICK put : put = Put(r, v)
  OBVIOUS
<1>3. put \in ByteSeq /\ Len(put) = r.size
  BY <1>2, PutType DEF Writes
<1>4. \A k \in 1 .. row.size : cut[k] = put[k]
  <2>1. \A k \in 1 .. row.size : k \in 1 .. r.size
    BY <1>1
  <2>2. QED
    BY <1>1, <1>2, <2>1 DEF Writes, Piece
<1>5. row.as # "string" => cut = put
  BY <1>1, <1>3, <1>4, SameSeq DEF Piece
<1>6. PICK x : x = v[row.field]
  OBVIOUS
<1>7. CASE row.as \in {"bytes", "int32"}
  <2>1. put = SubSeq(x, 1, row.size)
    BY <1>1, <1>2, <1>6, <1>7 DEF Put
  <2>2. QED
    BY <1>5, <1>6, <1>7, <2>1 DEF Carries, Reads, unpack_int32
<1>8. CASE row.as = "half"
  <2>1. put = float_to_half(x)
    BY <1>1, <1>2, <1>6, <1>8 DEF Put
  <2>2. QED
    BY <1>5, <1>6, <1>8, <2>1 DEF Carries, Reads
<1>9. CASE row.as = "clamped"
  <2>1. put = <<Clamped(x[1])>>
    BY <1>1, <1>2, <1>6, <1>9 DEF Put
  <2>2. x \in ByteSeq /\ Len(x) >= 1
    BY <1>1, <1>6, <1>9 DEF Holds
  <2>3. x[1] \in 0 .. 255
    BY <2>2, SeqBytes, LenProperties DEF ByteSeq
  <2>4. Clamped(Clamped(x[1])) = Clamped(x[1])
    BY <2>3 DEF Clamped
  <2>5. put[1] = Clamped(x[1])
    BY <2>1
  <2>6. QED
    BY <1>5, <1>6, <1>9, <2>4, <2>5 DEF Carries, Reads
<1>10. CASE row.as = "zero"
  BY <1>10 DEF Carries, Reads
<1>11. CASE row.as = "string"
  <2>1. r.as = "bytes" /\ x \in ByteSeq /\ Len(x) >= r.size
    BY <1>1, <1>6, <1>11 DEF Holds
  <2>2. put = SubSeq(x, 1, r.size)
    BY <1>1, <1>2, <1>6, <2>1 DEF Put
  <2>3. Len(x) \in Nat
    BY <2>1, LenProperties DEF ByteSeq
  <2>4. PICK part : part = SubSeq(x, 1, row.size)
    OBVIOUS
  <2>5. /\ \A k \in 1 .. r.size : put[k] = x[k]
        /\ part \in ByteSeq /\ Len(part) = row.size
        /\ \A k \in 1 .. row.size : part[k] = x[k]
    BY <1>1, <2>1, <2>2, <2>3, <2>4, FirstBytes
  <2>6. \A k \in 1 .. row.size : cut[k] = part[k]
    BY <1>1, <1>4, <2>5
  <2>7. cut = part
    BY <2>5, <2>6, SameSeq DEF Piece
  <2>8. QED
    BY <1>6, <1>11, <2>4, <2>7 DEF Carries, Reads
<1>12. row.as \in {"bytes", "int32", "half", "clamped", "zero", "string"}
  BY <1>1 DEF Writes, Table, Placing
<1>13. QED
  BY <1>7, <1>8, <1>9, <1>10, <1>11, <1>12

LEMMA BlankZero ==
    ASSUME NEW written, NEW v, NEW bytes, Writes(written, v, bytes),
           NEW row, Blank(written.rows, row), row.at \in Nat, row.size \in Nat,
           NEW cut, Piece(bytes, row, cut)
    PROVE  \A k \in DOMAIN cut : cut[k] = 0
<1>1. DOMAIN cut = 1 .. row.size
  BY LenProperties DEF Piece, ByteSeq
<1>2. ASSUME NEW k \in 1 .. row.size PROVE cut[k] = 0
  <2>1. row.at + k - 1 \in row.at .. row.at + row.size - 1
    OBVIOUS
  <2>2. PICK r \in written.rows : Covers(r, row.at + k - 1) /\ r.as = "zero"
    BY <2>1 DEF Blank
  <2>3. r.at \in Nat /\ r.size = 1
    BY <2>2 DEF Writes, Table, Placing
  <2>4. r.at + 1 = row.at + k
    BY <2>2, <2>3 DEF Covers
  <2>5. Put(r, v) = <<0>>
    BY <2>2 DEF Put
  <2>6. bytes[r.at + 1] = Put(r, v)[1]
    BY <2>3 DEF Writes
  <2>7. QED
    BY <2>4, <2>5, <2>6 DEF Piece
<1>3. QED
  BY <1>1, <1>2

LEMMA Taken ==
    ASSUME NEW written, NEW v, NEW bytes, Writes(written, v, bytes),
           NEW read, Answers(written, read), NEW row \in read.rows,
           NEW in, Begins(in, bytes), NEW upper \in {0, 255},
           NEW y, y = Take(row, in, upper)
    PROVE  /\ y \in ByteSeq
           /\ \/ Carries(row, v, y) /\ Fed(written.rows, row)
              \/ Blank(written.rows, row) /\ \A k \in DOMAIN y : y[k] = 0
<1>1. /\ row.at \in Nat /\ row.size \in Nat /\ row.at + row.size =< read.returns
      /\ row.as \in {"bytes", "int32", "half", "clamped", "zero", "string"}
      /\ row.as = "half" => row.size = 2
      /\ row.as = "int32" => row.size = 4
      /\ row.as = "clamped" => row.size = 1
  BY DEF Answers, Placing
<1>2. bytes \in ByteSeq /\ row.at + row.size =< Len(bytes)
  <2>1. read.returns =< written.returns /\ read.returns \in Nat /\ written.returns \in Nat
    BY DEF Answers, Placing, Writes, Table
  <2>2. QED
    BY <1>1, <2>1 DEF Writes
<1>3. PICK cut : CutFrom(in, row, cut)
  BY DEF CutFrom
<1>4. Piece(bytes, row, cut)
  BY <1>1, <1>2, <1>3, CutOut
<1>5. Reads(row, cut, upper, y)
  BY <1>3, <1>4, TakeOf
<1>6. y \in ByteSeq
  BY <1>1, <1>4, <1>5, TakeType
<1>7. CASE Fed(written.rows, row)
  <2>1. PICK r \in written.rows : Partner(r, row)
    BY <1>7 DEF Fed
  <2>2. Carries(row, v, y)
    BY <1>1, <1>4, <1>5, <2>1, FedCarries
  <2>3. QED
    BY <1>6, <1>7, <2>2
<1>8. CASE Blank(written.rows, row)
  <2>1. y = cut
    BY <1>5, <1>8 DEF Blank, Reads
  <2>2. \A k \in DOMAIN cut : cut[k] = 0
    BY <1>1, <1>4, <1>8, BlankZero
  <2>3. QED
    BY <1>6, <1>8, <2>1, <2>2
<1>9. QED
  BY <1>7, <1>8 DEF Answers

----
(***************************************************************************)
(* Writer, structure and reader: every field of the structure has its row. *)
(***************************************************************************)

(* The rows that give a structure its fields: each field has one.          *)
OwnRows(own) ==
    \A a \in own :
        /\ a.size \in Nat /\ a.as \in {"bytes", "int32", "half", "clamped", "zero", "string"}
        /\ \A b \in own : a.field = b.field => a = b \/ a.as = "zero"
        /\ a.field # "rate"

(* A row writes a field that the structure has, of the size it takes.      *)
Fits(rows, own) ==
    \A row \in rows : row.as # "zero" =>
        \E r \in own :
            /\ r.field = row.field /\ r.as # "zero"
            /\ row.as = "half" => SizeOf(r) = 4
            /\ row.as # "half" => SizeOf(r) >= row.size
            /\ row.as \in {"bytes", "int32"} /\ row.field \notin {"text", "data"} =>
                  SizeOf(r) = row.size

Linked(written, own, read) ==
    /\ Table(written) /\ Answers(written, read)
    /\ Fits(written.rows, own) /\ OwnRows(own) /\ Fields(own) \subseteq Fields(written.rows)

LEMMA FitsItself ==
    ASSUME NEW codec, Table(codec)
    PROVE  /\ Fits(codec.rows, codec.rows) /\ OwnRows(codec.rows)
           /\ Fits(codec.rows, {row \in codec.rows : row.as # "zero"})
           /\ OwnRows({row \in codec.rows : row.as # "zero"})
           /\ Fields({row \in codec.rows : row.as # "zero"}) \subseteq Fields(codec.rows)
<1>1. \A row \in codec.rows :
         /\ row.size \in Nat /\ row.as \in {"bytes", "int32", "half", "clamped", "zero"}
         /\ row.field # "rate"
         /\ \A b \in codec.rows : row.field = b.field => row = b \/ row.as = "zero"
  BY DEF Table, Placing, Naming
<1>2. \A row \in codec.rows : SizeOf(row) = IF row.as = "half" THEN 4 ELSE row.size
  BY <1>1 DEF SizeOf
<1>3. QED
  BY <1>1, <1>2 DEF Fits, OwnRows, Fields

LEMMA LinkedItself ==
    ASSUME NEW codec, Table(codec)
    PROVE  Linked(codec, codec.rows, codec)
BY FitsItself, Itself DEF Linked

----
LEMMA SampleBytes ==
    ASSUME NEW word \in [1 .. 4 -> 0 .. 255], NEW n \in Nat
    PROVE  Bytes(word, n) \in ByteSeq /\ Len(Bytes(word, n)) = n
<1>1. \A k \in 1 .. n : (word[((k - 1) % 4) + 1] + ((k - 1) \div 4)) % 256 \in 0 .. 255
  <2>1. SUFFICES ASSUME NEW k \in 1 .. n
                 PROVE  (word[((k - 1) % 4) + 1] + ((k - 1) \div 4)) % 256 \in 0 .. 255
    OBVIOUS
  <2>2. PICK i \in 1 .. 4 : i = ((k - 1) % 4) + 1
    BY <2>1
  <2>3. PICK q \in Int : q = (k - 1) \div 4
    BY <2>1
  <2>4. PICK b \in 0 .. 255 : b = word[i]
    BY <2>2
  <2>5. PICK s \in Int : s = b + q
    BY <2>3, <2>4
  <2>6. s % 256 \in 0 .. 255
    OBVIOUS
  <2>7. QED
    BY <2>2, <2>3, <2>4, <2>5, <2>6
<1>2. Bytes(word, n) \in [1 .. n -> 0 .. 255]
  BY <1>1 DEF Bytes
<1>3. QED
  BY <1>2, BytesOf

(* A writer's constants have the sizes of their fields.                    *)
Constant(w, m) ==
    \A r \in Rows(w, m) : r.field \in DOMAIN Always(w, m) =>
        Always(w, m)[r.field] \in ByteSeq /\ Len(Always(w, m)[r.field]) = SizeOf(r)

LEMMA StructFields ==
    ASSUME NEW w, NEW m, NEW v \in Structs(w, m), OwnRows(Rows(w, m)), Constant(w, m)
    PROVE  /\ DOMAIN v = Fields(Rows(w, m))
           /\ \A row \in Rows(w, m) : row.as # "zero" =>
                 /\ row.field \in DOMAIN v /\ v[row.field] \in ByteSeq
                 /\ Len(v[row.field]) = SizeOf(row)
<1>1. PICK A \in SUBSET Fields(Rows(w, m)), x \in Words, y \in Words :
         v = Structure(w, m, A, x, y)
  BY DEF Structs
<1>2. DOMAIN v = Fields(Rows(w, m))
  BY <1>1 DEF Structure
<1>3. ASSUME NEW row \in Rows(w, m), row.as # "zero"
      PROVE  /\ row.field \in DOMAIN v /\ v[row.field] \in ByteSeq
             /\ Len(v[row.field]) = SizeOf(row)
  <2>1. row.field \in Fields(Rows(w, m))
    BY DEF Fields
  <2>2. RowOf(Rows(w, m), row.field) = row
    <3>1. PICK r : r = RowOf(Rows(w, m), row.field)
      OBVIOUS
    <3>2. r \in Rows(w, m) /\ r.field = row.field
      BY <3>1 DEF RowOf
    <3>3. r = row
      BY <1>3, <3>2 DEF OwnRows
    <3>4. QED
      BY <3>1, <3>3
  <2>3. CASE row.field \in DOMAIN Always(w, m)
    <3>1. v[row.field] = Always(w, m)[row.field]
      BY <1>1, <2>1, <2>3 DEF Structure
    <3>2. QED
      BY <1>2, <2>1, <2>3, <3>1 DEF Constant
  <2>4. CASE row.field \notin DOMAIN Always(w, m)
    <3>1. PICK word : word = IF row.field \in A THEN x ELSE y
      OBVIOUS
    <3>2. v[row.field] = Bytes(word, SizeOf(RowOf(Rows(w, m), row.field)))
      BY <1>1, <2>1, <2>4, <3>1 DEF Structure
    <3>3. SizeOf(row) \in Nat
      BY DEF OwnRows, SizeOf
    <3>4. word \in [1 .. 4 -> 0 .. 255]
      BY <3>1, MessagesAssumption
    <3>5. v[row.field] = Bytes(word, SizeOf(row))
      BY <2>2, <3>2
    <3>6. QED
      BY <1>2, <2>1, <3>3, <3>4, <3>5, SampleBytes
  <2>5. QED
    BY <2>3, <2>4
<1>4. QED
  BY <1>2, <1>3

LEMMA StructHolds ==
    ASSUME NEW w, NEW m, NEW v \in Structs(w, m), OwnRows(Rows(w, m)), Constant(w, m),
           NEW codec, Fits(codec.rows, Rows(w, m)), NEW row \in codec.rows,
           row.size \in Nat,
           row.as \in {"bytes", "int32", "half", "clamped", "zero"}
    PROVE  Holds(row, v)
<1>1. SUFFICES ASSUME row.as # "zero" PROVE Holds(row, v)
  BY DEF Holds
<1>2. PICK r \in Rows(w, m) :
         /\ r.field = row.field /\ r.as # "zero"
         /\ row.as = "half" => SizeOf(r) = 4
         /\ row.as # "half" => SizeOf(r) >= row.size
         /\ row.as \in {"bytes", "int32"} /\ row.field \notin {"text", "data"} =>
               SizeOf(r) = row.size
  BY <1>1 DEF Fits
<1>3. r.field \in DOMAIN v /\ v[r.field] \in ByteSeq /\ Len(v[r.field]) = SizeOf(r)
  <2>1. \A a \in Rows(w, m) : a.as # "zero" =>
           /\ a.field \in DOMAIN v /\ v[a.field] \in ByteSeq
           /\ Len(v[a.field]) = SizeOf(a)
    BY StructFields
  <2>2. QED
    BY <1>2, <2>1
<1>4. QED
  BY <1>2, <1>3 DEF Holds

(* The five kinds whose deserializer has a table of its own.               *)
USE DEF Codec, Row, U8, U16, U32, F32, I32, Half, Mem, Zero, Str

(* A row that finds its field in the structure.                            *)
Suits(row, r) ==
    /\ r.field = row.field /\ r.as # "zero"
    /\ row.as = "half" => SizeOf(r) = 4
    /\ row.as # "half" => SizeOf(r) >= row.size
    /\ row.as \in {"bytes", "int32"} /\ row.field \notin {"text", "data"} =>
          SizeOf(r) = row.size

Suited(own, row) == row.as # "zero" => \E r \in own : Suits(row, r)

LEMMA SuitedBy ==
    ASSUME NEW own, NEW r \in own, NEW row, Suits(row, r)
    PROVE  Suited(own, row)
BY DEF Suited

LEMMA FitsIf ==
    ASSUME NEW rows, NEW own, \A row \in rows : Suited(own, row)
    PROVE  Fits(rows, own)
BY DEF Fits, Suited, Suits

LEMMA ParamRequestReadLink ==
    Linked(ks_serialize_param_request_read, ks_deserialize_param_request_read.rows, ks_deserialize_param_request_read)
<1>1. PICK own : own = ks_deserialize_param_request_read.rows
  OBVIOUS
<1>2. /\ Str(0, "param_id", 15) \in own
      /\ U16(16, "param_index") \in own
  BY <1>1 DEF ks_deserialize_param_request_read
<1>3. /\ Suited(own, Mem(0, "param_id", 16))
      /\ Suited(own, U16(16, "param_index"))
  BY <1>2, SuitedBy DEF Suits, SizeOf
<1>4. Fits(ks_serialize_param_request_read.rows, own)
  <2>1. \A row \in ks_serialize_param_request_read.rows : Suited(own, row)
    BY <1>3 DEF ks_serialize_param_request_read
  <2>2. QED
    BY <2>1, FitsIf
<1>5. OwnRows(own)
  BY <1>1 DEF OwnRows, ks_deserialize_param_request_read
<1>6. Fields(own) \subseteq Fields(ks_serialize_param_request_read.rows)
  BY <1>1 DEF Fields, ks_serialize_param_request_read, ks_deserialize_param_request_read
<1>7. QED
  BY <1>1, <1>4, <1>5, <1>6, ParamRequestReadTable, DeserializeParamRequestRead DEF Linked

LEMMA ParamValueLink ==
    Linked(ks_serialize_param_value, ks_deserialize_param_value.rows, ks_deserialize_param_value)
<1>1. PICK own : own = ks_deserialize_param_value.rows
  OBVIOUS
<1>2. /\ Str(0, "param_id", 15) \in own
      /\ F32(16, "param_value") \in own
      /\ U8(20, "param_type") \in own
      /\ U16(21, "param_count") \in own
      /\ U16(23, "param_index") \in own
  BY <1>1 DEF ks_deserialize_param_value
<1>3. /\ Suited(own, Mem(0, "param_id", 16))
      /\ Suited(own, F32(16, "param_value"))
      /\ Suited(own, U8(20, "param_type"))
      /\ Suited(own, U16(21, "param_count"))
      /\ Suited(own, U16(23, "param_index"))
  BY <1>2, SuitedBy DEF Suits, SizeOf
<1>4. Fits(ks_serialize_param_value.rows, own)
  <2>1. \A row \in ks_serialize_param_value.rows : Suited(own, row)
    BY <1>3 DEF ks_serialize_param_value
  <2>2. QED
    BY <2>1, FitsIf
<1>5. OwnRows(own)
  BY <1>1 DEF OwnRows, ks_deserialize_param_value
<1>6. Fields(own) \subseteq Fields(ks_serialize_param_value.rows)
  BY <1>1 DEF Fields, ks_serialize_param_value, ks_deserialize_param_value
<1>7. QED
  BY <1>1, <1>4, <1>5, <1>6, ParamValueTable, DeserializeParamValue DEF Linked

LEMMA ParamSetLink ==
    Linked(ks_serialize_param_set, ks_deserialize_param_set.rows, ks_deserialize_param_set)
<1>1. PICK own : own = ks_deserialize_param_set.rows
  OBVIOUS
<1>2. /\ Str(0, "param_id", 15) \in own
      /\ F32(16, "param_value") \in own
      /\ U8(20, "param_type") \in own
  BY <1>1 DEF ks_deserialize_param_set
<1>3. /\ Suited(own, Mem(0, "param_id", 16))
      /\ Suited(own, F32(16, "param_value"))
      /\ Suited(own, U8(20, "param_type"))
  BY <1>2, SuitedBy DEF Suits, SizeOf
<1>4. Fits(ks_serialize_param_set.rows, own)
  <2>1. \A row \in ks_serialize_param_set.rows : Suited(own, row)
    BY <1>3 DEF ks_serialize_param_set
  <2>2. QED
    BY <2>1, FitsIf
<1>5. OwnRows(own)
  BY <1>1 DEF OwnRows, ks_deserialize_param_set
<1>6. Fields(own) \subseteq Fields(ks_serialize_param_set.rows)
  BY <1>1 DEF Fields, ks_serialize_param_set, ks_deserialize_param_set
<1>7. QED
  BY <1>1, <1>4, <1>5, <1>6, ParamSetTable, DeserializeParamSet DEF Linked

LEMMA StatustextLink ==
    Linked(ks_serialize_statustext, ks_deserialize_statustext.rows, ks_deserialize_statustext)
<1>1. PICK own : own = ks_deserialize_statustext.rows
  OBVIOUS
<1>2. /\ U8(0, "severity") \in own
      /\ Str(1, "text", 49) \in own
  BY <1>1 DEF ks_deserialize_statustext
<1>3. /\ Suited(own, U8(0, "severity"))
      /\ Suited(own, Mem(1, "text", 49))
  BY <1>2, SuitedBy DEF Suits, SizeOf
<1>4. Fits(ks_serialize_statustext.rows, own)
  <2>1. \A row \in ks_serialize_statustext.rows : Suited(own, row)
    BY <1>3 DEF ks_serialize_statustext, Suited
  <2>2. QED
    BY <2>1, FitsIf
<1>5. OwnRows(own)
  BY <1>1 DEF OwnRows, ks_deserialize_statustext
<1>6. Fields(own) \subseteq Fields(ks_serialize_statustext.rows)
  BY <1>1 DEF Fields, ks_serialize_statustext, ks_deserialize_statustext
<1>7. QED
  BY <1>1, <1>4, <1>5, <1>6, StatustextTable, DeserializeStatustext DEF Linked

LEMMA RidLocationLink ==
    Linked(ks_serialize_rid_location, ks_deserialize_rid_location.rows, ks_deserialize_rid_location)
<1>1. PICK own : own = ks_deserialize_rid_location.rows
  OBVIOUS
<1>2. /\ U8(0, "status") \in own
      /\ I32(1, "lat") \in own
      /\ I32(5, "lon") \in own
      /\ U16(9, "geodetic_alt") \in own
      /\ U16(11, "speed") \in own
      /\ U16(13, "track_deg") \in own
  BY <1>1 DEF ks_deserialize_rid_location
<1>3. /\ Suited(own, U8(0, "status"))
      /\ Suited(own, I32(1, "lat"))
      /\ Suited(own, I32(5, "lon"))
      /\ Suited(own, U16(9, "geodetic_alt"))
      /\ Suited(own, U16(11, "speed"))
      /\ Suited(own, U16(13, "track_deg"))
  BY <1>2, SuitedBy DEF Suits, SizeOf
<1>4. Fits(ks_serialize_rid_location.rows, own)
  <2>1. \A row \in ks_serialize_rid_location.rows : Suited(own, row)
    BY <1>3 DEF ks_serialize_rid_location, Suited
  <2>2. QED
    BY <2>1, FitsIf
<1>5. OwnRows(own)
  BY <1>1 DEF OwnRows, ks_deserialize_rid_location
<1>6. Fields(own) \subseteq Fields(ks_serialize_rid_location.rows)
  BY <1>1 DEF Fields, ks_serialize_rid_location, ks_deserialize_rid_location
<1>7. QED
  BY <1>1, <1>4, <1>5, <1>6, RidLocationTable, DeserializeRidLocation DEF Linked

(* Rows that say what a field may be after the trip.                       *)
Particular(m, most, row) ==
    /\ row.as = "string" <=> row.field \in {"param_id", "text"}
    /\ row.field = "param_id" => row.size = 15
    /\ row.field = "text" => row.size = 49
    /\ row.as = "clamped" <=> m = "log_data" /\ row.field = "count"
    /\ row.field = "data" => m = "log_data" /\ row.as = "bytes" /\ row.size = most

Plain(codec) ==
    \A row \in codec.rows :
        /\ row.as = "string" <=> row.field \in {"param_id", "text"}
        /\ row.field = "param_id" => row.size = 15
        /\ row.field = "text" => row.size = 49
        /\ row.as # "clamped" /\ row.field # "data"

LEMMA AttitudePlain == Plain(ks_deserialize_attitude)
BY DEF Plain, ks_deserialize_attitude

LEMMA HeartbeatPlain == Plain(ks_deserialize_heartbeat)
BY DEF Plain, ks_deserialize_heartbeat

LEMMA GpsRawPlain == Plain(ks_deserialize_gps_raw)
BY DEF Plain, ks_deserialize_gps_raw

LEMMA BatteryPlain == Plain(ks_deserialize_battery)
BY DEF Plain, ks_deserialize_battery

LEMMA RcInputPlain == Plain(ks_deserialize_rc_input)
BY DEF Plain, ks_deserialize_rc_input

LEMMA CommandPlain == Plain(ks_deserialize_command)
BY DEF Plain, ks_deserialize_command

LEMMA KeyExchangePlain == Plain(ks_deserialize_key_exchange)
BY DEF Plain, ks_deserialize_key_exchange

LEMMA KeyExchangeAckPlain == Plain(ks_deserialize_key_exchange_ack)
BY DEF Plain, ks_deserialize_key_exchange_ack

LEMMA CommandAckPlain == Plain(ks_deserialize_command_ack)
BY DEF Plain, ks_deserialize_command_ack

LEMMA ModeChangePlain == Plain(ks_deserialize_mode_change)
BY DEF Plain, ks_deserialize_mode_change

LEMMA MissionItemPlain == Plain(ks_deserialize_mission_item)
BY DEF Plain, ks_deserialize_mission_item

LEMMA ParamRequestReadPlain == Plain(ks_deserialize_param_request_read)
BY DEF Plain, ks_deserialize_param_request_read

LEMMA ParamValuePlain == Plain(ks_deserialize_param_value)
BY DEF Plain, ks_deserialize_param_value

LEMMA ParamSetPlain == Plain(ks_deserialize_param_set)
BY DEF Plain, ks_deserialize_param_set

LEMMA LogRequestListPlain == Plain(ks_deserialize_log_request_list)
BY DEF Plain, ks_deserialize_log_request_list

LEMMA LogEntryPlain == Plain(ks_deserialize_log_entry)
BY DEF Plain, ks_deserialize_log_entry

LEMMA LogRequestDataPlain == Plain(ks_deserialize_log_request_data)
BY DEF Plain, ks_deserialize_log_request_data

LEMMA StatustextPlain == Plain(ks_deserialize_statustext)
BY DEF Plain, ks_deserialize_statustext

LEMMA SysStatusPlain == Plain(ks_deserialize_sys_status)
BY DEF Plain, ks_deserialize_sys_status

LEMMA VfrHudPlain == Plain(ks_deserialize_vfr_hud)
BY DEF Plain, ks_deserialize_vfr_hud

LEMMA NavControllerPlain == Plain(ks_deserialize_nav_controller)
BY DEF Plain, ks_deserialize_nav_controller

LEMMA MissionCountPlain == Plain(ks_deserialize_mission_count)
BY DEF Plain, ks_deserialize_mission_count

LEMMA MissionRequestPlain == Plain(ks_deserialize_mission_request)
BY DEF Plain, ks_deserialize_mission_request

LEMMA MissionAckPlain == Plain(ks_deserialize_mission_ack)
BY DEF Plain, ks_deserialize_mission_ack

LEMMA NpntPaPlain == Plain(ks_deserialize_npnt_pa)
BY DEF Plain, ks_deserialize_npnt_pa

LEMMA NpntStatusPlain == Plain(ks_deserialize_npnt_status)
BY DEF Plain, ks_deserialize_npnt_status

LEMMA RidBasicIdPlain == Plain(ks_deserialize_rid_basic_id)
BY DEF Plain, ks_deserialize_rid_basic_id

LEMMA RidLocationPlain == Plain(ks_deserialize_rid_location)
BY DEF Plain, ks_deserialize_rid_location

LEMMA DecodeHeartbeatPlain == Plain(decode_heartbeat)
BY DEF Plain, decode_heartbeat

LEMMA DecodeAttitudePlain == Plain(decode_attitude)
BY DEF Plain, decode_attitude

LEMMA DecodeGpsPlain == Plain(decode_gps)
BY DEF Plain, decode_gps

LEMMA DecodeCmdAckPlain == Plain(decode_cmd_ack)
BY DEF Plain, decode_cmd_ack

LEMMA ListenerHeartbeatPlain == Plain(ListenerHeartbeat)
BY DEF Plain, ListenerHeartbeat

HIDE DEF Codec, Row, U8, U16, U32, F32, I32, Half, Mem, Zero, Str

(* The library understands itself, and announces the length it has written. *)
LEMMA LibraryCodecs ==
    ASSUME NEW m \in DOMAIN Serializers
    PROVE  /\ Linked(Serializers[m], Deserializers[m].rows, Deserializers[m])
           /\ Serializers[m].returns = Deserializers[m].returns
           /\ Plain(Deserializers[m])
<1>1. CASE m = "attitude"
  <2>1. Serializers[m] = ks_serialize_attitude /\ Deserializers[m] = ks_deserialize_attitude
    BY <1>1 DEF Serializers, Deserializers
  <2>2. QED
    BY <2>1, AttitudeTable, AttitudePlain, LinkedItself
<1>2. CASE m = "heartbeat"
  <2>1. Serializers[m] = ks_serialize_heartbeat /\ Deserializers[m] = ks_deserialize_heartbeat
    BY <1>2 DEF Serializers, Deserializers
  <2>2. QED
    BY <2>1, HeartbeatTable, HeartbeatPlain, LinkedItself
<1>3. CASE m = "gps_raw"
  <2>1. Serializers[m] = ks_serialize_gps_raw /\ Deserializers[m] = ks_deserialize_gps_raw
    BY <1>3 DEF Serializers, Deserializers
  <2>2. QED
    BY <2>1, GpsRawTable, GpsRawPlain, LinkedItself
<1>4. CASE m = "battery"
  <2>1. Serializers[m] = ks_serialize_battery /\ Deserializers[m] = ks_deserialize_battery
    BY <1>4 DEF Serializers, Deserializers
  <2>2. QED
    BY <2>1, BatteryTable, BatteryPlain, LinkedItself
<1>5. CASE m = "rc_input"
  <2>1. Serializers[m] = ks_serialize_rc_input /\ Deserializers[m] = ks_deserialize_rc_input
    BY <1>5 DEF Serializers, Deserializers
  <2>2. QED
    BY <2>1, RcInputTable, RcInputPlain, LinkedItself
<1>6. CASE m = "command"
  <2>1. Serializers[m] = ks_serialize_command /\ Deserializers[m] = ks_deserialize_command
    BY <1>6 DEF Serializers, Deserializers
  <2>2. QED
    BY <2>1, CommandTable, CommandPlain, LinkedItself
<1>7. CASE m = "key_exchange"
  <2>1. Serializers[m] = ks_serialize_key_exchange /\ Deserializers[m] = ks_deserialize_key_exchange
    BY <1>7 DEF Serializers, Deserializers
  <2>2. QED
    BY <2>1, KeyExchangeTable, KeyExchangePlain, LinkedItself
<1>8. CASE m = "key_exchange_ack"
  <2>1. Serializers[m] = ks_serialize_key_exchange_ack /\ Deserializers[m] = ks_deserialize_key_exchange_ack
    BY <1>8 DEF Serializers, Deserializers
  <2>2. QED
    BY <2>1, KeyExchangeAckTable, KeyExchangeAckPlain, LinkedItself
<1>9. CASE m = "command_ack"
  <2>1. Serializers[m] = ks_serialize_command_ack /\ Deserializers[m] = ks_deserialize_command_ack
    BY <1>9 DEF Serializers, Deserializers
  <2>2. QED
    BY <2>1, CommandAckTable, CommandAckPlain, LinkedItself
<1>10. CASE m = "mode_change"
  <2>1. Serializers[m] = ks_serialize_mode_change /\ Deserializers[m] = ks_deserialize_mode_change
    BY <1>10 DEF Serializers, Deserializers
  <2>2. QED
    BY <2>1, ModeChangeTable, ModeChangePlain, LinkedItself
<1>11. CASE m = "mission_item"
  <2>1. Serializers[m] = ks_serialize_mission_item /\ Deserializers[m] = ks_deserialize_mission_item
    BY <1>11 DEF Serializers, Deserializers
  <2>2. QED
    BY <2>1, MissionItemTable, MissionItemPlain, LinkedItself
<1>12. CASE m = "param_request_read"
  <2>1. Serializers[m] = ks_serialize_param_request_read /\ Deserializers[m] = ks_deserialize_param_request_read
    BY <1>12 DEF Serializers, Deserializers
  <2>2. QED
    BY <2>1, ParamRequestReadLink, ParamRequestReadPlain DEF ks_serialize_param_request_read, ks_deserialize_param_request_read, Codec
<1>13. CASE m = "param_value"
  <2>1. Serializers[m] = ks_serialize_param_value /\ Deserializers[m] = ks_deserialize_param_value
    BY <1>13 DEF Serializers, Deserializers
  <2>2. QED
    BY <2>1, ParamValueLink, ParamValuePlain DEF ks_serialize_param_value, ks_deserialize_param_value, Codec
<1>14. CASE m = "param_set"
  <2>1. Serializers[m] = ks_serialize_param_set /\ Deserializers[m] = ks_deserialize_param_set
    BY <1>14 DEF Serializers, Deserializers
  <2>2. QED
    BY <2>1, ParamSetLink, ParamSetPlain DEF ks_serialize_param_set, ks_deserialize_param_set, Codec
<1>15. CASE m = "log_request_list"
  <2>1. Serializers[m] = ks_serialize_log_request_list /\ Deserializers[m] = ks_deserialize_log_request_list
    BY <1>15 DEF Serializers, Deserializers
  <2>2. QED
    BY <2>1, LogRequestListTable, LogRequestListPlain, LinkedItself
<1>16. CASE m = "log_entry"
  <2>1. Serializers[m] = ks_serialize_log_entry /\ Deserializers[m] = ks_deserialize_log_entry
    BY <1>16 DEF Serializers, Deserializers
  <2>2. QED
    BY <2>1, LogEntryTable, LogEntryPlain, LinkedItself
<1>17. CASE m = "log_request_data"
  <2>1. Serializers[m] = ks_serialize_log_request_data /\ Deserializers[m] = ks_deserialize_log_request_data
    BY <1>17 DEF Serializers, Deserializers
  <2>2. QED
    BY <2>1, LogRequestDataTable, LogRequestDataPlain, LinkedItself
<1>18. CASE m = "statustext"
  <2>1. Serializers[m] = ks_serialize_statustext /\ Deserializers[m] = ks_deserialize_statustext
    BY <1>18 DEF Serializers, Deserializers
  <2>2. QED
    BY <2>1, StatustextLink, StatustextPlain DEF ks_serialize_statustext, ks_deserialize_statustext, Codec
<1>19. CASE m = "sys_status"
  <2>1. Serializers[m] = ks_serialize_sys_status /\ Deserializers[m] = ks_deserialize_sys_status
    BY <1>19 DEF Serializers, Deserializers
  <2>2. QED
    BY <2>1, SysStatusTable, SysStatusPlain, LinkedItself
<1>20. CASE m = "vfr_hud"
  <2>1. Serializers[m] = ks_serialize_vfr_hud /\ Deserializers[m] = ks_deserialize_vfr_hud
    BY <1>20 DEF Serializers, Deserializers
  <2>2. QED
    BY <2>1, VfrHudTable, VfrHudPlain, LinkedItself
<1>21. CASE m = "nav_controller"
  <2>1. Serializers[m] = ks_serialize_nav_controller /\ Deserializers[m] = ks_deserialize_nav_controller
    BY <1>21 DEF Serializers, Deserializers
  <2>2. QED
    BY <2>1, NavControllerTable, NavControllerPlain, LinkedItself
<1>22. CASE m = "mission_count"
  <2>1. Serializers[m] = ks_serialize_mission_count /\ Deserializers[m] = ks_deserialize_mission_count
    BY <1>22 DEF Serializers, Deserializers
  <2>2. QED
    BY <2>1, MissionCountTable, MissionCountPlain, LinkedItself
<1>23. CASE m = "mission_request"
  <2>1. Serializers[m] = ks_serialize_mission_request /\ Deserializers[m] = ks_deserialize_mission_request
    BY <1>23 DEF Serializers, Deserializers
  <2>2. QED
    BY <2>1, MissionRequestTable, MissionRequestPlain, LinkedItself
<1>24. CASE m = "mission_ack"
  <2>1. Serializers[m] = ks_serialize_mission_ack /\ Deserializers[m] = ks_deserialize_mission_ack
    BY <1>24 DEF Serializers, Deserializers
  <2>2. QED
    BY <2>1, MissionAckTable, MissionAckPlain, LinkedItself
<1>25. CASE m = "npnt_pa"
  <2>1. Serializers[m] = ks_serialize_npnt_pa /\ Deserializers[m] = ks_deserialize_npnt_pa
    BY <1>25 DEF Serializers, Deserializers
  <2>2. QED
    BY <2>1, NpntPaTable, NpntPaPlain, LinkedItself
<1>26. CASE m = "npnt_status"
  <2>1. Serializers[m] = ks_serialize_npnt_status /\ Deserializers[m] = ks_deserialize_npnt_status
    BY <1>26 DEF Serializers, Deserializers
  <2>2. QED
    BY <2>1, NpntStatusTable, NpntStatusPlain, LinkedItself
<1>27. CASE m = "rid_basic_id"
  <2>1. Serializers[m] = ks_serialize_rid_basic_id /\ Deserializers[m] = ks_deserialize_rid_basic_id
    BY <1>27 DEF Serializers, Deserializers
  <2>2. QED
    BY <2>1, RidBasicIdTable, RidBasicIdPlain, LinkedItself
<1>28. CASE m = "rid_location"
  <2>1. Serializers[m] = ks_serialize_rid_location /\ Deserializers[m] = ks_deserialize_rid_location
    BY <1>28 DEF Serializers, Deserializers
  <2>2. QED
    BY <2>1, RidLocationLink, RidLocationPlain DEF ks_serialize_rid_location, ks_deserialize_rid_location, Codec
<1>29. QED
  BY <1>1, <1>2, <1>3, <1>4, <1>5, <1>6, <1>7, <1>8, <1>9, <1>10, <1>11, <1>12, <1>13, <1>14, <1>15, <1>16, <1>17, <1>18, <1>19, <1>20, <1>21, <1>22, <1>23, <1>24, <1>25, <1>26, <1>27, <1>28 DEF Serializers

LEMMA LogDataLink ==
    ASSUME NEW c \in 0 .. 255
    PROVE  /\ Linked(ks_serialize_log_data(c), ks_deserialize_log_data(255).rows,
                     ks_deserialize_log_data(Clamped(c)))
           /\ ks_serialize_log_data(c).returns = ks_deserialize_log_data(Clamped(c)).returns
           /\ Fields(ks_deserialize_log_data(Clamped(c)).rows)
                  = Fields(ks_deserialize_log_data(255).rows)
<1>1. PICK n \in 0 .. 90 : n = Clamped(c)
  BY DEF Clamped
<1>2. n \in 0 .. 255 /\ Clamped(n) = n /\ 255 \in 0 .. 255 /\ Clamped(255) = 90
  BY DEF Clamped
<1>3. ks_deserialize_log_data(n) = ks_serialize_log_data(c)
  BY <1>1, <1>2 DEF ks_serialize_log_data, ks_deserialize_log_data
<1>4. Table(ks_serialize_log_data(c)) /\ Answers(ks_serialize_log_data(c), ks_serialize_log_data(c))
  BY LogDataTable, Itself
<1>5. PICK own : own = ks_deserialize_log_data(255).rows
  OBVIOUS
<1>6. own = {U16(0, "id"), U32(2, "offset"), Row(6, "count", 1, "clamped"), Mem(7, "data", 90)}
  BY <1>2, <1>5 DEF ks_deserialize_log_data, Codec
<1>7. PICK rows : rows = ks_serialize_log_data(c).rows
  OBVIOUS
<1>8. rows = {U16(0, "id"), U32(2, "offset"), Row(6, "count", 1, "clamped"), Mem(7, "data", n)}
  BY <1>1, <1>7 DEF ks_serialize_log_data, Codec
<1>9. Fits(rows, own)
  <2>1. /\ U16(0, "id") \in own /\ U32(2, "offset") \in own
        /\ Row(6, "count", 1, "clamped") \in own /\ Mem(7, "data", 90) \in own
    BY <1>6
  <2>2. /\ Suits(U16(0, "id"), U16(0, "id")) /\ Suits(U32(2, "offset"), U32(2, "offset"))
        /\ Suits(Row(6, "count", 1, "clamped"), Row(6, "count", 1, "clamped"))
        /\ Suits(Mem(7, "data", n), Mem(7, "data", 90))
    BY DEF Suits, SizeOf, U16, U32, Row, Mem
  <2>3. /\ Suited(own, U16(0, "id")) /\ Suited(own, U32(2, "offset"))
        /\ Suited(own, Row(6, "count", 1, "clamped")) /\ Suited(own, Mem(7, "data", n))
    BY <2>1, <2>2, SuitedBy
  <2>4. \A row \in rows : Suited(own, row)
    BY <1>8, <2>3
  <2>5. QED
    BY <2>4, FitsIf
<1>10. OwnRows(own)
  BY <1>6 DEF OwnRows, U16, U32, Row, Mem
<1>11. /\ Fields(own) = {"id", "offset", "count", "data"}
       /\ Fields(rows) = {"id", "offset", "count", "data"}
  BY <1>6, <1>8 DEF Fields, U16, U32, Row, Mem
<1>12. QED
  BY <1>1, <1>3, <1>4, <1>5, <1>7, <1>9, <1>10, <1>11 DEF Linked

----
Bare(codec) == {row \in codec.rows : row.as # "zero"}

LEMMA LinkedTool ==
    ASSUME NEW codec, Table(codec), NEW read, Answers(codec, read)
    PROVE  Linked(codec, Bare(codec), read)
BY FitsItself DEF Linked, Bare

LEMMA LinkedLibrary ==
    ASSUME NEW codec, Table(codec), NEW read, Answers(codec, read)
    PROVE  Linked(codec, codec.rows, read)
BY FitsItself DEF Linked

LEMMA NoConstant ==
    ASSUME NEW w, NEW m, Always(w, m) = <<>>
    PROVE  Constant(w, m)
<1>1. DOMAIN Always(w, m) = {}
  OBVIOUS
<1>2. QED
  BY <1>1 DEF Constant

LEMMA ToolRows ==
    ASSUME NEW w, NEW m, w # "library"
    PROVE  Rows(w, m) = Bare(Written[w][m])
BY DEF Rows, Bare

LEMMA GcsHeartbeatTable == Table(GcsHeartbeat) /\ Answers(GcsHeartbeat, ks_deserialize_heartbeat)
<1>1. GcsHeartbeat = ks_serialize_heartbeat
  BY DEF GcsHeartbeat, ks_serialize_heartbeat
<1>2. QED
  BY <1>1, HeartbeatTable, Itself

LEMMA GcsConstant ==
    ASSUME NEW w \in {"gcs", "sender"}
    PROVE  Constant(w, "heartbeat")
<1>1. Rows(w, "heartbeat") = Bare(GcsHeartbeat)
  BY ToolRows DEF Written
<1>2. PICK top \in {160, 176} : Always(w, "heartbeat") = GcsConstants(top)
  <2>1. CASE w = "gcs"
    <3>1. Always(w, "heartbeat") = GcsConstants(176)
      BY <2>1 DEF Always
    <3>2. QED
      BY <3>1
  <2>2. CASE w = "sender"
    <3>1. Always(w, "heartbeat") = GcsConstants(160)
      BY <2>2 DEF Always
    <3>2. QED
      BY <3>1
  <2>3. QED
    BY <2>1, <2>2
<1>3. /\ <<1, 0, 0, top>> \in ByteSeq /\ Len(<<1, 0, 0, top>>) = 4
      /\ <<6>> \in ByteSeq /\ Len(<<6>>) = 1 /\ <<8>> \in ByteSeq /\ Len(<<8>>) = 1
      /\ <<0>> \in ByteSeq /\ Len(<<0>>) = 1 /\ <<0, 0>> \in ByteSeq /\ Len(<<0, 0>>) = 2
  <2>1. /\ <<1, 0, 0, top>> \in Seq(0 .. 255) /\ <<6>> \in Seq(0 .. 255)
        /\ <<8>> \in Seq(0 .. 255) /\ <<0>> \in Seq(0 .. 255) /\ <<0, 0>> \in Seq(0 .. 255)
    OBVIOUS
  <2>2. QED
    BY <2>1 DEF ByteSeq
<1>4. \A row \in Bare(GcsHeartbeat) :
         /\ GcsConstants(top)[row.field] \in ByteSeq
         /\ Len(GcsConstants(top)[row.field]) = SizeOf(row)
  <2> DEFINE Sized(row) == /\ GcsConstants(top)[row.field] \in ByteSeq
                           /\ Len(GcsConstants(top)[row.field]) = SizeOf(row)
  <2>1. /\ Sized(U32(0, "system_status")) /\ Sized(U8(4, "system_type"))
        /\ Sized(U8(5, "autopilot_type")) /\ Sized(U8(6, "base_mode"))
        /\ Sized(U8(7, "lost_link_action")) /\ Sized(U16(8, "lost_link_timeout_s"))
    BY <1>3 DEF GcsConstants, SizeOf, U8, U16, U32, Row
  <2> HIDE DEF Sized
  <2>2. GcsHeartbeat.rows =
           {U32(0, "system_status"), U8(4, "system_type"), U8(5, "autopilot_type"),
            U8(6, "base_mode"), U8(7, "lost_link_action"), U16(8, "lost_link_timeout_s")}
    BY DEF GcsHeartbeat, Codec
  <2>3. \A row \in GcsHeartbeat.rows : Sized(row)
    BY <2>1, <2>2
  <2>4. QED
    BY <2>3 DEF Bare, Sized
<1>5. QED
  BY <1>1, <1>2, <1>4 DEF Constant

LEMMA BridgeConstant == Constant("bridge", "heartbeat")
<1>1. Rows("bridge", "heartbeat") = Bare(BridgeHeartbeat)
  BY ToolRows DEF Written
<1>2. Always("bridge", "heartbeat") = BridgeConstants
  BY DEF Always
<1>3. <<1, 0, 0, 0>> \in ByteSeq /\ Len(<<1, 0, 0, 0>>) = 4
  <2>1. <<1, 0, 0, 0>> \in Seq(0 .. 255)
    OBVIOUS
  <2>2. QED
    BY <2>1 DEF ByteSeq
<1>4. \A row \in Bare(BridgeHeartbeat) : row.field = "system_status" => SizeOf(row) = 4
  <2> DEFINE Sized(row) == row.field = "system_status" => SizeOf(row) = 4
  <2>1. /\ Sized(U32(0, "system_status")) /\ Sized(U8(4, "system_type"))
        /\ Sized(U8(5, "autopilot_type")) /\ Sized(U8(6, "base_mode"))
        /\ Sized(U8(7, "mav_status")) /\ Sized(Zero(8)) /\ Sized(Zero(9))
    BY DEF SizeOf, U8, U32, Row, Zero
  <2> HIDE DEF Sized
  <2>2. BridgeHeartbeat.rows =
           {U32(0, "system_status"), U8(4, "system_type"), U8(5, "autopilot_type"),
            U8(6, "base_mode"), U8(7, "mav_status"), Zero(8), Zero(9)}
    BY DEF BridgeHeartbeat, Codec
  <2>3. \A row \in BridgeHeartbeat.rows : Sized(row)
    BY <2>1, <2>2
  <2>4. QED
    BY <2>3 DEF Bare, Sized
<1>5. QED
  <2>1. /\ DOMAIN BridgeConstants = {"system_status"}
        /\ BridgeConstants["system_status"] = <<1, 0, 0, 0>>
    BY DEF BridgeConstants
  <2>2. QED
    BY <1>1, <1>2, <1>3, <1>4, <2>1 DEF Constant

----
(* What the programs of the repository send each other is understood.      *)
Known(l, v, in) ==
    /\ Linked(Serializer(l[1], l[2], v), Rows(l[1], l[2]), Deserializer(l[3], l[2], in))
    /\ l[1] = "library" /\ l[3] = "library" =>
          /\ Serializer(l[1], l[2], v).returns = Deserializer(l[3], l[2], in).returns
          /\ Fields(Deserializer(l[3], l[2], in).rows) = Fields(Rows(l[1], l[2]))

LEMMA LibraryRows ==
    ASSUME NEW m \in DOMAIN Serializers
    PROVE  /\ Rows("library", m) = Deserializers[m].rows
           /\ \A v : Serializer("library", m, v) = Serializers[m]
           /\ \A in : Deserializer("library", m, in) = Deserializers[m]
           /\ Constant("library", m)
<1>1. m # "log_data"
  BY DEF Serializers
<1>2. Always("library", m) = <<>>
  BY DEF Always
<1>3. QED
  BY <1>1, <1>2, NoConstant DEF Rows, Serializer, Deserializer

LEMMA LogDataRows ==
    /\ Rows("library", "log_data") = ks_deserialize_log_data(255).rows
    /\ \A v : Serializer("library", "log_data", v) = ks_serialize_log_data(v.count[1])
    /\ \A in : Deserializer("library", "log_data", in) = ks_deserialize_log_data(in[7])
    /\ Constant("library", "log_data")
<1>1. Always("library", "log_data") = <<>>
  BY DEF Always
<1>2. [p \in 1 .. 97 |-> 255][7] = 255
  OBVIOUS
<1>3. QED
  BY <1>1, <1>2, NoConstant DEF Rows, Serializer, Deserializer

LEMMA LibraryKnown ==
    ASSUME NEW m \in DOMAIN Serializers, NEW v, NEW in
    PROVE  Known(<<"library", m, "library">>, v, in) /\ Constant("library", m)
BY LibraryRows, LibraryCodecs DEF Known

LEMMA LogDataKnown ==
    ASSUME NEW v, NEW in, v.count[1] \in 0 .. 255, in[7] = Clamped(v.count[1])
    PROVE  Known(<<"library", "log_data", "library">>, v, in) /\ Constant("library", "log_data")
<1>1. PICK c \in 0 .. 255 : c = v.count[1]
  OBVIOUS
<1>2. /\ Rows("library", "log_data") = ks_deserialize_log_data(255).rows
      /\ Serializer("library", "log_data", v) = ks_serialize_log_data(c)
      /\ Deserializer("library", "log_data", in) = ks_deserialize_log_data(Clamped(c))
  BY <1>1, LogDataRows
<1>3. /\ Linked(ks_serialize_log_data(c), ks_deserialize_log_data(255).rows,
                ks_deserialize_log_data(Clamped(c)))
      /\ ks_serialize_log_data(c).returns = ks_deserialize_log_data(Clamped(c)).returns
      /\ Fields(ks_deserialize_log_data(Clamped(c)).rows)
             = Fields(ks_deserialize_log_data(255).rows)
  BY LogDataLink
<1>4. Known(<<"library", "log_data", "library">>, v, in)
  BY <1>2, <1>3 DEF Known
<1>5. QED
  BY <1>4, LogDataRows

LEMMA ShownKnown ==
    ASSUME NEW l \in {<<"library", m, "gcs">> : m \in {"heartbeat", "attitude", "command_ack"}}
                     \cup {<<"library", "heartbeat", "listener">>},
           NEW v, NEW in
    PROVE  Known(l, v, in) /\ Constant(l[1], l[2])
<1>1. CASE l = <<"library", "heartbeat", "gcs">>
  <2>1. /\ Serializer(l[1], l[2], v) = ks_serialize_heartbeat
        /\ Rows(l[1], l[2]) = ks_serialize_heartbeat.rows
        /\ Deserializer(l[3], l[2], in) = decode_heartbeat
    BY <1>1, LibraryRows, HeartbeatTable DEF Serializers, Deserializers, Deserializer, Shown
  <2>2. QED
    BY <1>1, <2>1, LibraryRows, HeartbeatTable, DecodeHeartbeat, LinkedLibrary DEF Known, Serializers
<1>2. CASE l = <<"library", "attitude", "gcs">>
  <2>1. /\ Serializer(l[1], l[2], v) = ks_serialize_attitude
        /\ Rows(l[1], l[2]) = ks_serialize_attitude.rows
        /\ Deserializer(l[3], l[2], in) = decode_attitude
    BY <1>2, LibraryRows, AttitudeTable DEF Serializers, Deserializers, Deserializer, Shown
  <2>2. QED
    BY <1>2, <2>1, LibraryRows, AttitudeTable, DecodeAttitude, LinkedLibrary DEF Known, Serializers
<1>3. CASE l = <<"library", "command_ack", "gcs">>
  <2>1. /\ Serializer(l[1], l[2], v) = ks_serialize_command_ack
        /\ Rows(l[1], l[2]) = ks_serialize_command_ack.rows
        /\ Deserializer(l[3], l[2], in) = decode_cmd_ack
    BY <1>3, LibraryRows, CommandAckTable DEF Serializers, Deserializers, Deserializer, Shown
  <2>2. QED
    BY <1>3, <2>1, LibraryRows, CommandAckTable, DecodeCmdAck, LinkedLibrary DEF Known, Serializers
<1>4. CASE l = <<"library", "heartbeat", "listener">>
  <2>1. /\ Serializer(l[1], l[2], v) = ks_serialize_heartbeat
        /\ Rows(l[1], l[2]) = ks_serialize_heartbeat.rows
        /\ Deserializer(l[3], l[2], in) = ListenerHeartbeat
    BY <1>4, LibraryRows, HeartbeatTable DEF Serializers, Deserializers, Deserializer, Shown
  <2>2. QED
    BY <1>4, <2>1, LibraryRows, HeartbeatTable, Listenerheartbeat, LinkedLibrary DEF Known, Serializers
<1>5. QED
  BY <1>1, <1>2, <1>3, <1>4

LEMMA ToolKnown ==
    ASSUME NEW w, NEW m, NEW r, w # "library", Table(Written[w][m]), Constant(w, m),
           NEW v, NEW in, Answers(Written[w][m], Deserializer(r, m, in))
    PROVE  Known(<<w, m, r>>, v, in)
<1>1. Serializer(w, m, v) = Written[w][m]
  BY DEF Serializer
<1>2. QED
  BY <1>1, ToolRows, LinkedTool DEF Known

LEMMA WrittenKnown ==
    ASSUME NEW l \in {<<"gcs", "heartbeat", "library">>, <<"gcs", "command", "library">>,
                      <<"sender", "heartbeat", "library">>},
           NEW v, NEW in
    PROVE  Known(l, v, in) /\ Constant(l[1], l[2])
<1>1. /\ Deserializer("library", "heartbeat", in) = ks_deserialize_heartbeat
      /\ Deserializer("library", "command", in) = ks_deserialize_command
  BY LibraryRows DEF Serializers, Deserializers
<1>2. /\ Written["gcs"]["heartbeat"] = GcsHeartbeat /\ Written["sender"]["heartbeat"] = GcsHeartbeat
      /\ Written["gcs"]["command"] = GcsCommand
  BY DEF Written
<1>3. Constant("gcs", "heartbeat") /\ Constant("sender", "heartbeat") /\ Constant("gcs", "command")
  <2>1. Always("gcs", "command") = <<>>
    BY DEF Always
  <2>2. QED
    BY <2>1, GcsConstant, NoConstant
<1>4. Known(<<"gcs", "heartbeat", "library">>, v, in)
  BY <1>1, <1>2, <1>3, GcsHeartbeatTable, ToolKnown
<1>5. Known(<<"sender", "heartbeat", "library">>, v, in)
  BY <1>1, <1>2, <1>3, GcsHeartbeatTable, ToolKnown
<1>6. Known(<<"gcs", "command", "library">>, v, in)
  BY <1>1, <1>2, <1>3, GcsCommandTable, GcsCommandForCommand, ToolKnown
<1>7. QED
  BY <1>3, <1>4, <1>5, <1>6

LEMMA BridgeKnown ==
    ASSUME NEW l \in BridgeLinks, NEW v, NEW in
    PROVE  Known(l, v, in) /\ Constant(l[1], l[2])
<1>1. /\ Deserializer("gcs", "heartbeat", in) = decode_heartbeat
      /\ Deserializer("gcs", "attitude", in) = decode_attitude
      /\ Deserializer("gcs", "gps_raw", in) = decode_gps
      /\ Deserializer("gcs", "command_ack", in) = decode_cmd_ack
  BY DEF Deserializer, Shown
<1>2. /\ Written["bridge"]["heartbeat"] = BridgeHeartbeat
      /\ Written["bridge"]["attitude"] = BridgeAttitude
      /\ Written["bridge"]["gps_raw"] = BridgePosition
      /\ Written["bridge"]["command_ack"] = BridgeAck
  BY DEF Written
<1>3. /\ Constant("bridge", "heartbeat") /\ Constant("bridge", "attitude")
      /\ Constant("bridge", "gps_raw") /\ Constant("bridge", "command_ack")
  <2>1. /\ Always("bridge", "attitude") = <<>> /\ Always("bridge", "gps_raw") = <<>>
        /\ Always("bridge", "command_ack") = <<>>
    BY DEF Always
  <2>2. QED
    BY <2>1, BridgeConstant, NoConstant
<1>4. Known(<<"bridge", "heartbeat", "gcs">>, v, in)
  BY <1>1, <1>2, <1>3, BridgeHeartbeatTable, BridgeHeartbeatForDecodeHeartbeat, ToolKnown
<1>5. Known(<<"bridge", "attitude", "gcs">>, v, in)
  BY <1>1, <1>2, <1>3, BridgeAttitudeTable, BridgeAttitudeForDecodeAttitude, ToolKnown
<1>6. Known(<<"bridge", "gps_raw", "gcs">>, v, in)
  BY <1>1, <1>2, <1>3, BridgePositionTable, BridgePositionForDecodeGps, ToolKnown
<1>7. Known(<<"bridge", "command_ack", "gcs">>, v, in)
  BY <1>1, <1>2, <1>3, BridgeAckTable, BridgeAckForDecodeCmdAck, ToolKnown
<1>8. l \in {<<"bridge", "heartbeat", "gcs">>, <<"bridge", "attitude", "gcs">>,
             <<"bridge", "gps_raw", "gcs">>, <<"bridge", "command_ack", "gcs">>}
  BY DEF BridgeLinks
<1>9. QED
  BY <1>3, <1>4, <1>5, <1>6, <1>7, <1>8

----
(***************************************************************************)
(* All messages that the programs of the repository send each other.       *)
(***************************************************************************)

LEMMA AllKnown ==
    ASSUME NEW l \in AllLinks, NEW v \in Structs(l[1], l[2])
    PROVE  /\ Constant(l[1], l[2]) /\ OwnRows(Rows(l[1], l[2]))
           /\ l[2] = "log_data" => /\ l = <<"library", "log_data", "library">>
                                   /\ v.count[1] \in 0 .. 255
           /\ \A in : (l[2] = "log_data" => in[7] = Clamped(v.count[1])) => Known(l, v, in)
<1> DEFINE Goal == /\ Constant(l[1], l[2]) /\ OwnRows(Rows(l[1], l[2]))
                   /\ l[2] = "log_data" => /\ l = <<"library", "log_data", "library">>
                                           /\ v.count[1] \in 0 .. 255
                   /\ \A in : (l[2] = "log_data" => in[7] = Clamped(v.count[1])) => Known(l, v, in)
<1>1. ASSUME \A in : Known(l, v, in) /\ Constant(l[1], l[2]), l[2] # "log_data"
      PROVE  Goal
  <2>1. OwnRows(Rows(l[1], l[2]))
    BY <1>1 DEF Known, Linked
  <2>2. QED
    BY <1>1, <2>1
<1>2. CASE \E m \in DOMAIN Serializers : l = <<"library", m, "library">>
  <2>1. PICK m \in DOMAIN Serializers : l = <<"library", m, "library">>
    BY <1>2
  <2>2. m # "log_data"
    BY DEF Serializers
  <2>3. QED
    BY <1>1, <2>1, <2>2, LibraryKnown
<1>3. CASE l = <<"library", "log_data", "library">>
  <2>1. Constant("library", "log_data")
    BY LogDataRows
  <2>2. OwnRows(Rows("library", "log_data"))
    <3>1. 0 \in 0 .. 255
      OBVIOUS
    <3>2. OwnRows(ks_deserialize_log_data(255).rows)
      BY <3>1, LogDataLink DEF Linked
    <3>3. QED
      BY <3>2, LogDataRows
  <2>3. v.count[1] \in 0 .. 255
    <3>1. v \in Structs("library", "log_data")
      BY <1>3
    <3>2. \A row \in Rows("library", "log_data") : row.as # "zero" =>
             /\ row.field \in DOMAIN v /\ v[row.field] \in ByteSeq
             /\ Len(v[row.field]) = SizeOf(row)
      BY <2>1, <2>2, <3>1, StructFields
    <3>3. Row(6, "count", 1, "clamped") \in Rows("library", "log_data")
      BY LogDataRows DEF ks_deserialize_log_data, Codec
    <3>4. v["count"] \in ByteSeq /\ Len(v["count"]) = 1
      BY <3>2, <3>3 DEF Row, SizeOf
    <3>5. 1 \in 1 .. Len(v["count"])
      BY <3>4
    <3>6. QED
      BY <3>4, <3>5, SeqBytes
  <2>4. \A in : in[7] = Clamped(v.count[1]) => Known(<<"library", "log_data", "library">>, v, in)
    BY <2>3, LogDataKnown
  <2>5. QED
    BY <1>3, <2>1, <2>2, <2>3, <2>4
<1>4. CASE l \in {<<"library", m, "gcs">> : m \in {"heartbeat", "attitude", "command_ack"}}
                    \cup {<<"library", "heartbeat", "listener">>}
  <2>1. l[2] # "log_data"
    BY <1>4
  <2>2. \A in : Known(l, v, in) /\ Constant(l[1], l[2])
    BY <1>4, ShownKnown
  <2>3. QED
    BY <1>1, <2>1, <2>2
<1>5. CASE l \in {<<"gcs", "heartbeat", "library">>, <<"gcs", "command", "library">>,
                  <<"sender", "heartbeat", "library">>}
  <2>1. l[2] # "log_data"
    BY <1>5
  <2>2. \A in : Known(l, v, in) /\ Constant(l[1], l[2])
    BY <1>5, WrittenKnown
  <2>3. QED
    BY <1>1, <2>1, <2>2
<1>6. CASE l \in BridgeLinks
  <2>1. l[2] # "log_data"
    BY <1>6 DEF BridgeLinks
  <2>2. \A in : Known(l, v, in) /\ Constant(l[1], l[2])
    BY <1>6, BridgeKnown
  <2>3. QED
    BY <1>1, <2>1, <2>2
<1>7. QED
  BY <1>2, <1>3, <1>4, <1>5, <1>6 DEF AllLinks, LibraryLinks, ToolLinks, Kinds

LEMMA AllWrite ==
    ASSUME NEW l \in AllLinks, NEW v \in Structs(l[1], l[2]),
           NEW bytes, bytes = Serialized(l[1], l[2], v)
    PROVE  Writes(Serializer(l[1], l[2], v), v, bytes)
<1>1. PICK in : in = [k \in 1 .. 7 |-> Clamped(v.count[1])]
  OBVIOUS
<1>2. in[7] = Clamped(v.count[1])
  BY <1>1
<1>3. Known(l, v, in)
  BY <1>2, AllKnown
<1>4. PICK codec : codec = Serializer(l[1], l[2], v)
  OBVIOUS
<1>5. Table(codec) /\ Fits(codec.rows, Rows(l[1], l[2]))
  BY <1>3, <1>4 DEF Known, Linked
<1>6. \A row \in codec.rows :
         row.size \in Nat /\ row.as \in {"bytes", "int32", "half", "clamped", "zero"}
  BY <1>5 DEF Table, Placing
<1>7. Constant(l[1], l[2]) /\ OwnRows(Rows(l[1], l[2]))
  BY AllKnown
<1>8. \A row \in codec.rows : Holds(row, v)
  BY <1>5, <1>6, <1>7, StructHolds
<1>9. /\ bytes \in ByteSeq /\ Len(bytes) = codec.returns
      /\ \A row \in codec.rows : \A k \in 1 .. row.size : bytes[row.at + k] = Put(row, v)[k]
  BY <1>4, <1>5, <1>8, SerializedBytes
<1>10. QED
  BY <1>4, <1>5, <1>8, <1>9 DEF Writes

LEMMA LogDataCount ==
    ASSUME NEW l \in AllLinks, NEW v \in Structs(l[1], l[2]),
           NEW bytes, bytes = Serialized(l[1], l[2], v), NEW in, Begins(in, bytes)
    PROVE  l[2] = "log_data" => in[7] = Clamped(v.count[1])
<1>1. SUFFICES ASSUME l[2] = "log_data" PROVE in[7] = Clamped(v.count[1])
  OBVIOUS
<1>2. l[1] = "library" /\ v.count[1] \in 0 .. 255
  BY <1>1, AllKnown
<1>3. PICK c \in 0 .. 255 : c = v.count[1]
  BY <1>2
<1>4. Serializer(l[1], l[2], v) = ks_serialize_log_data(c)
  BY <1>1, <1>2, <1>3, LogDataRows
<1>5. Writes(ks_serialize_log_data(c), v, bytes)
  BY <1>4, AllWrite
<1>6. PICK row : row = Row(6, "count", 1, "clamped")
  OBVIOUS
<1>7. row \in ks_serialize_log_data(c).rows /\ row.at = 6 /\ row.size = 1
  BY <1>6 DEF ks_serialize_log_data, Codec, Row
<1>8. bytes[7] = Put(row, v)[1]
  <2>1. 1 \in 1 .. row.size /\ row.at + 1 = 7
    BY <1>7
  <2>2. QED
    BY <1>5, <1>7, <2>1 DEF Writes
<1>9. Put(row, v) = <<Clamped(v.count[1])>>
  BY <1>6 DEF Put, Row
<1>10. Len(bytes) >= 7
  <2>1. ks_serialize_log_data(c).returns = 7 + Clamped(c) /\ Clamped(c) \in Nat
    BY <1>3 DEF ks_serialize_log_data, Codec, Clamped
  <2>2. QED
    BY <1>5, <2>1 DEF Writes
<1>11. in[7] = bytes[7]
  <2>1. Len(bytes) \in Nat
    BY <1>5, LenProperties DEF Writes, ByteSeq
  <2>2. 7 \in 1 .. Len(bytes)
    BY <1>10, <2>1
  <2>3. QED
    BY <2>2 DEF Begins
<1>12. in[7] = Clamped(v.count[1])
  BY <1>8, <1>9, <1>11
<1>13. QED
  BY <1>12

LEMMA AllRead ==
    ASSUME NEW l \in AllLinks, NEW v \in Structs(l[1], l[2]),
           NEW bytes, bytes = Serialized(l[1], l[2], v), NEW in, Begins(in, bytes)
    PROVE  Known(l, v, in)
BY LogDataCount, AllKnown

LEMMA PlainParticular ==
    ASSUME NEW codec, Plain(codec), NEW m, m # "log_data", NEW most
    PROVE  \A row \in codec.rows : Particular(m, most, row)
BY DEF Plain, Particular

LEMMA LogDataParticular ==
    ASSUME NEW c \in 0 .. 255
    PROVE  \A row \in ks_deserialize_log_data(Clamped(c)).rows :
               Particular("log_data", Clamped(c), row)
<1>1. PICK n \in 0 .. 90 : n = Clamped(c)
  BY DEF Clamped
<1>2. Clamped(n) = n
  BY DEF Clamped
<1>3. ks_deserialize_log_data(n).rows =
         {U16(0, "id"), U32(2, "offset"), Row(6, "count", 1, "clamped"), Mem(7, "data", n)}
  BY <1>2 DEF ks_deserialize_log_data, Codec
<1>4. \A row \in ks_deserialize_log_data(n).rows : Particular("log_data", n, row)
  BY <1>3 DEF Particular, U16, U32, Row, Mem
<1>5. QED
  BY <1>1, <1>4

CountIn(l, v, in) == l[2] = "log_data" => in[7] = Clamped(v.count[1])

LEMMA AllParticular ==
    ASSUME NEW l \in AllLinks, NEW v \in Structs(l[1], l[2]), NEW in,
           CountIn(l, v, in)
    PROVE  \A row \in Deserializer(l[3], l[2], in).rows :
               Particular(l[2], Clamped(v.count[1]), row)
<1>1. CASE l[2] = "log_data"
  <2>1. l[3] = "library" /\ v.count[1] \in 0 .. 255
    BY <1>1, AllKnown
  <2>2. PICK c \in 0 .. 255 : c = v.count[1]
    BY <2>1
  <2>3. Deserializer(l[3], l[2], in) = ks_deserialize_log_data(Clamped(c))
    BY <1>1, <2>1, <2>2, LogDataRows DEF CountIn
  <2>4. QED
    BY <1>1, <2>2, <2>3, LogDataParticular
<1>2. CASE l[2] # "log_data"
  <2>1. CASE l[3] = "library"
    <3>1. l[2] \in DOMAIN Serializers
      <4>1. CASE l \in LibraryLinks
        BY <1>2, <4>1 DEF LibraryLinks, Kinds
      <4>2. CASE l \notin LibraryLinks
        <5>1. l[2] \in {"heartbeat", "command"}
          BY <2>1, <4>2 DEF AllLinks, ToolLinks, BridgeLinks
        <5>2. QED
          BY <5>1 DEF Serializers
      <4>3. QED
        BY <4>1, <4>2
    <3>2. Plain(Deserializer(l[3], l[2], in))
      BY <2>1, <3>1, LibraryRows, LibraryCodecs
    <3>3. QED
      BY <1>2, <3>2, PlainParticular
  <2>2. CASE l[3] = "gcs"
    <3>1. l[2] \in {"heartbeat", "attitude", "gps_raw", "command_ack"}
      BY <2>2 DEF AllLinks, LibraryLinks, ToolLinks, BridgeLinks
    <3>2. Plain(Deserializer("gcs", l[2], in))
      <4>1. /\ Deserializer("gcs", "heartbeat", in) = decode_heartbeat
            /\ Deserializer("gcs", "attitude", in) = decode_attitude
            /\ Deserializer("gcs", "gps_raw", in) = decode_gps
            /\ Deserializer("gcs", "command_ack", in) = decode_cmd_ack
        BY DEF Deserializer, Shown
      <4>2. QED
        BY <3>1, <4>1, DecodeHeartbeatPlain, DecodeAttitudePlain, DecodeGpsPlain, DecodeCmdAckPlain
    <3>3. QED
      BY <1>2, <2>2, <3>2, PlainParticular
  <2>3. CASE l[3] = "listener"
    <3>1. l[2] = "heartbeat"
      BY <2>3 DEF AllLinks, LibraryLinks, ToolLinks, BridgeLinks
    <3>2. Deserializer("listener", "heartbeat", in) = ListenerHeartbeat
      BY DEF Deserializer, Shown
    <3>3. QED
      BY <1>2, <2>3, <3>1, <3>2, ListenerHeartbeatPlain, PlainParticular
  <2>4. l[3] \in {"library", "gcs", "listener"}
    BY DEF AllLinks, LibraryLinks, ToolLinks, BridgeLinks
  <2>5. QED
    BY <2>1, <2>2, <2>3, <2>4
<1>3. QED
  BY <1>1, <1>2

(* A row that takes what the writer put there.                             *)
LEMMA CarriedArrives ==
    ASSUME NEW m, NEW row, Particular(m, Clamped(sent.count[1]), row),
           row.field \in Rates <=> row.as = "half",
           row.field = "zero" <=> row.as = "zero",
           row.as \in {"bytes", "int32", "half", "clamped", "zero", "string"},
           NEW r, Partner(r, row), Holds(r, sent), r.size \in Nat,
           r.as \in {"bytes", "int32", "half", "clamped", "zero"},
           NEW z, Carries(row, sent, z), IntBits = 32
    PROVE  IF row.field \in DOMAIN sent THEN FieldArrives(m, row.field, sent[row.field], z)
           ELSE \A k \in DOMAIN z : z[k] = 0
<1>1. PICK x : x = sent[row.field]
  OBVIOUS
<1>2. row.as # "string" => row.as = r.as /\ row.size = r.size
  BY DEF Partner
<1>3. row.as = "string" => r.as = "bytes"
  BY DEF Partner
<1>4. row.field = r.field
  BY DEF Partner
<1>5. CASE row.as = "zero"
  <2>1. z = <<0>>
    BY <1>5 DEF Carries
  <2>2. FieldArrives(m, row.field, x, z)
    BY <1>5, <2>1 DEF FieldArrives, Rates
  <2>3. \A k \in DOMAIN z : z[k] = 0
    BY <2>1
  <2>4. QED
    BY <1>1, <2>2, <2>3
<1>6. ASSUME row.as # "zero" PROVE row.field \in DOMAIN sent
  BY <1>2, <1>3, <1>4, <1>6 DEF Holds
<1>7. CASE row.as = "half"
  <2>1. x \in ByteSeq /\ Len(x) = 4
    BY <1>1, <1>2, <1>4, <1>7 DEF Holds
  <2>2. x \in FloatBytes
    BY <2>1, SeqBytes
  <2>3. z = half_to_float(float_to_half(x))
    BY <1>1, <1>7 DEF Carries
  <2>4. RateArrives(x, z)
    BY <2>2, <2>3, RatesArrive
  <2>5. FieldArrives(m, row.field, x, z)
    BY <1>7, <2>4 DEF FieldArrives, Rates
  <2>6. QED
    BY <1>1, <1>6, <1>7, <2>5
<1>8. CASE row.as = "clamped"
  <2>1. z = <<Clamped(x[1])>>
    BY <1>1, <1>8 DEF Carries
  <2>2. m = "log_data" /\ row.field = "count"
    BY <1>8 DEF Particular
  <2>3. FieldArrives(m, row.field, x, z)
    BY <2>1, <2>2 DEF FieldArrives, Rates
  <2>4. QED
    BY <1>1, <1>6, <1>8, <2>3
<1>9. CASE row.as = "string"
  <2>1. z = Append(SubSeq(x, 1, row.size), 0)
    BY <1>1, <1>9 DEF Carries
  <2>2. /\ row.field \in {"param_id", "text"}
        /\ row.field = "param_id" => row.size = 15
        /\ row.field = "text" => row.size = 49
    BY <1>9 DEF Particular
  <2>3. FieldArrives(m, row.field, x, z)
    BY <2>1, <2>2 DEF FieldArrives, Rates
  <2>4. QED
    BY <1>1, <1>6, <1>9, <2>3
<1>10. CASE row.as \in {"bytes", "int32"}
  <2>1. z = SubSeq(x, 1, row.size)
    BY <1>1, <1>10 DEF Carries
  <2>2. row.field \notin Rates /\ row.field # "zero" /\ row.field \notin {"param_id", "text"}
    BY <1>10 DEF Particular
  <2>3. ~(m = "log_data" /\ row.field = "count")
    BY <1>10 DEF Particular
  <2>4. CASE row.field = "data"
    <3>1. m = "log_data" /\ row.size = Clamped(sent.count[1])
      BY <2>4 DEF Particular
    <3>2. FieldArrives(m, row.field, x, z)
      BY <2>1, <2>4, <3>1 DEF FieldArrives, Rates
    <3>3. QED
      BY <1>1, <1>6, <1>10, <3>2
  <2>5. CASE row.field # "data"
    <3>1. x \in ByteSeq /\ Len(x) = row.size /\ row.size \in Nat
      BY <1>1, <1>2, <1>4, <1>10, <2>2, <2>5 DEF Holds
    <3>2. z = x
      BY <2>1, <3>1, FirstBytes
    <3>3. FieldArrives(m, row.field, x, z)
      BY <2>2, <2>3, <2>5, <3>2 DEF FieldArrives
    <3>4. QED
      BY <1>1, <1>6, <1>10, <3>3
  <2>6. QED
    BY <2>4, <2>5
<1>11. QED
  BY <1>5, <1>7, <1>8, <1>9, <1>10

(* Every field of what is read is made of bytes and, where int has 32      *)
(* bits, is the writer's or zero.                                          *)
LEMMA AllArrive ==
    ASSUME NEW l \in AllLinks, NEW v \in Structs(l[1], l[2]), v = sent,
           NEW bytes, bytes = Serialized(l[1], l[2], v), NEW in, Begins(in, bytes),
           NEW upper \in {0, 255}, NEW y, y = Deserialized(l[3], l[2], in, upper)
    PROVE  /\ DOMAIN y = Fields(Deserializer(l[3], l[2], in).rows)
           /\ \A field \in DOMAIN y :
                 /\ y[field] \in ByteSeq
                 /\ IntBits = 32 =>
                       IF field \in DOMAIN v THEN FieldArrives(l[2], field, v[field], y[field])
                       ELSE \A k \in DOMAIN y[field] : y[field][k] = 0
<1>1. PICK written, read : written = Serializer(l[1], l[2], v) /\ read = Deserializer(l[3], l[2], in)
  OBVIOUS
<1>2. Linked(written, Rows(l[1], l[2]), read)
  BY <1>1, AllRead DEF Known
<1>3. Writes(written, v, bytes)
  BY <1>1, AllWrite
<1>4. y = [field \in Fields(read.rows) |-> Take(RowOf(read.rows, field), in, upper)]
  BY <1>1 DEF Deserialized
<1>5. ASSUME NEW field \in DOMAIN y
      PROVE  /\ y[field] \in ByteSeq
             /\ IntBits = 32 =>
                   IF field \in DOMAIN v THEN FieldArrives(l[2], field, v[field], y[field])
                   ELSE \A k \in DOMAIN y[field] : y[field][k] = 0
  <2>1. field \in Fields(read.rows)
    BY <1>4
  <2>2. PICK row : row = RowOf(read.rows, field)
    OBVIOUS
  <2>3. row \in read.rows /\ row.field = field
    BY <2>1, <2>2 DEF RowOf, Fields
  <2>4. PICK z : z = Take(row, in, upper)
    OBVIOUS
  <2>5. y[field] = z
    BY <1>4, <2>1, <2>2, <2>4
  <2>6. /\ z \in ByteSeq
        /\ \/ Carries(row, v, z) /\ Fed(written.rows, row)
           \/ Blank(written.rows, row) /\ \A k \in DOMAIN z : z[k] = 0
    BY <1>2, <1>3, <2>3, <2>4, Taken DEF Linked
  <2>7. ASSUME IntBits = 32
        PROVE  IF field \in DOMAIN v THEN FieldArrives(l[2], field, v[field], z)
               ELSE \A k \in DOMAIN z : z[k] = 0
    <3>1. CASE Carries(row, v, z) /\ Fed(written.rows, row)
      <4>1. PICK r \in written.rows : Partner(r, row)
        BY <3>1 DEF Fed
      <4>2. /\ Holds(r, v) /\ r.size \in Nat
            /\ r.as \in {"bytes", "int32", "half", "clamped", "zero"}
        BY <1>3 DEF Writes, Table, Placing
      <4>3. /\ row.field \in Rates <=> row.as = "half"
            /\ row.field = "zero" <=> row.as = "zero"
            /\ row.as \in {"bytes", "int32", "half", "clamped", "zero", "string"}
        BY <1>2, <2>3 DEF Linked, Answers, Placing, Naming
      <4>4. Particular(l[2], Clamped(sent.count[1]), row)
        <5>1. CountIn(l, v, in)
          BY LogDataCount DEF CountIn
        <5>2. \A a \in Deserializer(l[3], l[2], in).rows :
                 Particular(l[2], Clamped(v.count[1]), a)
          BY <5>1, AllParticular
        <5>3. QED
          BY <1>1, <2>3, <5>2
      <4>5. QED
        BY <2>3, <2>7, <3>1, <4>1, <4>2, <4>3, <4>4, CarriedArrives
    <3>2. CASE Blank(written.rows, row) /\ \A k \in DOMAIN z : z[k] = 0
      <4>1. field \notin Fields(written.rows)
        BY <2>3, <3>2 DEF Blank, Fields
      <4>2. DOMAIN v = Fields(Rows(l[1], l[2]))
        BY AllKnown, StructFields
      <4>3. field \notin DOMAIN v
        BY <1>2, <4>1, <4>2 DEF Linked
      <4>4. QED
        BY <3>2, <4>3
    <3>3. QED
      BY <2>6, <3>1, <3>2
  <2>8. QED
    BY <2>5, <2>6, <2>7
<1>6. QED
  BY <1>1, <1>4, <1>5

----
(***************************************************************************)
(* Packets: body, checksum and payload.                                    *)
(***************************************************************************)

(* The packet's parts, ...                                                 *)
Body(id, bytes) ==
    <<BitSet(16 + id \div 256), BitSet(id % 256)>> \o [k \in 1 .. Len(bytes) |-> BitSet(bytes[k])]

(* bytes are n bytes; body is made of them and a message number.           *)
Sized(bytes, n) == bytes \in ByteSeq /\ n \in Nat /\ Len(bytes) = n
IsBody(body, id, bytes) == body = Body(id, bytes)
IsSealed(packet, w, m, bytes) == packet = Sealed(w, m, bytes)

(* s is a sequence over S of length a; joined is s and then t.             *)
Long(s, S, a) == s \in Seq(S) /\ Len(s) = a
JoinOf(joined, s, a, t, b) ==
    /\ \A i \in 1 .. a : joined[i] = s[i]
    /\ \A i \in 1 .. b : joined[a + i] = t[i]

LEMMA Joined ==
    ASSUME NEW S, NEW s, NEW t, NEW a \in Nat, NEW b \in Nat, Long(s, S, a), Long(t, S, b)
    PROVE  Long(s \o t, S, a + b) /\ JoinOf(s \o t, s, a, t, b)
<1>1. /\ s \o t \in Seq(S) /\ Len(s \o t) = Len(s) + Len(t)
      /\ \A i \in 1 .. Len(s) + Len(t) :
             (s \o t)[i] = IF i <= Len(s) THEN s[i] ELSE t[i - Len(s)]
  BY ConcatProperties DEF Long
<1>2. ASSUME NEW i \in 1 .. a PROVE (s \o t)[i] = s[i]
  <2>1. i \in 1 .. a + b /\ i <= a
    OBVIOUS
  <2>2. QED
    BY <1>1, <2>1 DEF Long
<1>3. ASSUME NEW i \in 1 .. b PROVE (s \o t)[a + i] = t[i]
  <2>1. a + i \in 1 .. a + b /\ ~(a + i <= a) /\ (a + i) - a = i
    OBVIOUS
  <2>2. (s \o t)[a + i] = t[(a + i) - a]
    BY <1>1, <2>1 DEF Long
  <2>3. QED
    BY <2>1, <2>2
<1>4. QED
  BY <1>1, <1>2, <1>3 DEF Long, JoinOf

(* The bits of a body of n bytes, and its message number.                  *)
BodyAs(body, id, bytes, n) ==
    /\ Long(body, ByteBits, n + 2)
    /\ body[1] = BitSet(16) /\ body[2] = BitSet(id)
    /\ \A k \in 1 .. n : body[k + 2] = BitSet(bytes[k])

LEMMA BodyBytes ==
    ASSUME NEW id \in 0 .. 255, NEW bytes, NEW n \in Nat, Sized(bytes, n), NEW body, IsBody(body, id, bytes)
    PROVE  BodyAs(body, id, bytes, n)
<1>1. n \in Nat /\ Len(bytes) = n /\ \A k \in 1 .. n : bytes[k] \in 0 .. 255
  BY SeqBytes DEF Sized
<1>2. 16 + id \div 256 = 16 /\ id % 256 = id
  OBVIOUS
<1>3. BitSet(16) \in ByteBits /\ BitSet(id) \in ByteBits
  BY BitSetType
<1>4. PICK front, rest : front = <<BitSet(16), BitSet(id)>> /\ rest = [k \in 1 .. n |-> BitSet(bytes[k])]
  OBVIOUS
<1>5. front \in Seq(ByteBits) /\ Len(front) = 2 /\ front[1] = BitSet(16) /\ front[2] = BitSet(id)
  BY <1>3, <1>4
<1>6. rest \in Seq(ByteBits) /\ Len(rest) = n
  <2>1. \A k \in 1 .. n : BitSet(bytes[k]) \in ByteBits
    BY <1>1, BitSetType
  <2>2. rest \in [1 .. n -> ByteBits]
    BY <1>4, <2>1
  <2>3. QED
    BY <1>1, <2>2, SeqOfLength
<1>7. body = front \o rest
  BY <1>1, <1>2, <1>4 DEF Body, IsBody
<1>8. /\ Long(body, ByteBits, 2 + n)
      /\ \A i \in 1 .. 2 : body[i] = front[i]
      /\ \A i \in 1 .. n : body[2 + i] = rest[i]
  <2>1. Long(front, ByteBits, 2) /\ Long(rest, ByteBits, n)
    BY <1>5, <1>6 DEF Long
  <2>2. 2 \in Nat
    OBVIOUS
  <2>3. Long(front \o rest, ByteBits, 2 + n) /\ JoinOf(front \o rest, front, 2, rest, n)
    BY <2>1, <2>2, Joined
  <2>4. QED
    BY <1>7, <2>3 DEF JoinOf
<1>9. body[1] = BitSet(16) /\ body[2] = BitSet(id)
  <2>1. 1 \in 1 .. 2 /\ 2 \in 1 .. 2
    OBVIOUS
  <2>2. QED
    BY <1>5, <1>8, <2>1
<1>10. ASSUME NEW k \in 1 .. n PROVE body[k + 2] = BitSet(bytes[k])
  <2>1. k + 2 = 2 + k
    OBVIOUS
  <2>2. QED
    BY <1>4, <1>8, <2>1
<1>11. 2 + n = n + 2
  BY <1>1
<1>12. QED
  BY <1>8, <1>9, <1>10, <1>11 DEF BodyAs

(* ... and the packet.                                                     *)
SealedAs(packet, n, body, crc) ==
    /\ packet \in Seq(ByteBits) /\ Len(packet) = n + 4 /\ crc \in CrcBits
    /\ \A k \in 1 .. n + 2 : packet[k] = body[k]
    /\ packet[n + 3] = crc \cap 0 .. 7 /\ packet[n + 4] = Shifted(crc, -8)

LEMMA SealedBytes ==
    ASSUME NEW w \in Programs, NEW m \in DOMAIN MsgId, NEW id \in 0 .. 255, id = MsgId[m],
           NEW bytes, NEW n \in Nat, Sized(bytes, n), NEW packet, IsSealed(packet, w, m, bytes),
           NEW body, IsBody(body, id, bytes)
    PROVE  SealedAs(packet, n, body, Checksum(body, Seed(w, id)))
<1>1. n \in Nat /\ Len(bytes) = n
  BY DEF Sized
<1>2. Long(body, ByteBits, n + 2)
  <2>1. BodyAs(body, id, bytes, n)
    BY BodyBytes
  <2>2. QED
    BY <2>1 DEF BodyAs
<1>3. PICK crc : crc = Checksum(body, Seed(w, id))
  OBVIOUS
<1>4. crc \in CrcBits
  <2>1. id \in Nat
    OBVIOUS
  <2>2. Seed(w, id) \in 0 .. 255
    BY <2>1, SeedType
  <2>3. QED
    BY <1>2, <1>3, <2>2, ChecksumType DEF Long
<1>5. PICK low \in ByteBits, high \in ByteBits : low = crc \cap 0 .. 7 /\ high = Shifted(crc, -8)
  BY <1>4, Halved
<1>6. PICK tail : tail = <<low, high>>
  OBVIOUS
<1>7. tail \in Seq(ByteBits) /\ Len(tail) = 2 /\ tail[1] = low /\ tail[2] = high
  BY <1>6
<1>8. packet = body \o tail
  <2>1. Sealed(w, m, bytes) = Body(id, bytes) \o <<Checksum(Body(id, bytes), Seed(w, id)) \cap 0 .. 7,
                                                  Shifted(Checksum(Body(id, bytes), Seed(w, id)), -8)>>
    BY DEF Sealed, Body
  <2>2. QED
    BY <1>5, <1>6, <1>3, <2>1 DEF IsSealed, IsBody
<1>9. /\ Long(packet, ByteBits, (n + 2) + 2)
      /\ \A i \in 1 .. n + 2 : packet[i] = body[i]
      /\ \A i \in 1 .. 2 : packet[(n + 2) + i] = tail[i]
  <2>1. 2 \in Nat /\ n + 2 \in Nat
    BY <1>1
  <2>2. Long(tail, ByteBits, 2)
    BY <1>7 DEF Long
  <2>3. Long(body \o tail, ByteBits, (n + 2) + 2) /\ JoinOf(body \o tail, body, n + 2, tail, 2)
    BY <1>2, <2>1, <2>2, Joined
  <2>4. QED
    BY <1>8, <2>3 DEF JoinOf
<1>10. packet[n + 3] = low /\ packet[n + 4] = high
  <2>1. 1 \in 1 .. 2 /\ 2 \in 1 .. 2 /\ (n + 2) + 1 = n + 3 /\ (n + 2) + 2 = n + 4
    BY <1>1
  <2>2. packet[(n + 2) + 1] = tail[1] /\ packet[(n + 2) + 2] = tail[2]
    BY <1>9, <2>1
  <2>3. QED
    BY <1>7, <2>1, <2>2
<1>11. (n + 2) + 2 = n + 4
  BY <1>1
<1>12. QED
  BY <1>4, <1>5, <1>9, <1>10, <1>11, <1>3 DEF SealedAs, Long

LEMMA MessageNumbers ==
    ASSUME NEW m \in DOMAIN MsgId
    PROVE  MsgId[m] \in 0 .. 255
BY DEF MsgId

(* A packet that came as it was sent passes where writer and reader have   *)
(* the same seed for it, and its payload is the message's.                 *)
LEMMA SealedPasses ==
    ASSUME NEW w \in Programs, NEW r \in Programs, NEW m \in DOMAIN MsgId,
           Seed(w, MsgId[m]) = Seed(r, MsgId[m]), NEW bytes, NEW n \in Nat, Sized(bytes, n),
           NEW packet, IsSealed(packet, w, m, bytes)
    PROVE  CrcMatches(r, packet)
<1>1. PICK id \in 0 .. 255 : id = MsgId[m]
  BY MessageNumbers
<1>2. n \in Nat /\ Len(bytes) = n /\ bytes \in ByteSeq
  BY DEF Sized
<1>3. PICK body : IsBody(body, id, bytes)
  BY DEF IsBody
<1>4. PICK crc : crc = Checksum(body, Seed(w, id))
  OBVIOUS
<1>5. /\ body \in Seq(ByteBits) /\ Len(body) = n + 2
      /\ body[1] = BitSet(16) /\ body[2] = BitSet(id)
  <2>1. BodyAs(body, id, bytes, n)
    BY <1>3, BodyBytes
  <2>2. QED
    BY <2>1 DEF BodyAs, Long
<1>6. /\ packet \in Seq(ByteBits) /\ Len(packet) = n + 4
      /\ \A k \in 1 .. n + 2 : packet[k] = body[k]
      /\ packet[n + 3] = crc \cap 0 .. 7
      /\ packet[n + 4] = Shifted(crc, -8)
      /\ crc \in CrcBits
  <2>1. SealedAs(packet, n, body, crc)
    BY <1>1, <1>3, <1>4, SealedBytes
  <2>2. QED
    BY <2>1 DEF SealedAs
<1>7. PICK i : i = 256 * (Number(packet[1]) % 16) + Number(packet[2])
  OBVIOUS
<1>8. i = id
  <2>1. packet[1] = BitSet(16) /\ packet[2] = BitSet(id)
    <3>1. 1 \in 1 .. n + 2 /\ 2 \in 1 .. n + 2
      BY <1>2
    <3>2. QED
      BY <1>5, <1>6, <3>1
  <2>2. Number(BitSet(16)) = 16 /\ Number(BitSet(id)) = id
    BY NumberOfBits
  <2>3. 256 * (16 % 16) + id = id
    OBVIOUS
  <2>4. QED
    BY <1>7, <2>1, <2>2, <2>3
<1>9. SubSeq(packet, 1, n + 2) = body
  <2>1. n + 2 \in Int
    BY <1>2
  <2>2. PICK j \in Int : j = n + 2
    BY <2>1
  <2>3. PICK part : part = SubSeq(packet, 1, j)
    OBVIOUS
  <2>4. \A k \in 1 .. j : packet[k] \in ByteBits
    BY <1>5, <1>6, <2>2, ElementOfSeq
  <2>5. part \in Seq(ByteBits) /\ Len(part) = n + 2 /\ \A k \in 1 .. n + 2 : part[k] = packet[k]
    BY <1>2, <2>3, <2>4, <2>2, SubSeqProperties
  <2>6. part = body
    BY <1>5, <1>6, <2>5, SeqEqual
  <2>7. QED
    BY <2>3, <2>6, <2>2
<1>10. crc = (crc \cap 0 .. 7) \cup Shifted(Shifted(crc, -8), 8)
  BY <1>6, Halved
<1>11. Len(packet) - 2 = n + 2 /\ Len(packet) - 1 = n + 3 /\ Len(packet) = n + 4
  BY <1>6
<1>12. Checksum(SubSeq(packet, 1, Len(packet) - 2), Seed(r, i)) = crc
  BY <1>1, <1>8, <1>9, <1>11, <1>4
<1>13. packet[Len(packet) - 1] \cup Shifted(packet[Len(packet)], 8) = crc
  BY <1>6, <1>10, <1>11
<1>14. QED
  BY <1>7, <1>12, <1>13 DEF CrcMatches

SamePayload(faulty, packet, n) ==
    Len(faulty) = Len(packet) /\ \A k \in 3 .. n + 2 : faulty[k] = packet[k]

LEMMA PayloadSame ==
    ASSUME NEW w \in Programs, NEW m \in DOMAIN MsgId, NEW bytes, NEW n \in Nat, Sized(bytes, n),
           NEW packet, IsSealed(packet, w, m, bytes),
           NEW faulty, SamePayload(faulty, packet, n)
    PROVE  PayloadOf(faulty) = bytes
<1>1. PICK id \in 0 .. 255 : id = MsgId[m]
  BY MessageNumbers
<1>2. n \in Nat /\ Len(bytes) = n /\ bytes \in ByteSeq
  BY DEF Sized
<1>3. PICK body : IsBody(body, id, bytes)
  BY DEF IsBody
<1>4. \A k \in 1 .. n : body[k + 2] = BitSet(bytes[k])
  <2>1. BodyAs(body, id, bytes, n)
    BY <1>3, BodyBytes
  <2>2. QED
    BY <2>1 DEF BodyAs
<1>5. Len(packet) = n + 4 /\ \A k \in 1 .. n + 2 : packet[k] = body[k]
  <2>1. SealedAs(packet, n, body, Checksum(body, Seed(w, id)))
    BY <1>1, <1>3, SealedBytes
  <2>2. QED
    BY <2>1 DEF SealedAs
<1>6. ASSUME NEW k \in 1 .. n PROVE Number(faulty[k + 2]) = bytes[k]
  <2>1. k + 2 \in 3 .. n + 2 /\ k + 2 \in 1 .. n + 2
    BY <1>2
  <2>2. faulty[k + 2] = BitSet(bytes[k])
    BY <1>4, <1>5, <2>1 DEF SamePayload
  <2>3. bytes[k] \in 0 .. 256
    <3>1. bytes[k] \in 0 .. 255
      BY <1>2, SeqBytes
    <3>2. QED
      BY <3>1
  <2>4. PICK b \in 0 .. 256 : b = bytes[k]
    BY <2>3
  <2>5. Number(BitSet(b)) = b
    BY NumberOfBits
  <2>6. QED
    BY <2>2, <2>4, <2>5
<1>7. PayloadOf(faulty) = [k \in 1 .. n |-> Number(faulty[k + 2])]
  <2>1. Len(faulty) - 4 = n
    BY <1>2, <1>5 DEF SamePayload
  <2>2. QED
    BY <2>1 DEF PayloadOf
<1>8. bytes = [k \in 1 .. n |-> bytes[k]]
  <2>1. bytes \in Seq(0 .. 255)
    BY <1>2 DEF ByteSeq
  <2>2. bytes \in [1 .. Len(bytes) -> 0 .. 255]
    BY <2>1, LenProperties
  <2>3. QED
    BY <1>2, <2>2
<1>9. QED
  BY <1>6, <1>7, <1>8

(* The table of a reader finds what it reads in so many bytes.             *)
Enough(read, bytes) ==
    Placing(read) /\ bytes \in ByteSeq /\ read.returns =< Len(bytes)

LEMMA TakenBytes ==
    ASSUME NEW read, NEW bytes, Enough(read, bytes), NEW row \in read.rows,
           NEW in, Begins(in, bytes), NEW upper \in {0, 255}, NEW y, y = Take(row, in, upper)
    PROVE  y \in ByteSeq
<1>1. /\ row.at \in Nat /\ row.size \in Nat /\ row.at + row.size =< read.returns
      /\ row.as \in {"bytes", "int32", "half", "clamped", "zero", "string"}
      /\ row.as = "half" => row.size = 2
      /\ row.as = "int32" => row.size = 4
      /\ row.as = "clamped" => row.size = 1
  BY DEF Enough, Placing
<1>2. bytes \in ByteSeq /\ row.at + row.size =< Len(bytes)
  <2>1. read.returns \in Nat /\ read.returns =< Len(bytes) /\ Len(bytes) \in Nat
    BY LenProperties DEF Enough, Placing, ByteSeq
  <2>2. QED
    BY <1>1, <2>1 DEF Enough
<1>3. PICK cut : CutFrom(in, row, cut)
  BY DEF CutFrom
<1>4. Piece(bytes, row, cut)
  BY <1>1, <1>2, <1>3, CutOut
<1>5. Reads(row, cut, upper, y)
  BY <1>3, <1>4, TakeOf
<1>6. QED
  BY <1>1, <1>4, <1>5, TakeType

LEMMA ReadBytes ==
    ASSUME NEW r, NEW m, NEW in, NEW bytes, Enough(Deserializer(r, m, in), bytes),
           Begins(in, bytes), NEW upper \in {0, 255}, NEW y, y = Deserialized(r, m, in, upper)
    PROVE  \A field \in DOMAIN y : y[field] \in ByteSeq
<1>1. PICK read : read = Deserializer(r, m, in)
  OBVIOUS
<1>2. y = [field \in Fields(read.rows) |-> Take(RowOf(read.rows, field), in, upper)]
  BY <1>1 DEF Deserialized
<1>3. ASSUME NEW field \in DOMAIN y PROVE y[field] \in ByteSeq
  <2>1. field \in Fields(read.rows)
    BY <1>2
  <2>2. PICK row : row = RowOf(read.rows, field)
    OBVIOUS
  <2>3. row \in read.rows
    BY <2>1, <2>2 DEF RowOf, Fields
  <2>4. PICK z : z = Take(row, in, upper)
    OBVIOUS
  <2>5. z \in ByteSeq
    BY <1>1, <2>3, <2>4, TakenBytes
  <2>6. y[field] = z
    BY <1>2, <2>1, <2>2, <2>4
  <2>7. QED
    BY <2>5, <2>6
<1>4. QED
  BY <1>3

(* Whoever sends a message to whom in the repository, they have the same   *)
(* seed for it.                                                            *)
LEMMA SameSeed ==
    ASSUME NEW l \in AllLinks
    PROVE  /\ l[1] \in Programs /\ l[3] \in Programs /\ l[2] \in DOMAIN MsgId
           /\ Seed(l[1], MsgId[l[2]]) = Seed(l[3], MsgId[l[2]])
<1>1. CASE l \in LibraryLinks
  <2>1. PICK m \in Kinds : l = <<"library", m, "library">>
    BY <1>1 DEF LibraryLinks
  <2>2. m \in DOMAIN MsgId
    BY DEF Kinds, Serializers, MsgId
  <2>3. QED
    BY <2>1, <2>2 DEF Programs
<1>2. CASE l \in ToolLinks \cup BridgeLinks
  <2>1. /\ MsgId.heartbeat = 1 /\ MsgId.attitude = 2 /\ MsgId.gps_raw = 3
        /\ MsgId.command = 6 /\ MsgId.command_ack = 7
        /\ {"heartbeat", "attitude", "gps_raw", "command", "command_ack"} \subseteq DOMAIN MsgId
    BY DEF MsgId
  <2>2. \A id \in 1 .. 7 : /\ ks_get_crc_seed(id) = ks_crc_seed_table[id + 1]
                          /\ get_crc_seed(id) = ks_crc_seed_table[id + 1]
                          /\ CRC_SEEDS(id) = ks_crc_seed_table[id + 1]
    BY DEF ks_get_crc_seed, get_crc_seed, CRC_SEEDS
  <2>3. \A id \in 1 .. 7, p \in Programs : Seed(p, id) = ks_crc_seed_table[id + 1]
    BY <2>2 DEF Seed, Programs
  <2>4. /\ l[1] \in Programs /\ l[3] \in Programs
        /\ l[2] \in {"heartbeat", "attitude", "gps_raw", "command", "command_ack"}
    BY <1>2 DEF ToolLinks, BridgeLinks, Programs
  <2>5. l[2] \in DOMAIN MsgId /\ MsgId[l[2]] \in 1 .. 7
    BY <2>1, <2>4
  <2>6. QED
    BY <2>3, <2>4, <2>5
<1>3. QED
  BY <1>1, <1>2 DEF AllLinks

LEMMA NotInverted ==
    ASSUME NEW packet \in Seq(ByteBits)
    PROVE  Inverted(packet, {}) = packet
<1>1. \A k \in DOMAIN packet : SymDiff(packet[k], {i \in 0 .. 7 : 8 * (k - 1) + i \in {}}) = packet[k]
  BY DEF SymDiff
<1>2. packet = [k \in DOMAIN packet |-> packet[k]]
  <2>1. packet \in [1 .. Len(packet) -> ByteBits] /\ DOMAIN packet = 1 .. Len(packet)
    BY LenProperties
  <2>2. QED
    BY <2>1
<1>3. QED
  BY <1>1, <1>2 DEF Inverted

(* A bit of the message number is none of the payload.                     *)
LEMMA NumberInverted ==
    ASSUME NEW packet \in Seq(ByteBits), NEW bit \in 0 .. 15, NEW n \in Nat,
           Len(packet) = n + 4, NEW faulty, faulty = Inverted(packet, {bit})
    PROVE  SamePayload(faulty, packet, n)
<1>1. Len(packet) \in Nat /\ DOMAIN packet = 1 .. Len(packet)
  BY LenProperties
<1>2. faulty = [k \in 1 .. n + 4 |-> SymDiff(packet[k], {i \in 0 .. 7 : 8 * (k - 1) + i \in {bit}})]
  BY <1>1 DEF Inverted
<1>3. ASSUME NEW k \in 3 .. n + 2 PROVE faulty[k] = packet[k]
  <2>1. {i \in 0 .. 7 : 8 * (k - 1) + i \in {bit}} = {}
    OBVIOUS
  <2>2. k \in 1 .. n + 4
    OBVIOUS
  <2>3. faulty[k] = SymDiff(packet[k], {})
    BY <1>2, <2>1, <2>2
  <2>4. SymDiff(packet[k], {}) = packet[k]
    BY DEF SymDiff
  <2>5. QED
    BY <2>3, <2>4
<1>4. Len(faulty) = n + 4
  BY <1>2
<1>5. QED
  BY <1>3, <1>4 DEF SamePayload

(* A fault that Damage can cause: a bit of the message number, or several  *)
(* behind it.                                                              *)
BehindNumber(packet, bits) ==
    /\ bits # {} /\ bits \subseteq 16 .. 8 * Len(packet) - 1
    /\ \E first \in 16 .. 8 * Len(packet) - 1 :
          /\ \A bit \in bits : first =< bit
          /\ \/ \A bit \in bits : bit =< first + 12
             \/ \A bit \in bits : bit =< first + 15 /\ bit < 8 * (Len(packet) - 2)

Fault(packet, bits) ==
    \/ bits = {}
    \/ \E bit \in 0 .. 15 : bits = {bit}
    \/ BehindNumber(packet, bits)

(* Of a packet sent along a link of the repository, a reader accepts the   *)
(* whole payload as it was written or nothing.                             *)
LEMMA PayloadAccepted ==
    ASSUME NEW l \in AllLinks, NEW bytes \in ByteSeq, NEW packet,
           IsSealed(packet, l[1], l[2], bytes),
           NEW bits, Fault(packet, bits), NEW faulty, faulty = Inverted(packet, bits)
    PROVE  /\ bits = {} => CrcMatches(l[3], faulty)
           /\ BehindNumber(packet, bits) => ~CrcMatches(l[3], faulty)
           /\ CrcMatches(l[3], faulty) => PayloadOf(faulty) = bytes
<1>1. /\ l[1] \in Programs /\ l[3] \in Programs /\ l[2] \in DOMAIN MsgId
      /\ Seed(l[1], MsgId[l[2]]) = Seed(l[3], MsgId[l[2]])
  BY SameSeed
<1>2. PICK w \in Programs, r \in Programs, m \in DOMAIN MsgId : w = l[1] /\ r = l[3] /\ m = l[2]
  BY <1>1
<1>3. PICK n \in Nat : Sized(bytes, n)
  <2>1. Len(bytes) \in Nat
    BY LenProperties DEF ByteSeq
  <2>2. QED
    BY <2>1 DEF Sized
<1>4. IsSealed(packet, w, m, bytes)
  BY <1>2
<1>5. packet \in Seq(ByteBits) /\ Len(packet) = n + 4
  <2>1. PICK id \in 0 .. 255 : id = MsgId[m]
    BY MessageNumbers
  <2>2. PICK body : IsBody(body, id, bytes)
    BY DEF IsBody
  <2>3. SealedAs(packet, n, body, Checksum(body, Seed(w, id)))
    BY <1>3, <1>4, <2>1, <2>2, SealedBytes
  <2>4. QED
    BY <2>3 DEF SealedAs
<1>6. CrcMatches(r, packet)
  <2>1. Seed(w, MsgId[m]) = Seed(r, MsgId[m])
    BY <1>1, <1>2
  <2>2. QED
    BY <1>3, <1>4, <2>1, SealedPasses
<1>7. ASSUME SamePayload(faulty, packet, n)
      PROVE  PayloadOf(faulty) = bytes
  BY <1>3, <1>4, <1>7, PayloadSame
<1>8. CASE bits = {}
  <2>1. faulty = packet
    BY <1>5, <1>8, NotInverted
  <2>2. SamePayload(faulty, packet, n)
    BY <2>1 DEF SamePayload
  <2>3. ~BehindNumber(packet, bits)
    BY <1>8 DEF BehindNumber
  <2>4. QED
    BY <1>2, <1>6, <1>7, <2>1, <2>2, <2>3
<1>9. CASE \E bit \in 0 .. 15 : bits = {bit}
  <2>1. PICK bit \in 0 .. 15 : bits = {bit}
    BY <1>9
  <2>2. SamePayload(faulty, packet, n)
    BY <1>5, <2>1, NumberInverted
  <2>3. ~BehindNumber(packet, bits) /\ bits # {}
    BY <2>1 DEF BehindNumber
  <2>4. QED
    BY <1>7, <2>2, <2>3
<1>10. CASE BehindNumber(packet, bits)
  <2>1. PICK first \in 16 .. 8 * Len(packet) - 1 :
          /\ \A bit \in bits : first =< bit
          /\ \/ \A bit \in bits : bit =< first + 12
             \/ \A bit \in bits : bit =< first + 15 /\ bit < 8 * (Len(packet) - 2)
    BY <1>10 DEF BehindNumber
  <2>2. bits # {} /\ bits \subseteq 16 .. 8 * Len(packet) - 1 /\ Len(packet) >= 4
    BY <1>5, <1>10 DEF BehindNumber
  <2>3. ~CrcMatches(r, Inverted(packet, bits))
    BY <1>5, <1>6, <2>1, <2>2, FaultsShow
  <2>4. QED
    BY <1>2, <2>2, <2>3
<1>11. QED
  BY <1>8, <1>9, <1>10 DEF Fault

(* Every reader's table reads something.                                   *)
Filled(codec) == Fields(codec.rows) # {}

LEMMA FilledBy ==
    ASSUME NEW codec, NEW row \in codec.rows
    PROVE  Filled(codec)
BY DEF Filled, Fields

LEMMA LibraryFilled ==
    ASSUME NEW m \in DOMAIN Deserializers
    PROVE  Filled(Deserializers[m])
<1>1. CASE m = "attitude"
  BY <1>1, FilledBy DEF Deserializers, ks_deserialize_attitude, Codec
<1>2. CASE m = "heartbeat"
  BY <1>2, FilledBy DEF Deserializers, ks_deserialize_heartbeat, Codec
<1>3. CASE m = "gps_raw"
  BY <1>3, FilledBy DEF Deserializers, ks_deserialize_gps_raw, Codec
<1>4. CASE m = "battery"
  BY <1>4, FilledBy DEF Deserializers, ks_deserialize_battery, Codec
<1>5. CASE m = "rc_input"
  BY <1>5, FilledBy DEF Deserializers, ks_deserialize_rc_input, Codec
<1>6. CASE m = "command"
  BY <1>6, FilledBy DEF Deserializers, ks_deserialize_command, Codec
<1>7. CASE m = "key_exchange"
  BY <1>7, FilledBy DEF Deserializers, ks_deserialize_key_exchange, Codec
<1>8. CASE m = "key_exchange_ack"
  BY <1>8, FilledBy DEF Deserializers, ks_deserialize_key_exchange_ack, Codec
<1>9. CASE m = "command_ack"
  BY <1>9, FilledBy DEF Deserializers, ks_deserialize_command_ack, Codec
<1>10. CASE m = "mode_change"
  BY <1>10, FilledBy DEF Deserializers, ks_deserialize_mode_change, Codec
<1>11. CASE m = "mission_item"
  BY <1>11, FilledBy DEF Deserializers, ks_deserialize_mission_item, Codec
<1>12. CASE m = "param_request_read"
  BY <1>12, FilledBy DEF Deserializers, ks_deserialize_param_request_read, Codec
<1>13. CASE m = "param_value"
  BY <1>13, FilledBy DEF Deserializers, ks_deserialize_param_value, Codec
<1>14. CASE m = "param_set"
  BY <1>14, FilledBy DEF Deserializers, ks_deserialize_param_set, Codec
<1>15. CASE m = "log_request_list"
  BY <1>15, FilledBy DEF Deserializers, ks_deserialize_log_request_list, Codec
<1>16. CASE m = "log_entry"
  BY <1>16, FilledBy DEF Deserializers, ks_deserialize_log_entry, Codec
<1>17. CASE m = "log_request_data"
  BY <1>17, FilledBy DEF Deserializers, ks_deserialize_log_request_data, Codec
<1>18. CASE m = "statustext"
  BY <1>18, FilledBy DEF Deserializers, ks_deserialize_statustext, Codec
<1>19. CASE m = "sys_status"
  BY <1>19, FilledBy DEF Deserializers, ks_deserialize_sys_status, Codec
<1>20. CASE m = "vfr_hud"
  BY <1>20, FilledBy DEF Deserializers, ks_deserialize_vfr_hud, Codec
<1>21. CASE m = "nav_controller"
  BY <1>21, FilledBy DEF Deserializers, ks_deserialize_nav_controller, Codec
<1>22. CASE m = "mission_count"
  BY <1>22, FilledBy DEF Deserializers, ks_deserialize_mission_count, Codec
<1>23. CASE m = "mission_request"
  BY <1>23, FilledBy DEF Deserializers, ks_deserialize_mission_request, Codec
<1>24. CASE m = "mission_ack"
  BY <1>24, FilledBy DEF Deserializers, ks_deserialize_mission_ack, Codec
<1>25. CASE m = "npnt_pa"
  BY <1>25, FilledBy DEF Deserializers, ks_deserialize_npnt_pa, Codec
<1>26. CASE m = "npnt_status"
  BY <1>26, FilledBy DEF Deserializers, ks_deserialize_npnt_status, Codec
<1>27. CASE m = "rid_basic_id"
  BY <1>27, FilledBy DEF Deserializers, ks_deserialize_rid_basic_id, Codec
<1>28. CASE m = "rid_location"
  BY <1>28, FilledBy DEF Deserializers, ks_deserialize_rid_location, Codec
<1>29. QED
  BY <1>1, <1>2, <1>3, <1>4, <1>5, <1>6, <1>7, <1>8, <1>9, <1>10, <1>11, <1>12, <1>13, <1>14, <1>15, <1>16, <1>17, <1>18, <1>19, <1>20, <1>21, <1>22, <1>23, <1>24, <1>25, <1>26, <1>27, <1>28 DEF Deserializers

LEMMA AllFilled ==
    ASSUME NEW l \in AllLinks, NEW in
    PROVE  Filled(Deserializer(l[3], l[2], in))
<1>1. CASE l[3] = "library"
  <2>1. CASE l[2] = "log_data"
    <3>1. Deserializer(l[3], l[2], in) = ks_deserialize_log_data(in[7])
      BY <1>1, <2>1, LogDataRows
    <3>2. U16(0, "id") \in ks_deserialize_log_data(in[7]).rows
      BY DEF ks_deserialize_log_data, Codec
    <3>3. QED
      BY <3>1, <3>2, FilledBy
  <2>2. CASE l[2] # "log_data"
    <3>1. l[2] \in DOMAIN Serializers
      <4>1. CASE l \in LibraryLinks
        BY <2>2, <4>1 DEF LibraryLinks, Kinds
      <4>2. CASE l \notin LibraryLinks
        <5>1. l[2] \in {"heartbeat", "command"}
          BY <1>1, <4>2 DEF AllLinks, ToolLinks, BridgeLinks
        <5>2. QED
          BY <5>1 DEF Serializers
      <4>3. QED
        BY <4>1, <4>2
    <3>2. l[2] \in DOMAIN Deserializers
      BY <3>1 DEF Serializers, Deserializers
    <3>3. QED
      BY <1>1, <3>1, <3>2, LibraryRows, LibraryFilled
  <2>3. QED
    BY <2>1, <2>2
<1>2. CASE l[3] = "gcs"
  <2>1. l[2] \in {"heartbeat", "attitude", "gps_raw", "command_ack"}
    BY <1>2 DEF AllLinks, LibraryLinks, ToolLinks, BridgeLinks
  <2>2. /\ Deserializer("gcs", "heartbeat", in) = decode_heartbeat
        /\ Deserializer("gcs", "attitude", in) = decode_attitude
        /\ Deserializer("gcs", "gps_raw", in) = decode_gps
        /\ Deserializer("gcs", "command_ack", in) = decode_cmd_ack
    BY DEF Deserializer, Shown
  <2>3. /\ U32(0, "system_status") \in decode_heartbeat.rows
        /\ F32(0, "roll") \in decode_attitude.rows
        /\ U32(0, "lat") \in decode_gps.rows
        /\ U16(0, "command_id") \in decode_cmd_ack.rows
    BY DEF decode_heartbeat, decode_attitude, decode_gps, decode_cmd_ack, Codec
  <2>4. QED
    BY <1>2, <2>1, <2>2, <2>3, FilledBy
<1>3. CASE l[3] = "listener"
  <2>1. l[2] = "heartbeat"
    BY <1>3 DEF AllLinks, LibraryLinks, ToolLinks, BridgeLinks
  <2>2. Deserializer("listener", "heartbeat", in) = ListenerHeartbeat
    BY DEF Deserializer, Shown
  <2>3. U32(0, "system_status") \in ListenerHeartbeat.rows
    BY DEF ListenerHeartbeat, Codec
  <2>4. QED
    BY <1>3, <2>1, <2>2, <2>3, FilledBy
<1>4. l[3] \in {"library", "gcs", "listener"}
  BY DEF AllLinks, LibraryLinks, ToolLinks, BridgeLinks
<1>5. QED
  BY <1>1, <1>2, <1>3, <1>4

(* No structure of a writer has the field that a peer's rate is called.    *)
LEMMA NoRate ==
    ASSUME NEW l \in AllLinks, NEW v \in Structs(l[1], l[2])
    PROVE  /\ DOMAIN v = Fields(Rows(l[1], l[2])) /\ "rate" \notin DOMAIN v
<1>1. OwnRows(Rows(l[1], l[2])) /\ DOMAIN v = Fields(Rows(l[1], l[2]))
  BY AllKnown, StructFields
<1>2. QED
  BY <1>1 DEF OwnRows, Fields

----
(***************************************************************************)
(* The state.                                                              *)
(***************************************************************************)

(* Every program's messages are among the links of the repository.         *)
LEMMA KnownWriter ==
    ASSUME NEW l \in Links
    PROVE  /\ l # <<>> /\ l \in Programs \X Kinds \X Programs
           /\ \E a \in AllLinks : a[1] = l[1] /\ a[2] = l[2]
<1>1. /\ DOMAIN Written = {"gcs", "sender", "bridge"} /\ DOMAIN Shown = {"gcs", "listener"}
      /\ DOMAIN Written.gcs = {"heartbeat", "command"} /\ DOMAIN Written.sender = {"heartbeat"}
      /\ DOMAIN Written.bridge = {"heartbeat", "attitude", "gps_raw", "command_ack"}
  BY DEF Written, Shown
<1>2. /\ l \in ({"library"} \cup DOMAIN Written) \X Kinds \X ({"library"} \cup DOMAIN Shown)
      /\ l[1] # "library" => l[2] \in DOMAIN Written[l[1]]
  BY LinksAssumption
<1>3. PICK w \in {"library", "gcs", "sender", "bridge"}, m \in Kinds,
           r \in {"library", "gcs", "listener"} : l = <<w, m, r>>
  BY <1>1, <1>2
<1>4. CASE w = "library"
  <2>1. <<"library", m, "library">> \in AllLinks
    BY DEF AllLinks, LibraryLinks
  <2>2. QED
    BY <1>3, <1>4, <2>1 DEF Programs
<1>5. CASE w = "gcs"
  <2>1. <<"gcs", m, "library">> \in AllLinks
    BY <1>1, <1>2, <1>3, <1>5 DEF AllLinks, ToolLinks
  <2>2. QED
    BY <1>3, <1>5, <2>1 DEF Programs
<1>6. CASE w = "sender"
  <2>1. <<"sender", m, "library">> \in AllLinks
    BY <1>1, <1>2, <1>3, <1>6 DEF AllLinks, ToolLinks
  <2>2. QED
    BY <1>3, <1>6, <2>1 DEF Programs
<1>7. CASE w = "bridge"
  <2>1. <<"bridge", m, "gcs">> \in AllLinks
    BY <1>1, <1>2, <1>3, <1>7 DEF AllLinks, BridgeLinks
  <2>2. QED
    BY <1>3, <1>7, <2>1 DEF Programs
<1>8. QED
  BY <1>4, <1>5, <1>6, <1>7

LEMMA AnyWrite ==
    ASSUME NEW l \in Links, NEW v \in Structs(l[1], l[2])
    PROVE  "rate" \notin DOMAIN v /\ Serialized(l[1], l[2], v) \in ByteSeq
<1>1. PICK a \in AllLinks : a[1] = l[1] /\ a[2] = l[2]
  BY KnownWriter
<1>2. v \in Structs(a[1], a[2])
  BY <1>1
<1>3. "rate" \notin DOMAIN v
  BY <1>2, NoRate
<1>4. PICK bytes : bytes = Serialized(a[1], a[2], v)
  OBVIOUS
<1>5. bytes \in ByteSeq
  BY <1>2, <1>4, AllWrite DEF Writes
<1>6. QED
  BY <1>1, <1>3, <1>4, <1>5

(* The bytes of an attitude with the half h as a rate.                     *)
PeerBytes(h) == [p \in 1 .. 18 |-> IF p = 13 THEN h[1] ELSE IF p = 14 THEN h[2] ELSE 0]

PeerLink == <<"library", "attitude", "library">>

LEMMA HalvesType == Halves \subseteq HalfBytes
<1>1. SUFFICES ASSUME NEW h \in Halves PROVE h \in HalfBytes
  OBVIOUS
<1>2. PICK s \in {0, 1}, e \in {0, 1, 30, 31}, m \in 0 .. 1023 : h = HalfOf(s, 1024 * e + m)
  BY <1>1, SMT DEF Halves
<1>3. PICK bits : bits = 1024 * e + m
  OBVIOUS
<1>4. e \in 0 .. 31 /\ m \in Nat /\ m < 1024
  OBVIOUS
<1>5. Parted(HalfOf(s, bits), s, e, m)
  BY <1>3, <1>4, HalfOfParts
<1>6. QED
  BY <1>2, <1>3, <1>5 DEF Parted

LEMMA PeerType ==
    ASSUME NEW h \in HalfBytes
    PROVE  PeerBytes(h) \in ByteSeq /\ Len(PeerBytes(h)) = 18
<1>1. h[1] \in 0 .. 255 /\ h[2] \in 0 .. 255
  BY DEF HalfBytes
<1>2. PeerBytes(h) \in [1 .. 18 -> 0 .. 255]
  BY <1>1 DEF PeerBytes
<1>3. 18 \in Nat
  OBVIOUS
<1>4. QED
  BY <1>2, <1>3, BytesOf

LEMMA PeerOnAll == PeerLink \in AllLinks
BY DEF PeerLink, AllLinks, LibraryLinks, Kinds, Serializers

LEMMA SealedType ==
    ASSUME NEW w \in Programs, NEW m \in DOMAIN MsgId, NEW bytes \in ByteSeq,
           NEW packet, IsSealed(packet, w, m, bytes)
    PROVE  packet \in Seq(ByteBits) /\ Len(packet) \in Nat /\ Len(packet) >= 4
<1>1. PICK n \in Nat : Sized(bytes, n)
  <2>1. Len(bytes) \in Nat
    BY LenProperties DEF ByteSeq
  <2>2. QED
    BY <2>1 DEF Sized
<1>2. PICK id \in 0 .. 255 : id = MsgId[m]
  BY MessageNumbers
<1>3. PICK body : IsBody(body, id, bytes)
  BY DEF IsBody
<1>4. SealedAs(packet, n, body, Checksum(body, Seed(w, id)))
  BY <1>1, <1>2, <1>3, SealedBytes
<1>5. QED
  BY <1>4 DEF SealedAs

(* Damage causes faults.                                                   *)
Struck(bits, burst, first) == bits = {first + i : i \in burst}

LEMMA DamageFault ==
    ASSUME NEW packet \in Seq(ByteBits), NEW size \in Nat, size = 8 * Len(packet),
           NEW burst \in Bursts, NEW first \in Nat, NEW bits, Struck(bits, burst, first),
           bits \subseteq 0 .. size - 1,
           \/ \E bit \in burst : burst = {bit}
           \/ first >= 16 /\ burst \subseteq 0 .. 12
           \/ first >= 16 /\ \A bit \in bits : bit < 8 * (Len(packet) - 2)
    PROVE  Fault(packet, bits)
<1>1. burst \subseteq 0 .. 15
  BY MessagesAssumption
<1>2. CASE burst = {}
  <2>1. bits = {}
    BY <1>2 DEF Struck
  <2>2. QED
    BY <2>1 DEF Fault
<1>3. CASE \E bit \in burst : burst = {bit}
  <2>1. PICK b \in 0 .. 15 : burst = {b}
    BY <1>1, <1>3
  <2>2. PICK bit \in Nat : bit = first + b
    OBVIOUS
  <2>3. bits = {bit} /\ bit \in 0 .. size - 1
    BY <2>1, <2>2 DEF Struck
  <2>4. CASE bit < 16
    <3>1. bit \in 0 .. 15
      BY <2>4
    <3>2. QED
      BY <2>3, <3>1 DEF Fault
  <2>5. CASE bit >= 16
    <3>1. bit \in 16 .. size - 1 /\ bit =< bit /\ bit =< bit + 12
      BY <2>3, <2>5
    <3>2. BehindNumber(packet, bits)
      BY <2>3, <3>1 DEF BehindNumber
    <3>3. QED
      BY <3>2 DEF Fault
  <2>6. QED
    BY <2>4, <2>5
<1>4. CASE burst # {} /\ first >= 16 /\ ~\E bit \in burst : burst = {bit}
  <2>1. \A bit \in bits : bit \in Nat /\ first =< bit /\ bit =< first + 15
    BY <1>1 DEF Struck
  <2>2. burst \subseteq 0 .. 12 => \A bit \in bits : bit =< first + 12
    BY DEF Struck
  <2>3. PICK i \in burst : TRUE
    BY <1>4
  <2>4. first + i \in bits
    BY DEF Struck
  <2>5. first \in 16 .. size - 1 /\ bits # {}
    <3>1. first + i \in 0 .. size - 1 /\ i \in 0 .. 15
      BY <1>1, <2>4
    <3>2. QED
      BY <1>4, <2>4, <3>1
  <2>6. bits \subseteq 16 .. size - 1
    BY <1>4, <2>1
  <2>7. \/ \A bit \in bits : bit =< first + 12
        \/ \A bit \in bits : bit =< first + 15 /\ bit < 8 * (Len(packet) - 2)
    <3>1. CASE burst \subseteq 0 .. 12
      BY <2>2, <3>1
    <3>2. CASE \A bit \in bits : bit < 8 * (Len(packet) - 2)
      BY <2>1, <3>2
    <3>3. QED
      BY <1>4, <3>1, <3>2
  <2>8. QED
    BY <2>1, <2>5, <2>6, <2>7 DEF BehindNumber, Fault
<1>5. QED
  BY <1>2, <1>3, <1>4

(* The invariant: what is on the line is the packet that was sealed, with  *)
(* the bits inverted that were struck; the verdict is about it; and what   *)
(* was read is what the reader's table makes of its payload.               *)
FromPeer(l, v, bytes) ==
    l = PeerLink /\ \E h \in Halves : v = [rate |-> h] /\ bytes = PeerBytes(h)

FromStructure(l, v, bytes) ==
    l \in Links /\ v \in Structs(l[1], l[2]) /\ bytes = Serialized(l[1], l[2], v)

Sent(l, v, bytes) == FromPeer(l, v, bytes) \/ FromStructure(l, v, bytes)

Packet(l, bytes) == Sealed(l[1], l[2], bytes)

OnLine(packet, bits, faulty) == Fault(packet, bits) /\ faulty = Inverted(packet, bits)

Judged(r, faulty, result) ==
    /\ result \in {"none", "ok", "crc_error"}
    /\ result = "ok" => CrcMatches(r, faulty)
    /\ result = "crc_error" => ~CrcMatches(r, faulty)

Understood(l, in, upper) ==
    IF l[3] = "library" THEN Deserialized("library", l[2], Buffered(in), upper)
    ELSE IF Len(in) < Deserializer(l[3], l[2], in).returns THEN <<>>
         ELSE Deserialized(l[3], l[2], in, upper)

ReadFrom(l, in, returned, y) ==
    /\ returned = Deserializer(l[3], l[2], in).returns
    /\ \E upper \in {0, 255} : y = Understood(l, in, upper)

Idle == /\ link = <<>> /\ sent = <<>> /\ serialized = <<>>
        /\ struck = {} /\ verdict = "none" /\ length = 0 /\ got = <<>>

MInv ==
    \/ Idle
    \/ /\ Sent(link, sent, serialized)
       /\ "rate" \in DOMAIN sent => struck = {}
       /\ OnLine(Packet(link, serialized), struck, wire)
       /\ Judged(link[3], wire, verdict)
       /\ \/ length = 0 /\ got = <<>>
          \/ verdict = "ok" /\ ReadFrom(link, PayloadOf(wire), length, got)

LEMMA SentTypes ==
    ASSUME NEW l, NEW v, NEW bytes, Sent(l, v, bytes)
    PROVE  /\ l # <<>> /\ l[1] \in Programs /\ l[2] \in DOMAIN MsgId
           /\ bytes \in ByteSeq
           /\ "rate" \in DOMAIN v <=> FromPeer(l, v, bytes)
<1>1. DOMAIN MsgId = Kinds
  BY DEF MsgId, Kinds, Serializers
<1>2. CASE FromPeer(l, v, bytes)
  <2>1. PeerLink # <<>> /\ PeerLink[1] \in Programs /\ PeerLink[2] \in DOMAIN MsgId
    BY DEF PeerLink, Programs, MsgId
  <2>2. \E h \in HalfBytes : v = [rate |-> h] /\ bytes = PeerBytes(h)
    BY <1>2, HalvesType DEF FromPeer
  <2>3. bytes \in ByteSeq /\ "rate" \in DOMAIN v
    BY <2>2, PeerType
  <2>4. QED
    BY <1>2, <2>1, <2>3 DEF FromPeer
<1>3. CASE FromStructure(l, v, bytes)
  <2>1. l # <<>> /\ l \in Programs \X Kinds \X Programs
    BY <1>3, KnownWriter DEF FromStructure
  <2>2. bytes \in ByteSeq /\ "rate" \notin DOMAIN v
    BY <1>3, AnyWrite DEF FromStructure
  <2>3. ~FromPeer(l, v, bytes)
    <3>1. \A h : "rate" \in DOMAIN [rate |-> h]
      OBVIOUS
    <3>2. QED
      BY <2>2, <3>1 DEF FromPeer
  <2>4. QED
    BY <1>1, <2>1, <2>2, <2>3
<1>4. QED
  BY <1>2, <1>3 DEF Sent

LEMMA PacketType ==
    ASSUME NEW l, NEW v, NEW bytes, Sent(l, v, bytes), NEW packet, packet = Packet(l, bytes)
    PROVE  packet \in Seq(ByteBits) /\ Len(packet) \in Nat /\ Len(packet) >= 4
<1>1. l[1] \in Programs /\ l[2] \in DOMAIN MsgId /\ bytes \in ByteSeq
  BY SentTypes
<1>2. IsSealed(packet, l[1], l[2], bytes)
  BY DEF IsSealed, Packet
<1>3. QED
  BY <1>1, <1>2, SealedType

(* A packet just sealed is on the line as it is.                           *)
LEMMA SealedOnLine ==
    ASSUME NEW l, NEW v, NEW bytes, Sent(l, v, bytes), NEW packet, packet = Packet(l, bytes)
    PROVE  OnLine(packet, {}, packet)
BY PacketType, NotInverted DEF OnLine, Fault

LEMMA MessagesInitInv == MessagesInit => MInv
BY DEF MessagesInit, MInv, Idle

LEMMA UnderWay ==
    ASSUME MInv, link # <<>>
    PROVE  /\ Sent(link, sent, serialized)
           /\ "rate" \in DOMAIN sent => struck = {}
           /\ OnLine(Packet(link, serialized), struck, wire)
           /\ Judged(link[3], wire, verdict)
           /\ \/ length = 0 /\ got = <<>>
              \/ verdict = "ok" /\ ReadFrom(link, PayloadOf(wire), length, got)
BY DEF MInv, Idle

LEMMA IdleOrNot ==
    ASSUME MInv, link = <<>>
    PROVE  Idle
BY SentTypes DEF MInv

LEMMA SerializeInv == MInv /\ Serialize => MInv'
<1>1. SUFFICES ASSUME MInv, Serialize PROVE MInv'
  OBVIOUS
<1>2. Idle
  BY <1>1, IdleOrNot DEF Serialize
<1>3. Sent(link', sent', serialized') /\ wire' = Packet(link', serialized')
  <2>1. PICK l \in Links :
          /\ link' = l
          /\ \E v \in Structs(l[1], l[2]) : sent' = v /\ serialized' = Serialized(l[1], l[2], v)
          /\ wire' = Sealed(l[1], l[2], serialized')
    BY <1>1 DEF Serialize
  <2>2. QED
    BY <2>1 DEF Sent, FromStructure, Packet
<1>4. /\ struck' = {} /\ verdict' = "none" /\ length' = 0 /\ got' = <<>>
  BY <1>1, <1>2 DEF Serialize, Idle
<1>5. OnLine(Packet(link', serialized'), struck', wire')
  BY <1>3, <1>4, SealedOnLine
<1>6. Judged((link[3])', wire', verdict')
  BY <1>4 DEF Judged
<1>7. QED
  BY <1>3, <1>4, <1>5, <1>6 DEF MInv

LEMMA PeerAttitudeInv == MInv /\ PeerAttitude => MInv'
<1>1. SUFFICES ASSUME MInv, PeerAttitude PROVE MInv'
  OBVIOUS
<1>2. Idle
  BY <1>1, IdleOrNot DEF PeerAttitude
<1>3. Sent(link', sent', serialized') /\ wire' = Packet(link', serialized')
  <2>1. link' = PeerLink
    BY <1>1 DEF PeerAttitude, PeerLink
  <2>2. FromPeer(link', sent', serialized')
    BY <1>1, <2>1 DEF PeerAttitude, FromPeer, PeerBytes
  <2>3. wire' = Packet(link', serialized')
    BY <1>1, <2>1 DEF PeerAttitude, Packet, PeerLink
  <2>4. QED
    BY <2>2, <2>3 DEF Sent
<1>4. /\ struck' = {} /\ verdict' = "none" /\ length' = 0 /\ got' = <<>>
  BY <1>1, <1>2 DEF PeerAttitude, Idle
<1>5. OnLine(Packet(link', serialized'), struck', wire')
  BY <1>3, <1>4, SealedOnLine
<1>6. Judged((link[3])', wire', verdict')
  BY <1>4 DEF Judged
<1>7. QED
  BY <1>3, <1>4, <1>5, <1>6 DEF MInv

LEMMA DamageInv == MInv /\ Damage => MInv'
<1>1. SUFFICES ASSUME MInv, Damage PROVE MInv'
  OBVIOUS
<1>2. link # <<>> /\ verdict = "none" /\ struck = {} /\ "rate" \notin DOMAIN sent
  BY <1>1 DEF Damage
<1>3. /\ Sent(link, sent, serialized) /\ OnLine(Packet(link, serialized), struck, wire)
      /\ length = 0 /\ got = <<>>
  BY <1>1, <1>2, UnderWay
<1>4. PICK packet : packet = Packet(link, serialized)
  OBVIOUS
<1>5. packet \in Seq(ByteBits) /\ Len(packet) \in Nat /\ Len(packet) >= 4
  BY <1>3, <1>4, PacketType
<1>6. wire = packet
  BY <1>2, <1>3, <1>4, <1>5, NotInverted DEF OnLine
<1>7. Fault(packet, struck')
  <2>1. PICK burst \in Bursts, first \in 0 .. 8 * Len(wire) - 1 :
          /\ struck' = {first + i : i \in burst}
          /\ struck' \subseteq 0 .. 8 * Len(wire) - 1
          /\ \/ \E bit \in burst : burst = {bit}
             \/ first >= 16 /\ burst \subseteq 0 .. 12
             \/ first >= 16 /\ \A bit \in struck' : bit < 8 * (Len(wire) - 2)
    BY <1>1 DEF Damage
  <2>2. PICK size \in Nat : size = 8 * Len(packet)
    BY <1>5
  <2>3. first \in Nat /\ struck' \subseteq 0 .. size - 1
    BY <1>6, <2>1, <2>2
  <2>4. PICK bits : bits = struck'
    OBVIOUS
  <2>5. Struck(bits, burst, first)
    BY <2>1, <2>4 DEF Struck
  <2>6. Fault(packet, bits)
    BY <1>5, <1>6, <2>1, <2>2, <2>3, <2>4, <2>5, DamageFault
  <2>7. QED
    BY <2>4, <2>6
<1>8. /\ wire' = Inverted(wire, struck')
      /\ UNCHANGED <<link, sent, serialized, verdict, length, got>>
  BY <1>1 DEF Damage
<1>9. OnLine(Packet(link', serialized'), struck', wire')
  BY <1>4, <1>6, <1>7, <1>8 DEF OnLine
<1>10. Judged((link[3])', wire', verdict')
  BY <1>2, <1>8 DEF Judged
<1>11. QED
  BY <1>2, <1>3, <1>8, <1>9, <1>10 DEF MInv

LEMMA CheckInv == MInv /\ Check => MInv'
<1>1. SUFFICES ASSUME MInv, Check PROVE MInv'
  OBVIOUS
<1>2. link # <<>> /\ verdict = "none"
  BY <1>1 DEF Check
<1>3. /\ Sent(link, sent, serialized)
      /\ "rate" \in DOMAIN sent => struck = {}
      /\ OnLine(Packet(link, serialized), struck, wire)
      /\ length = 0 /\ got = <<>>
  BY <1>1, <1>2, UnderWay
<1>4. /\ verdict' = IF CrcMatches(link[3], wire) THEN "ok" ELSE "crc_error"
      /\ UNCHANGED <<link, sent, serialized, wire, struck, length, got>>
  BY <1>1 DEF Check
<1>5. Judged((link[3])', wire', verdict')
  BY <1>4 DEF Judged
<1>6. QED
  BY <1>3, <1>4, <1>5 DEF MInv

LEMMA ReadInv ==
    ASSUME MInv, verdict = "ok", UNCHANGED <<link, sent, serialized, wire, struck, verdict>>,
           ReadFrom(link, PayloadOf(wire), length', got')
    PROVE  MInv'
<1>1. /\ Sent(link, sent, serialized)
      /\ "rate" \in DOMAIN sent => struck = {}
      /\ OnLine(Packet(link, serialized), struck, wire)
      /\ Judged(link[3], wire, verdict)
  BY DEF MInv, Idle
<1>2. QED
  BY <1>1 DEF MInv

LEMMA DeserializeInv == MInv /\ Deserialize => MInv'
<1>1. SUFFICES ASSUME MInv, Deserialize PROVE MInv'
  OBVIOUS
<1>2. PICK in : in = PayloadOf(wire)
  OBVIOUS
<1>3. /\ verdict = "ok" /\ link[3] = "library"
      /\ \E upper \in {0, 255} : got' = Deserialized("library", link[2], Buffered(in), upper)
      /\ length' = Deserializer("library", link[2], in).returns
      /\ UNCHANGED <<link, sent, serialized, wire, struck, verdict>>
  BY <1>1, <1>2 DEF Deserialize
<1>4. ReadFrom(link, in, length', got')
  BY <1>3 DEF ReadFrom, Understood
<1>5. QED
  BY <1>1, <1>2, <1>3, <1>4, ReadInv

LEMMA ShowInv == MInv /\ Show => MInv'
<1>1. SUFFICES ASSUME MInv, Show PROVE MInv'
  OBVIOUS
<1>2. PICK in : in = PayloadOf(wire)
  OBVIOUS
<1>3. /\ verdict = "ok" /\ link[3] # "library"
      /\ length' = Deserializer(link[3], link[2], in).returns
      /\ got' = IF Len(in) < length' THEN <<>> ELSE Deserialized(link[3], link[2], in, 0)
      /\ UNCHANGED <<link, sent, serialized, wire, struck, verdict>>
  BY <1>1, <1>2 DEF Show
<1>4. ReadFrom(link, in, length', got')
  <2>1. got' = Understood(link, in, 0)
    BY <1>3 DEF Understood
  <2>2. QED
    BY <1>3, <2>1 DEF ReadFrom
<1>5. QED
  BY <1>1, <1>2, <1>3, <1>4, ReadInv

(* The invariant, for any links.                                           *)
THEOREM MessagesInvariant == MessagesSpec => []MInv
<1>1. MInv /\ [MessagesNext]_messages_vars => MInv'
  <2>1. SUFFICES ASSUME MInv, [MessagesNext]_messages_vars PROVE MInv'
    OBVIOUS
  <2>2. CASE UNCHANGED messages_vars
    BY <2>1, <2>2 DEF messages_vars, MInv, Idle
  <2>3. QED
    BY <2>1, <2>2, SerializeInv, PeerAttitudeInv, DamageInv, CheckInv, DeserializeInv, ShowInv
    DEF MessagesNext
<1>2. QED
  BY <1>1, MessagesInitInv, PTL DEF MessagesSpec

----
(***************************************************************************)
(* What the invariant says of the payload that is read.                    *)
(***************************************************************************)

(* The library's buffer, and the payload itself, begin with the payload.   *)
LEMMA BeginsItself ==
    ASSUME NEW bytes \in ByteSeq
    PROVE  Begins(bytes, bytes)
<1>1. Len(bytes) \in Nat /\ bytes \in [1 .. Len(bytes) -> 0 .. 255]
  BY LenProperties DEF ByteSeq
<1>2. bytes \in [1 .. Len(bytes) -> 0 .. 256]
  <2>1. \A k \in 1 .. Len(bytes) : bytes[k] \in 0 .. 256
    <3>1. SUFFICES ASSUME NEW k \in 1 .. Len(bytes) PROVE bytes[k] \in 0 .. 256
      OBVIOUS
    <3>2. bytes[k] \in 0 .. 255
      BY <1>1
    <3>3. QED
      BY <3>2
  <2>2. QED
    BY <1>1, <2>1
<1>3. bytes \in Seq(0 .. 256)
  BY <1>1, <1>2, SeqOfLength, Zenon
<1>4. QED
  BY <1>1, <1>3 DEF Begins

LEMMA BufferedBegins ==
    ASSUME NEW bytes \in ByteSeq
    PROVE  Begins(Buffered(bytes), bytes)
<1>1. PICK n \in Nat : n = Len(bytes)
  BY LenProperties DEF ByteSeq
<1>2. PICK b \in Nat : 1 .. 97 - n = 1 .. b
  <2>1. CASE n =< 97
    <3>1. 97 - n \in Nat /\ 1 .. 97 - n = 1 .. 97 - n
      BY <2>1
    <3>2. QED
      BY <3>1
  <2>2. CASE n > 97
    <3>1. 0 \in Nat /\ 1 .. 97 - n = 1 .. 0
      BY <2>2
    <3>2. QED
      BY <3>1
  <2>3. QED
    BY <2>1, <2>2
<1>3. PICK S : S = 0 .. 256
  OBVIOUS
<1>4. PICK rest : rest = [p \in 1 .. b |-> Junk]
  OBVIOUS
<1>5. Long(rest, S, b)
  <2>1. Junk \in S
    BY <1>3 DEF Junk
  <2>2. rest \in [1 .. b -> S]
    BY <1>4, <2>1
  <2>3. QED
    BY <2>2, SeqOfLength DEF Long
<1>6. Long(bytes, S, n)
  <2>1. bytes \in Seq(S)
    BY <1>3, BeginsItself DEF Begins
  <2>2. QED
    BY <1>1, <2>1 DEF Long
<1>7. PICK in : in = bytes \o rest
  OBVIOUS
<1>8. Long(in, S, n + b) /\ JoinOf(in, bytes, n, rest, b)
  BY <1>5, <1>6, <1>7, Joined
<1>9. Buffered(bytes) = in
  BY <1>1, <1>2, <1>4, <1>7 DEF Buffered
<1>10. Begins(in, bytes)
  BY <1>1, <1>3, <1>8 DEF Long, JoinOf, Begins
<1>11. QED
  BY <1>9, <1>10

(* What a reader makes of the whole payload of a message that is sent to   *)
(* it: its table of the bytes at the front of its buffer.                  *)
Delivered(l, bytes, n, y) ==
    \E in : /\ Begins(in, bytes)
            /\ n = Deserializer(l[3], l[2], in).returns
            /\ \E upper \in {0, 255} : y = Deserialized(l[3], l[2], in, upper)

LEMMA SameTable ==
    ASSUME NEW r, NEW m, NEW in, NEW other, m = "log_data" => in[7] = other[7]
    PROVE  Deserializer(r, m, in) = Deserializer(r, m, other)
BY DEF Deserializer

LEMMA DeliveredAll ==
    ASSUME NEW l \in AllLinks, NEW v \in Structs(l[1], l[2]), NEW bytes,
           bytes = Serialized(l[1], l[2], v), NEW n, NEW y, ReadFrom(l, bytes, n, y)
    PROVE  Delivered(l, bytes, n, y)
<1>1. Writes(Serializer(l[1], l[2], v), v, bytes)
  BY AllWrite
<1>2. bytes \in ByteSeq
  BY <1>1 DEF Writes
<1>3. Begins(bytes, bytes) /\ Begins(Buffered(bytes), bytes)
  BY <1>2, BeginsItself, BufferedBegins
<1>4. PICK upper \in {0, 255} : y = Understood(l, bytes, upper)
  BY DEF ReadFrom
<1>5. n = Deserializer(l[3], l[2], bytes).returns
  BY DEF ReadFrom
<1>6. CASE l[3] = "library"
  <2>1. Deserializer(l[3], l[2], bytes) = Deserializer(l[3], l[2], Buffered(bytes))
    <3>1. l[2] = "log_data" => bytes[7] = Buffered(bytes)[7]
      BY <1>3, LogDataCount
    <3>2. QED
      BY <3>1, SameTable
  <2>2. y = Deserialized(l[3], l[2], Buffered(bytes), upper)
    BY <1>4, <1>6 DEF Understood
  <2>3. n = Deserializer(l[3], l[2], Buffered(bytes)).returns
    BY <1>5, <2>1
  <2>4. QED
    BY <1>3, <2>2, <2>3 DEF Delivered
<1>7. CASE l[3] # "library"
  <2>1. ~(Len(bytes) < Deserializer(l[3], l[2], bytes).returns)
    <3>1. Known(l, v, bytes)
      BY <1>3, AllRead
    <3>2. PICK read, written :
             read = Deserializer(l[3], l[2], bytes) /\ written = Serializer(l[1], l[2], v)
      OBVIOUS
    <3>3. read.returns =< written.returns /\ read.returns \in Nat
      BY <3>1, <3>2 DEF Known, Linked, Answers, Placing
    <3>4. Len(bytes) = written.returns /\ Len(bytes) \in Nat
      BY <1>1, <3>2, LenProperties DEF Writes, ByteSeq
    <3>5. QED
      BY <3>2, <3>3, <3>4
  <2>2. y = Deserialized(l[3], l[2], bytes, upper)
    BY <1>4, <1>7, <2>1 DEF Understood
  <2>3. QED
    BY <1>3, <1>5, <2>2 DEF Delivered
<1>8. QED
  BY <1>6, <1>7

(* The trip of a structure.                                                *)
LEMMA TripTypes ==
    ASSUME NEW l \in AllLinks, NEW v \in Structs(l[1], l[2]), NEW bytes,
           bytes = Serialized(l[1], l[2], v), NEW n, NEW y, Delivered(l, bytes, n, y), v = sent
    PROVE  /\ y # <<>>
           /\ \A field \in DOMAIN y :
                 /\ y[field] \in ByteSeq
                 /\ IntBits = 32 =>
                       IF field \in DOMAIN v THEN FieldArrives(l[2], field, v[field], y[field])
                       ELSE \A k \in DOMAIN y[field] : y[field][k] = 0
           /\ l[1] = "library" /\ l[3] = "library" => n = Len(bytes) /\ DOMAIN y = DOMAIN v
<1>1. PICK in : /\ Begins(in, bytes)
                /\ n = Deserializer(l[3], l[2], in).returns
                /\ \E upper \in {0, 255} : y = Deserialized(l[3], l[2], in, upper)
  BY DEF Delivered
<1>2. PICK upper \in {0, 255} : y = Deserialized(l[3], l[2], in, upper)
  BY <1>1
<1>3. /\ DOMAIN y = Fields(Deserializer(l[3], l[2], in).rows)
      /\ \A field \in DOMAIN y :
            /\ y[field] \in ByteSeq
            /\ IntBits = 32 =>
                  IF field \in DOMAIN v THEN FieldArrives(l[2], field, v[field], y[field])
                  ELSE \A k \in DOMAIN y[field] : y[field][k] = 0
  BY <1>1, <1>2, AllArrive, SMTT(20)
<1>4. y # <<>>
  <2>1. DOMAIN y # {}
    BY <1>3, AllFilled DEF Filled
  <2>2. DOMAIN <<>> = {}
    OBVIOUS
  <2>3. QED
    BY <2>1, <2>2
<1>5. ASSUME l[1] = "library", l[3] = "library" PROVE n = Len(bytes) /\ DOMAIN y = DOMAIN v
  <2>1. Known(l, v, in)
    BY <1>1, AllRead
  <2>2. Len(bytes) = Serializer(l[1], l[2], v).returns
    BY AllWrite DEF Writes
  <2>3. DOMAIN v = Fields(Rows(l[1], l[2]))
    BY NoRate
  <2>4. QED
    BY <1>1, <1>3, <1>5, <2>1, <2>2, <2>3 DEF Known
<1>6. QED
  BY <1>3, <1>4, <1>5

(* A peer's attitude is read as bytes, and its rate exactly.               *)
LEMMA RateRow ==
    /\ Deserializer("library", "attitude", <<>>).rows = ks_deserialize_attitude.rows
    /\ Half(12, "rollspeed") \in ks_deserialize_attitude.rows
    /\ RowOf(ks_deserialize_attitude.rows, "rollspeed") = Half(12, "rollspeed")
    /\ Placing(ks_deserialize_attitude) /\ ks_deserialize_attitude.returns = 18
    /\ \A in : Deserializer("library", "attitude", in) = ks_deserialize_attitude
<1>1. \A in : Deserializer("library", "attitude", in) = ks_deserialize_attitude
  <2>1. "attitude" \in DOMAIN Serializers /\ Deserializers["attitude"] = ks_deserialize_attitude
    BY DEF Serializers, Deserializers
  <2>2. QED
    BY <2>1, LibraryRows
<1>2. Placing(ks_deserialize_attitude) /\ Naming(ks_deserialize_attitude)
  BY AttitudeTable DEF Table
<1>3. Half(12, "rollspeed") \in ks_deserialize_attitude.rows /\ ks_deserialize_attitude.returns = 18
  BY DEF ks_deserialize_attitude, Codec
<1>4. RowOf(ks_deserialize_attitude.rows, "rollspeed") = Half(12, "rollspeed")
  <2>1. PICK row : row = RowOf(ks_deserialize_attitude.rows, "rollspeed")
    OBVIOUS
  <2>2. Half(12, "rollspeed").field = "rollspeed" /\ Half(12, "rollspeed").as = "half"
    BY DEF Half, Row
  <2>3. row \in ks_deserialize_attitude.rows /\ row.field = "rollspeed"
    BY <1>3, <2>1, <2>2 DEF RowOf
  <2>4. row = Half(12, "rollspeed")
    BY <1>2, <1>3, <2>2, <2>3 DEF Naming
  <2>5. QED
    BY <2>1, <2>4
<1>5. QED
  BY <1>1, <1>2, <1>3, <1>4

LEMMA PeerRead ==
    ASSUME NEW h \in HalfBytes, NEW bytes, bytes = PeerBytes(h), NEW n, NEW y,
           ReadFrom(PeerLink, bytes, n, y)
    PROVE  HalfRead(h, y.rollspeed) /\ \A field \in DOMAIN y : y[field] \in ByteSeq
<1>1. bytes \in ByteSeq /\ Len(bytes) = 18 /\ bytes[13] = h[1] /\ bytes[14] = h[2]
  BY PeerType DEF PeerBytes
<1>2. PICK in : in = Buffered(bytes)
  OBVIOUS
<1>3. Begins(in, bytes)
  BY <1>1, <1>2, BufferedBegins
<1>4. PICK upper \in {0, 255} : y = Deserialized("library", "attitude", in, upper)
  BY <1>2 DEF ReadFrom, Understood, PeerLink
<1>5. Deserializer("library", "attitude", in) = ks_deserialize_attitude
  BY RateRow
<1>6. \A field \in DOMAIN y : y[field] \in ByteSeq
  <2>1. Enough(Deserializer("library", "attitude", in), bytes)
    BY <1>1, <1>5, RateRow DEF Enough
  <2>2. QED
    BY <1>3, <1>4, <2>1, ReadBytes
<1>7. PICK row : row = Half(12, "rollspeed")
  OBVIOUS
<1>8. /\ row \in ks_deserialize_attitude.rows /\ row.field = "rollspeed" /\ row.as = "half"
      /\ row.at = 12 /\ row.size = 2
  BY <1>7, RateRow DEF Half, Row
<1>9. PICK z : z = Take(row, in, upper)
  OBVIOUS
<1>10. y.rollspeed = z
  <2>1. y = [field \in Fields(ks_deserialize_attitude.rows) |->
                Take(RowOf(ks_deserialize_attitude.rows, field), in, upper)]
    BY <1>4, <1>5 DEF Deserialized
  <2>2. "rollspeed" \in Fields(ks_deserialize_attitude.rows)
    BY <1>8 DEF Fields
  <2>3. QED
    BY <1>7, <1>9, <2>1, <2>2, RateRow
<1>11. PICK cut : CutFrom(in, row, cut)
  BY DEF CutFrom
<1>12. Piece(bytes, row, cut)
  <2>1. row.at \in Nat /\ row.size \in Nat /\ row.at + row.size =< Len(bytes)
    BY <1>1, <1>8
  <2>2. QED
    BY <1>1, <1>3, <1>11, <2>1, CutOut
<1>13. cut = h
  <2>1. cut \in ByteSeq /\ Len(cut) = 2
    BY <1>8, <1>12 DEF Piece
  <2>2. cut[1] = h[1] /\ cut[2] = h[2]
    <3>1. cut[1] = bytes[12 + 1] /\ cut[2] = bytes[12 + 2]
      <4>1. 1 \in 1 .. row.size /\ 2 \in 1 .. row.size
        BY <1>8
      <4>2. cut[1] = bytes[row.at + 1] /\ cut[2] = bytes[row.at + 2]
        BY <1>12, <4>1 DEF Piece
      <4>3. QED
        BY <1>8, <4>2
    <3>2. 12 + 1 = 13 /\ 12 + 2 = 14
      OBVIOUS
    <3>3. QED
      BY <1>1, <3>1, <3>2
  <2>3. cut \in HalfBytes
    BY <2>1, SeqBytes
  <2>4. \A k \in 1 .. 2 : cut[k] = h[k]
    <3>1. SUFFICES ASSUME NEW k \in 1 .. 2 PROVE cut[k] = h[k]
      OBVIOUS
    <3>2. k = 1 \/ k = 2
      OBVIOUS
    <3>3. QED
      BY <2>2, <3>2
  <2>5. QED
    BY <2>3, <2>4 DEF HalfBytes
<1>14. z = half_to_float(h)
  <2>1. Reads(row, cut, upper, z)
    BY <1>9, <1>11, <1>12, TakeOf
  <2>2. QED
    BY <1>8, <1>13, <2>1 DEF Reads
<1>15. HalfRead(h, z)
  BY <1>14, HalvesExact
<1>16. QED
  BY <1>6, <1>10, <1>15

(* A reader that has read has read the whole payload.                      *)
LEMMA WholeRead ==
    ASSUME MInv, length # 0 \/ got # <<>>, link \in AllLinks
    PROVE  ReadFrom(link, serialized, length, got) /\ Sent(link, sent, serialized)
<1>1. /\ Sent(link, sent, serialized)
      /\ OnLine(Packet(link, serialized), struck, wire)
      /\ Judged(link[3], wire, verdict)
      /\ verdict = "ok" /\ ReadFrom(link, PayloadOf(wire), length, got)
  BY DEF MInv, Idle
<1>2. PICK packet, bits, faulty, bytes :
         packet = Packet(link, serialized) /\ bits = struck /\ faulty = wire /\ bytes = serialized
  OBVIOUS
<1>3. IsSealed(packet, link[1], link[2], bytes) /\ bytes \in ByteSeq
  BY <1>1, <1>2, SentTypes DEF IsSealed, Packet
<1>4. Fault(packet, bits) /\ faulty = Inverted(packet, bits) /\ CrcMatches(link[3], faulty)
  BY <1>1, <1>2 DEF OnLine, Judged
<1>5. PayloadOf(faulty) = bytes
  BY <1>3, <1>4, PayloadAccepted
<1>6. QED
  BY <1>1, <1>2, <1>5

(* HalfExact, however the message is sent.                                 *)
LEMMA HalfFollows == MInv => HalfExact
<1>1. SUFFICES ASSUME MInv, length > 0, "rate" \in DOMAIN sent
               PROVE  HalfRead(sent.rate, got.rollspeed)
  BY DEF HalfExact
<1>2. length # 0
  BY <1>1
<1>3. FromPeer(link, sent, serialized)
  <2>1. Sent(link, sent, serialized)
    BY <1>1, <1>2 DEF MInv, Idle
  <2>2. QED
    BY <1>1, <2>1, SentTypes
<1>4. link = PeerLink
  BY <1>3 DEF FromPeer
<1>5. ReadFrom(link, serialized, length, got)
  BY <1>1, <1>2, <1>4, PeerOnAll, WholeRead
<1>6. PICK h \in HalfBytes : sent = [rate |-> h] /\ serialized = PeerBytes(h)
  BY <1>3, HalvesType DEF FromPeer
<1>7. PICK bytes, n, y : bytes = serialized /\ n = length /\ y = got
  OBVIOUS
<1>8. HalfRead(h, y.rollspeed)
  BY <1>4, <1>5, <1>6, <1>7, PeerRead
<1>9. QED
  BY <1>6, <1>7, <1>8

(* ... and among the programs of the repository.                           *)
LEMMA StaleFollows ==
    ASSUME Links \subseteq AllLinks
    PROVE  MInv => NothingStale
<1>1. SUFFICES ASSUME MInv PROVE NothingStale
  OBVIOUS
<1>2. CASE Idle
  <2>1. <<>> \in Seq(0 .. 255) /\ DOMAIN <<>> = {}
    OBVIOUS
  <2>2. QED
    BY <1>2, <2>1 DEF Idle, NothingStale
<1>3. CASE ~Idle
  <2>1. Sent(link, sent, serialized)
    BY <1>1, <1>3 DEF MInv
  <2>2. serialized \in ByteSeq
    BY <2>1, SentTypes
  <2>3. link \in AllLinks
    BY <2>1, PeerOnAll DEF Sent, FromPeer, FromStructure
  <2>4. \A field \in DOMAIN got : got[field] \in ByteSeq
    <3>1. CASE got = <<>>
      <4>1. DOMAIN <<>> = {}
        OBVIOUS
      <4>2. QED
        BY <3>1, <4>1
    <3>2. CASE got # <<>>
      <4>1. ReadFrom(link, serialized, length, got)
        BY <1>1, <2>3, <3>2, WholeRead
      <4>2. PICK bytes, n, y, v : bytes = serialized /\ n = length /\ y = got /\ v = sent
        OBVIOUS
      <4>3. CASE FromPeer(link, sent, serialized)
        <5>1. PICK h \in HalfBytes : serialized = PeerBytes(h)
          BY <4>3, HalvesType DEF FromPeer
        <5>2. link = PeerLink
          BY <4>3 DEF FromPeer
        <5>3. \A field \in DOMAIN y : y[field] \in ByteSeq
          BY <4>1, <4>2, <5>1, <5>2, PeerRead
        <5>4. QED
          BY <4>2, <5>3
      <4>4. CASE FromStructure(link, sent, serialized)
        <5>1. v \in Structs(link[1], link[2]) /\ bytes = Serialized(link[1], link[2], v)
          BY <4>2, <4>4 DEF FromStructure
        <5>2. Delivered(link, bytes, n, y)
          BY <2>3, <4>1, <4>2, <5>1, DeliveredAll
        <5>3. \A field \in DOMAIN y : y[field] \in ByteSeq
          BY <2>3, <4>2, <5>1, <5>2, TripTypes
        <5>4. QED
          BY <4>2, <5>3
      <4>5. QED
        BY <2>1, <4>3, <4>4 DEF Sent
    <3>3. QED
      BY <3>1, <3>2
  <2>5. QED
    BY <2>2, <2>4 DEF NothingStale, ByteSeq
<1>4. QED
  BY <1>2, <1>3

LEMMA TripFollows ==
    ASSUME Links \subseteq AllLinks, IntBits = 32
    PROVE  MInv => RoundTrip
<1>1. SUFFICES ASSUME MInv, length > 0, "rate" \notin DOMAIN sent PROVE RoundTrip
  BY DEF RoundTrip
<1>2. length # 0
  BY <1>1
<1>3. Sent(link, sent, serialized)
  BY <1>1, <1>2 DEF MInv, Idle
<1>4. FromStructure(link, sent, serialized)
  BY <1>1, <1>3, SentTypes DEF Sent
<1>5. link \in AllLinks
  BY <1>4 DEF FromStructure
<1>6. ReadFrom(link, serialized, length, got)
  BY <1>1, <1>2, <1>5, WholeRead
<1>7. PICK bytes, n, y, v : bytes = serialized /\ n = length /\ y = got /\ v = sent
  OBVIOUS
<1>8. v \in Structs(link[1], link[2]) /\ bytes = Serialized(link[1], link[2], v)
  BY <1>4, <1>7 DEF FromStructure
<1>9. Delivered(link, bytes, n, y)
  BY <1>5, <1>6, <1>7, <1>8, DeliveredAll
<1>10. /\ y # <<>>
       /\ \A field \in DOMAIN y :
             IF field \in DOMAIN v THEN FieldArrives(link[2], field, v[field], y[field])
             ELSE \A k \in DOMAIN y[field] : y[field][k] = 0
       /\ link[1] = "library" /\ link[3] = "library" => n = Len(bytes) /\ DOMAIN y = DOMAIN v
  BY <1>5, <1>7, <1>8, <1>9, TripTypes
<1>11. QED
  BY <1>7, <1>10 DEF RoundTrip

(* What ChecksumTells says of a packet in which no bit of the message      *)
(* number was struck.                                                      *)
ToldBehindNumber ==
    verdict # "none" /\ struck \cap 0 .. 15 = {} => (verdict = "ok" <=> struck = {})

LEMMA ToldFollows ==
    ASSUME Links \subseteq AllLinks
    PROVE  MInv => ToldBehindNumber
<1>1. SUFFICES ASSUME MInv, verdict # "none", struck \cap 0 .. 15 = {}
               PROVE  verdict = "ok" <=> struck = {}
  BY DEF ToldBehindNumber
<1>2. /\ Sent(link, sent, serialized)
      /\ OnLine(Packet(link, serialized), struck, wire)
      /\ Judged(link[3], wire, verdict)
  BY <1>1 DEF MInv, Idle
<1>3. link \in AllLinks
  BY <1>2, PeerOnAll DEF Sent, FromPeer, FromStructure
<1>4. PICK packet, bits, faulty, bytes :
         packet = Packet(link, serialized) /\ bits = struck /\ faulty = wire /\ bytes = serialized
  OBVIOUS
<1>5. IsSealed(packet, link[1], link[2], bytes) /\ bytes \in ByteSeq
  BY <1>2, <1>4, SentTypes DEF IsSealed, Packet
<1>6. Fault(packet, bits) /\ faulty = Inverted(packet, bits)
  BY <1>2, <1>4 DEF OnLine
<1>7. /\ bits = {} => CrcMatches(link[3], faulty)
      /\ BehindNumber(packet, bits) => ~CrcMatches(link[3], faulty)
  BY <1>3, <1>5, <1>6, PayloadAccepted
<1>8. bits = {} \/ BehindNumber(packet, bits)
  <2>1. ~\E bit \in 0 .. 15 : bits = {bit}
    BY <1>1, <1>4
  <2>2. QED
    BY <1>6, <2>1 DEF Fault
<1>9. BehindNumber(packet, bits) => bits # {}
  BY DEF BehindNumber
<1>10. /\ verdict \in {"ok", "crc_error"}
       /\ verdict = "ok" => CrcMatches(link[3], faulty)
       /\ verdict = "crc_error" => ~CrcMatches(link[3], faulty)
  BY <1>1, <1>2, <1>4 DEF Judged
<1>11. QED
  BY <1>4, <1>7, <1>8, <1>9, <1>10

(* A half of another implementation, subnormal ones included ("BUG-04      *)
(* FIX", kestrel.c:300-302), is read as the float of exactly its value,    *)
(* whoever sends what besides.                                             *)
THEOREM PeersHalfExact == MessagesSpec => []HalfExact
BY MessagesInvariant, HalfFollows, PTL

(* Along the links of the repository no byte is sent that the serializer   *)
(* did not write, and none is shown that did not come with the message,    *)
(* whose length the deserializers are not told: for any samples in the     *)
(* fields, every fault of the line and either width of int.                *)
THEOREM NothingStaleArrives ==
    ASSUME Links \subseteq AllLinks
    PROVE  MessagesSpec => []NothingStale
BY MessagesInvariant, StaleFollows, PTL

(* Where int has 32 bits, every field of every message of the repository   *)
(* that a reader accepts is the one that was written, or cut as its type   *)
(* says.  With 16 bits it is not (unpack_int32).                           *)
THEOREM FieldsArrive ==
    ASSUME Links \subseteq AllLinks, IntBits = 32
    PROVE  MessagesSpec => []RoundTrip
BY MessagesInvariant, TripFollows, PTL

(* The readers of the repository accept every packet that came as it was   *)
(* sent and refuse every one that Damage changed behind its message        *)
(* number.  ks_crc_accumulate is linear and undone only by itself; what a  *)
(* changed number does to the seed is a matter of the seeds' values.       *)
THEOREM FaultsTold ==
    ASSUME Links \subseteq AllLinks
    PROVE  MessagesSpec => []ToldBehindNumber
BY MessagesInvariant, ToldFollows, PTL
====
