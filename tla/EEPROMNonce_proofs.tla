---- MODULE EEPROMNonce_proofs ----
(***************************************************************************)
(* Proofs about EEPROMNonce for every counter width, margin, burst and     *)
(* initial EEPROM content: no nonce counter is used twice, whenever power  *)
(* fails between two saves or in the middle of one that SafeCuts allows:   *)
(* nothing is erased first, and the margin covers what the low cells hold. *)
(***************************************************************************)
EXTENDS EEPROMNonce, SequenceTheorems, TLAPS

(* A save that erases nothing first, and either commits at once or can be  *)
(* cut in one place, below which the margin has room for a burst and all   *)
(* that the low cells hold.                                                *)
SafeCuts ==
    /\ ~Flash
    /\ \A cut, other \in Cuts : cut = other
    /\ \A cut \in Cuts : cut + Burst =< Margin

(* The high cells are as the erased EEPROM was.                            *)
Unwritten == eeprom = Erased \/ \E cut \in Cuts : eeprom >= M - cut

(* What a boot has read is what EEPROM still holds, until the checkpoint.  *)
Booting ==
    pc \in {"init", "override", "checkpoint"} =>
        /\ saved_counter = eeprom
        /\ eeprom < Limit \/ Unwritten

(* While sending, the counter is exactly the checkpoint plus the packets   *)
(* sent since, and past every counter ever sent.                           *)
Sending ==
    /\ pc = "checkpoint" => /\ g_session.seeded
                            /\ g_session.counter = ResumeCounter
    /\ pc \in {"off", "load", "init", "override", "checkpoint"} => g_packet_count = 0
    /\ pc = "loop" =>
          /\ g_session.seeded
          /\ eeprom # Erased /\ eeprom =< Limit + Margin
          /\ g_session.counter = eeprom + g_packet_count
          /\ \A k \in 1 .. Len(issued) : issued[k] < g_session.counter

(* An unwritten EEPROM is one under whose key nothing was sent.            *)
Bounded ==
    \/ Unwritten /\ Len(issued) = 0
    \/ eeprom =< Limit + 2 * Margin

(* Even the high cells alone are within the margin of what was sent.       *)
HighCellsAhead ==
    \A cut \in Cuts : \A k \in 1 .. Len(issued) :
        issued[k] < Floor(eeprom, cut) + Margin

IInv == /\ TypeOK /\ Booting /\ Sending /\ Bounded
        /\ HighCellsAhead /\ ResumeAhead /\ NonceUnique

----
LEMMA Consts ==
    /\ M \in Nat /\ M > 1 /\ Margin \in Nat /\ Margin > 0 /\ Burst \in Nat
    /\ Burst =< Margin /\ Limit \in Nat /\ Limit + 3 * Margin < M
    /\ Erased = M - 1 /\ DemoKey \in Key
    /\ Cuts \subseteq Nat \ {0} /\ \A cut \in Cuts : M % cut = 0
BY CounterAssumption, SketchAssumption DEF Erased

(* Cutting a value in two parts.                                           *)
LEMMA FloorLemma ==
    ASSUME NEW cut \in Nat \ {0}, NEW value \in Nat
    PROVE  /\ Floor(value, cut) \in Nat
           /\ Floor(value, cut) =< value /\ value < Floor(value, cut) + cut
           /\ value % cut \in 0 .. cut - 1
BY DEF Floor

(* Other low cells leave the high ones as they were.                       *)
LEMMA SameHighCells ==
    ASSUME NEW cut \in Nat \ {0}, NEW value \in Nat, NEW low \in 0 .. cut - 1
    PROVE  Floor(Floor(value, cut) + low, cut) = Floor(value, cut)
<1>1. value \div cut \in Nat
  OBVIOUS
<1>2. ASSUME NEW q \in Nat PROVE (q * cut + low) \div cut = q
  OBVIOUS
<1>3. QED
  BY <1>1, <1>2 DEF Floor

LEMMA TimesLemma ==
    ASSUME NEW cut \in Nat \ {0}, NEW q \in Nat, NEW p \in Nat, q < p
    PROVE  q * cut + cut =< p * cut
OBVIOUS

(* Below a multiple of the cut, the high cells are below it by a cut.      *)
LEMMA TopCut ==
    ASSUME NEW cut \in Nat \ {0}, NEW value \in Nat, NEW m \in Nat,
           value < m * cut
    PROVE  /\ Floor(value, cut) + cut =< m * cut
           /\ value >= m * cut - cut => Floor(value, cut) + cut = m * cut
<1> DEFINE q == value \div cut
<1>1. q \in Nat /\ Floor(value, cut) = q * cut
  BY DEF Floor
<1>2. /\ q * cut \in Nat /\ m * cut \in Nat
      /\ q * cut =< value /\ value < q * cut + cut
  BY <1>1, FloorLemma
<1> HIDE DEF q
<1>3. q < m
  <2>1. m < q => m * cut + cut =< q * cut
    BY <1>1, TimesLemma
  <2>2. QED
    BY <1>1, <1>2, <2>1
<1>4. q * cut + cut =< m * cut
  BY <1>1, <1>3, TimesLemma
<1>5. ASSUME q + 1 < m PROVE value < m * cut - cut
  <2>1. (q + 1) * cut + cut =< m * cut
    BY <1>1, <1>5, TimesLemma
  <2>2. (q + 1) * cut = q * cut + cut
    BY <1>1
  <2>3. QED
    BY <1>1, <1>2, <2>1, <2>2
<1>6. q + 1 = m => q * cut + cut = m * cut
  BY <1>1
<1>7. QED
  BY <1>1, <1>2, <1>3, <1>4, <1>5, <1>6

LEMMA UnwrittenLemma ==
    ASSUME SafeCuts, eeprom \in Counters
    PROVE  /\ Unwritten <=> eeprom = Erased \/ \E cut \in Cuts : eeprom >= M - cut
           /\ Unwritten => eeprom + Margin >= M
           /\ eeprom =< Limit + 2 * Margin => eeprom + Margin < M
<1>1. ASSUME NEW cut \in Cuts, eeprom >= M - cut PROVE eeprom + Margin >= M
  <2>1. cut \in Nat /\ cut + Burst =< Margin /\ eeprom \in Nat
    BY Consts DEF SafeCuts, Counters
  <2>2. QED
    BY <1>1, <2>1, Consts
<1>2. eeprom = Erased => eeprom + Margin >= M
  BY Consts
<1>3. eeprom \in Nat
  BY Consts DEF Counters
<1>4. eeprom =< Limit + 2 * Margin => eeprom + Margin < M
  BY <1>3, Consts
<1>5. QED
  BY <1>1, <1>2, <1>4 DEF Unwritten

(* The resume counter is past every counter sent, and the addition wraps   *)
(* only from the erased value.                                             *)
LEMMA ResumeLemma ==
    ASSUME SafeCuts, TypeOK, Bounded, ResumeAhead, saved_counter = eeprom,
           eeprom < Limit \/ Unwritten
    PROVE  /\ ResumeCounter \in Counters
           /\ ResumeCounter < Limit + Margin
           /\ Unwritten => Len(issued) = 0
           /\ ~Unwritten => ResumeCounter = eeprom + Margin
           /\ \A k \in 1 .. Len(issued) : issued[k] < ResumeCounter
<1>1. eeprom \in 0 .. M - 1 /\ issued \in Seq(Counters) /\ Len(issued) \in Nat
  BY DEF TypeOK, Counters
<1>2. CASE Unwritten
  <2>1. eeprom + Margin >= M /\ ~(eeprom =< Limit + 2 * Margin)
    BY <1>1, <1>2, UnwrittenLemma, Consts DEF Counters
  <2>2. ResumeCounter = eeprom + Margin - M /\ Len(issued) = 0
    BY <1>1, <2>1, Consts DEF ResumeCounter, Bounded
  <2>3. QED
    BY <1>1, <1>2, <2>1, <2>2, Consts DEF Counters
<1>3. CASE ~Unwritten
  <2>1. eeprom < Limit /\ eeprom # Erased
    BY <1>3 DEF Unwritten
  <2>2. ResumeCounter = eeprom + Margin
    BY <1>1, <2>1, Consts DEF ResumeCounter
  <2>3. QED
    BY <1>1, <1>3, <2>1, <2>2, Consts DEF Counters, ResumeAhead
<1>4. QED
  BY <1>2, <1>3

LEMMA InitIInv == Init => IInv
<1> SUFFICES ASSUME Init PROVE IInv
  OBVIOUS
<1>1. TypeOK
  BY Consts DEF Init, TypeOK, Session, Wiped, Counters
<1>2. /\ Booting /\ Sending /\ Bounded /\ HighCellsAhead /\ ResumeAhead
      /\ NonceUnique
  BY Consts DEF Init, Booting, Sending, Bounded, HighCellsAhead, ResumeAhead,
                NonceUnique, Unwritten
<1>3. QED
  BY <1>1, <1>2 DEF IInv

(* Sending a packet issues the current counter and moves past it.          *)
LEMMA SendIInv == ASSUME SafeCuts, IInv, SendPacket PROVE IInv'
<1> DEFINE c == g_session.counter
<1>1. /\ g_session \in Session /\ c \in Nat /\ issued \in Seq(Counters)
      /\ g_packet_count \in Nat /\ g_packet_count < Burst /\ eeprom \in Nat
      /\ pc = "loop"
  BY Consts DEF IInv, TypeOK, Session, Counters, SendPacket
<1>2. /\ eeprom # Erased /\ eeprom =< Limit + Margin
      /\ c = eeprom + g_packet_count
      /\ g_session.seeded /\ g_session.initialized
      /\ \A k \in 1 .. Len(issued) : issued[k] < c
  BY <1>1 DEF IInv, Sending, TypeOK
<1>3. c < M - 1 /\ Issued(g_session) = c
  BY <1>1, <1>2, Consts DEF Issued
<1>4. /\ issued' = Append(issued, c)
      /\ g_session' = [g_session EXCEPT !.counter = c + 1]
      /\ g_packet_count' = g_packet_count + 1
      /\ pc' = pc /\ saved_counter' = saved_counter /\ eeprom' = eeprom
  BY <1>3 DEF SendPacket, Generated
<1>5. c \in Counters /\ c + 1 \in Counters
  BY <1>1, <1>3, Consts DEF Counters
<1>6. /\ g_session' \in Session /\ g_session'.seeded /\ g_session'.initialized
      /\ g_session'.counter = c + 1
  BY <1>1, <1>2, <1>4, <1>5 DEF Session
<1>7. /\ issued' \in Seq(Counters) /\ Len(issued') = Len(issued) + 1
      /\ \A k \in 1 .. Len(issued) : issued'[k] = issued[k]
      /\ issued'[Len(issued) + 1] = c
      /\ Len(issued) \in Nat
      /\ \A k \in 1 .. Len(issued) : issued[k] \in Nat
  <2>1. \A k \in 1 .. Len(issued) : issued[k] \in Nat
    BY <1>1, Consts, ElementOfSeq DEF Counters
  <2>2. QED
    BY <1>1, <1>4, <1>5, <2>1, AppendProperties
<1>8. TypeOK'
  <2>1. g_packet_count' \in 0 .. Burst
    BY <1>1, <1>4, Consts
  <2>2. QED
    BY <1>4, <1>6, <1>7, <2>1 DEF IInv, TypeOK
<1>9. Booting' /\ Bounded'
  <2>1. Booting'
    BY <1>1, <1>4 DEF Booting
  <2>2. eeprom =< Limit + 2 * Margin
    BY <1>1, <1>2, Consts
  <2>3. QED
    BY <1>4, <2>1, <2>2 DEF Bounded
<1>10. \A k \in 1 .. Len(issued') : issued'[k] < c + 1
  BY <1>1, <1>2, <1>7
<1>11. Sending'
  <2>1. c + 1 = eeprom' + g_packet_count'
    BY <1>1, <1>2, <1>4
  <2>2. QED
    BY <1>1, <1>2, <1>4, <1>6, <1>10, <2>1 DEF Sending, Erased
<1>12. ResumeAhead'
  <2>1. c + 1 =< eeprom + Margin
    BY <1>1, <1>2, Consts
  <2>2. \A k \in 1 .. Len(issued') : issued'[k] \in Nat
    BY <1>1, <1>7
  <2>3. \A k \in 1 .. Len(issued') : issued'[k] < eeprom + Margin
    BY <1>1, <1>10, <2>1, <2>2, Consts
  <2>4. QED
    BY <1>2, <1>4, <2>3 DEF ResumeAhead, Erased
<1>13. NonceUnique'
  BY <1>1, <1>2, <1>7 DEF IInv, NonceUnique
<1>14. HighCellsAhead'
  <2> SUFFICES ASSUME NEW cut \in Cuts, NEW k \in 1 .. Len(issued')
               PROVE  issued'[k] < Floor(eeprom, cut) + Margin
    BY <1>4 DEF HighCellsAhead
  <2>1. cut \in Nat \ {0} /\ cut + Burst =< Margin
    BY Consts DEF SafeCuts
  <2>2. Floor(eeprom, cut) \in Nat /\ eeprom < Floor(eeprom, cut) + cut
    BY <1>1, <2>1, FloorLemma
  <2>3. c + 1 =< Floor(eeprom, cut) + Margin
    BY <1>1, <1>2, <2>1, <2>2, Consts
  <2>4. issued'[k] \in Nat /\ issued'[k] < c + 1
    BY <1>1, <1>7, <1>10
  <2>5. QED
    BY <1>1, <2>2, <2>3, <2>4, Consts
<1>15. QED
  BY <1>8, <1>9, <1>11, <1>12, <1>13, <1>14 DEF IInv

(* A whole save leaves high cells ahead of what the saved value is ahead of.*)
LEMMA WholeSave ==
    ASSUME SafeCuts, NEW value \in Nat, issued \in Seq(Nat),
           \A k \in 1 .. Len(issued) : issued[k] < value, eeprom' = value,
           issued' = issued
    PROVE  HighCellsAhead'
<1> SUFFICES ASSUME NEW cut \in Cuts, NEW k \in 1 .. Len(issued)
             PROVE  issued[k] < Floor(value, cut) + Margin
  BY DEF HighCellsAhead
<1>1. cut \in Nat \ {0} /\ cut + Burst =< Margin
  BY Consts DEF SafeCuts
<1>2. Floor(value, cut) \in Nat /\ value < Floor(value, cut) + cut
  BY <1>1, FloorLemma
<1>3. issued[k] \in Nat /\ issued[k] < value
  BY ElementOfSeq
<1>4. QED
  BY <1>1, <1>2, <1>3, Consts

(* The checkpoint is written before the first packet of a boot.            *)
LEMMA CheckpointIInv == ASSUME SafeCuts, IInv, Checkpoint PROVE IInv'
<1>1. /\ pc = "checkpoint" /\ pc' = "loop" /\ eeprom' = ResumeCounter
      /\ saved_counter' = saved_counter /\ g_session' = g_session
      /\ g_packet_count' = g_packet_count /\ issued' = issued
  BY DEF Checkpoint
<1>2. /\ saved_counter = eeprom /\ (eeprom < Limit \/ Unwritten)
      /\ g_session.seeded /\ g_session.counter = ResumeCounter
      /\ g_packet_count = 0 /\ g_session.initialized
      /\ issued \in Seq(Counters)
  BY <1>1 DEF IInv, Booting, Sending, TypeOK
<1>3. /\ ResumeCounter \in Counters /\ ResumeCounter < Limit + Margin
      /\ \A k \in 1 .. Len(issued) : issued[k] < ResumeCounter
  BY <1>1, ResumeLemma DEF IInv, Booting
<1>4. /\ ResumeCounter \in Nat /\ ResumeCounter # Erased
      /\ \A k \in 1 .. Len(issued) : issued[k] \in Nat
  <2>1. ResumeCounter \in Nat /\ ResumeCounter # Erased
    BY <1>3, Consts DEF Counters
  <2>2. \A k \in 1 .. Len(issued) : issued[k] \in Nat
    BY <1>2, ElementOfSeq, Consts DEF Counters
  <2>3. QED
    BY <2>1, <2>2
<1>5. TypeOK'
  BY <1>1, <1>2, <1>3 DEF IInv, TypeOK
<1>6. Booting'
  BY <1>1 DEF Booting
<1>7. Bounded'
  BY <1>1, <1>3, <1>4, Consts DEF Bounded
<1>8. Sending'
  <2>1. ResumeCounter = ResumeCounter + 0
    BY <1>4
  <2>2. ResumeCounter =< Limit + Margin
    BY <1>3, <1>4, Consts
  <2>3. QED
    BY <1>1, <1>2, <1>3, <1>4, <2>1, <2>2 DEF Sending, Erased
<1>9. ResumeAhead'
  <2>1. \A k \in 1 .. Len(issued) : issued[k] < ResumeCounter + Margin
    BY <1>3, <1>4, Consts
  <2>2. QED
    BY <1>1, <1>4, <2>1 DEF ResumeAhead, Erased
<1>10. NonceUnique'
  BY <1>1 DEF IInv, NonceUnique
<1>11. HighCellsAhead'
  <2>1. issued \in Seq(Nat)
    BY <1>2, <1>4, ElementOfSeq, Consts DEF Counters
  <2>2. QED
    BY <1>1, <1>3, <1>4, <2>1, WholeSave
<1>12. QED
  BY <1>5, <1>6, <1>7, <1>8, <1>9, <1>10, <1>11 DEF IInv

(* Saving what is left of the burst keeps EEPROM behind no sent counter.   *)
LEMMA SaveIInv == ASSUME SafeCuts, IInv, SaveAndStop PROVE IInv'
<1>1. /\ pc = "loop" /\ pc' = "stopped" /\ eeprom' = GetCounter(g_session)
      /\ saved_counter' = saved_counter /\ g_session' = g_session
      /\ g_packet_count' = g_packet_count /\ issued' = issued
      /\ g_packet_count >= Burst
  BY DEF SaveAndStop
<1>2. /\ eeprom # Erased /\ eeprom =< Limit + Margin /\ eeprom \in Nat
      /\ g_session.seeded /\ g_session.counter = eeprom + g_packet_count
      /\ g_packet_count \in Nat /\ g_packet_count =< Burst
      /\ issued \in Seq(Counters)
      /\ \A k \in 1 .. Len(issued) : issued[k] < g_session.counter
  BY <1>1, Consts DEF IInv, Sending, TypeOK, Counters
<1>3. eeprom' = eeprom + g_packet_count
  BY <1>1, <1>2 DEF GetCounter
<1>4. /\ eeprom' \in Counters /\ eeprom' =< Limit + 2 * Margin /\ eeprom' # Erased
      /\ eeprom' \in Nat
  BY <1>2, <1>3, Consts DEF Counters
<1>5. TypeOK'
  BY <1>1, <1>4 DEF IInv, TypeOK
<1>6. Booting' /\ Sending'
  BY <1>1 DEF Booting, Sending
<1>7. Bounded'
  BY <1>4 DEF Bounded
<1>8. ResumeAhead'
  <2>1. \A k \in 1 .. Len(issued) : issued[k] < eeprom'
    BY <1>2, <1>3
  <2>2. \A k \in 1 .. Len(issued) : issued[k] \in Nat
    BY <1>2, ElementOfSeq, Consts DEF Counters
  <2>3. \A k \in 1 .. Len(issued) : issued[k] < eeprom' + Margin
    BY <1>4, <2>1, <2>2, Consts
  <2>4. QED
    BY <1>1, <1>4, <2>3 DEF ResumeAhead, Erased
<1>9. NonceUnique'
  BY <1>1 DEF IInv, NonceUnique
<1>10. HighCellsAhead'
  <2>1. issued \in Seq(Nat)
    BY <1>2, Consts DEF Counters
  <2>2. \A k \in 1 .. Len(issued) : issued[k] < eeprom'
    BY <1>2, <1>3
  <2>3. QED
    BY <1>1, <1>4, <2>1, <2>2, WholeSave
<1>11. QED
  BY <1>5, <1>6, <1>7, <1>8, <1>9, <1>10 DEF IInv

(* The steps that write neither EEPROM nor the history.                    *)
LEMMA QuietIInv ==
    ASSUME IInv, eeprom' = eeprom, issued' = issued, TypeOK', Booting', Sending'
    PROVE  IInv'
BY DEF IInv, Bounded, HighCellsAhead, ResumeAhead, NonceUnique, Unwritten, Erased, Floor

LEMMA BootIInv == ASSUME SafeCuts, IInv, PowerOn \/ Load PROVE IInv'
<1>1. CASE PowerOn
  <2>1. TypeOK'
    BY <1>1 DEF PowerOn, IInv, TypeOK
  <2>2. Booting' /\ Sending'
    BY <1>1 DEF PowerOn, IInv, Booting, Sending
  <2>3. QED
    BY <1>1, <2>1, <2>2, QuietIInv DEF PowerOn
<1>2. CASE Load
  <2>1. TypeOK'
    BY <1>2 DEF Load, IInv, TypeOK
  <2>2. eeprom < Limit \/ Unwritten
    <3>1. /\ eeprom \in Counters /\ (eeprom < Limit \/ eeprom + Margin >= M)
          /\ Unwritten \/ eeprom =< Limit + 2 * Margin
      BY <1>2 DEF Load, IInv, TypeOK, Bounded
    <3>2. eeprom =< Limit + 2 * Margin => eeprom + Margin < M
      BY <3>1, UnwrittenLemma
    <3>3. QED
      BY <3>1, <3>2, Consts DEF Counters
  <2>3. Booting' /\ Sending'
    BY <1>2, <2>2 DEF Load, IInv, Booting, Sending, Unwritten, Erased
  <2>4. QED
    BY <1>2, <2>1, <2>3, QuietIInv DEF Load
<1>3. QED
  BY <1>1, <1>2

LEMMA SessionIInv ==
    ASSUME IInv, InitSessionFails \/ \E seed \in Counters : InitSession(seed)
    PROVE  IInv'
<1>1. CASE InitSessionFails
  <2>1. g_session' \in Session
    <3>1. Wiped \in Session
      BY Consts DEF Wiped, Session, Counters
    <3>2. g_session' = [Wiped EXCEPT !.key = NoKey]
      BY <1>1 DEF InitSessionFails, SessionInitFailed
    <3>3. QED
      BY <3>1, <3>2 DEF Session
  <2>2. TypeOK'
    BY <1>1, <2>1 DEF InitSessionFails, IInv, TypeOK
  <2>3. Booting' /\ Sending'
    BY <1>1 DEF InitSessionFails, IInv, Booting, Sending
  <2>4. QED
    BY <1>1, <2>2, <2>3, QuietIInv DEF InitSessionFails
<1>2. ASSUME NEW seed \in Counters, InitSession(seed) PROVE IInv'
  <2>1. g_session' \in Session /\ g_session'.initialized
    BY <1>2, Consts DEF InitSession, SessionInit, Session
  <2>2. TypeOK'
    BY <1>2, <2>1 DEF InitSession, IInv, TypeOK
  <2>3. Booting' /\ Sending'
    BY <1>2 DEF InitSession, IInv, Booting, Sending, Unwritten, Erased
  <2>4. QED
    BY <1>2, <2>2, <2>3, QuietIInv DEF InitSession
<1>3. QED
  BY <1>1, <1>2

LEMMA OverrideIInv == ASSUME SafeCuts, IInv, Override PROVE IInv'
<1>1. /\ pc = "override" /\ pc' = "checkpoint" /\ saved_counter' = saved_counter
      /\ g_session' = SetCounter(g_session, ResumeCounter)
      /\ g_packet_count' = g_packet_count /\ eeprom' = eeprom /\ issued' = issued
  BY DEF Override
<1>2. /\ ResumeCounter \in Counters /\ g_session \in Session
      /\ g_session.initialized
  BY <1>1, ResumeLemma DEF IInv, Booting, TypeOK
<1>3. /\ g_session' \in Session /\ g_session'.initialized
      /\ g_session'.seeded /\ g_session'.counter = ResumeCounter
  BY <1>1, <1>2 DEF SetCounter, Session
<1>4. ResumeCounter' = ResumeCounter
  BY <1>1 DEF ResumeCounter
<1>5. TypeOK'
  BY <1>1, <1>3 DEF IInv, TypeOK
<1>6. Booting' /\ Sending'
  BY <1>1, <1>3, <1>4 DEF IInv, Booting, Sending, Unwritten, Erased
<1>7. QED
  BY <1>1, <1>5, <1>6, QuietIInv

(* What SwitchedOff clears.                                                *)
LEMMA OffLemma ==
    ASSUME IInv, SwitchedOff, eeprom' \in Counters
    PROVE  TypeOK' /\ Booting' /\ Sending'
<1>1. g_session' \in Session
  BY Consts DEF SwitchedOff, Wiped, Session, Counters
<1>2. TypeOK'
  BY <1>1, Consts DEF SwitchedOff, IInv, TypeOK, Counters
<1>3. Booting' /\ Sending'
  BY DEF SwitchedOff, Booting, Sending
<1>4. QED
  BY <1>2, <1>3

LEMMA PowerLossIInv == ASSUME IInv, PowerLoss PROVE IInv'
<1>1. SwitchedOff /\ eeprom' = eeprom /\ issued' = issued
  BY DEF PowerLoss, SwitchedOff
<1>2. eeprom' \in Counters
  BY <1>1 DEF IInv, TypeOK
<1>3. QED
  BY <1>1, <1>2, OffLemma, QuietIInv

(* A save cut short keeps the high cells, and with them what they promise. *)
LEMMA TornIInv ==
    ASSUME SafeCuts, IInv, SwitchedOff, NEW cut \in Cuts, NEW new \in Counters,
           eeprom' = Torn(new, cut), Unwritten \/ eeprom =< Limit + Margin
    PROVE  IInv'
<1> DEFINE low == new % cut
<1>1. /\ cut \in Nat \ {0} /\ cut + Burst =< Margin /\ M % cut = 0
      /\ new \in Nat /\ eeprom \in Nat /\ eeprom < M
      /\ issued \in Seq(Counters) /\ issued' = issued
  BY Consts DEF SafeCuts, IInv, TypeOK, Counters, SwitchedOff
<1>2. /\ low \in Nat /\ low < cut
      /\ Floor(eeprom, cut) \in Nat /\ Floor(eeprom, cut) =< eeprom
      /\ eeprom < Floor(eeprom, cut) + cut
  <2>1. low \in 0 .. cut - 1
    BY <1>1, FloorLemma
  <2>2. QED
    BY <1>1, <2>1, FloorLemma
<1>3. eeprom' = Floor(eeprom, cut) + low /\ eeprom' \in Nat
  BY <1>2 DEF Torn
<1>4. Floor(eeprom', cut) = Floor(eeprom, cut)
  BY <1>1, <1>2, <1>3, SameHighCells
<1> DEFINE m == M \div cut
<1>5. m \in Nat /\ M = m * cut
  <2>1. M = m * cut + (M % cut) /\ m \in Nat
    BY <1>1, Consts
  <2>2. QED
    BY <1>1, <2>1
<1> HIDE DEF m
<1>6. /\ Floor(eeprom, cut) + cut =< M
      /\ eeprom >= M - cut => Floor(eeprom, cut) + cut = M
  BY <1>1, <1>5, TopCut
<1>7. eeprom' \in Counters
  BY <1>1, <1>2, <1>3, <1>6, Consts DEF Counters
<1>8. TypeOK' /\ Booting' /\ Sending'
  BY <1>7, OffLemma
<1>9. CASE Unwritten
  <2>1. Len(issued) = 0
    BY <1>1, <1>9, UnwrittenLemma, Consts DEF IInv, Bounded, Counters
  <2>2. \E other \in Cuts : eeprom >= M - other
    BY <1>1, <1>9, Consts DEF Unwritten
  <2>3. eeprom >= M - cut
    BY <2>2 DEF SafeCuts
  <2>4. Floor(eeprom, cut) + cut = M
    BY <1>6, <2>3
  <2>5. eeprom' >= M - cut
    BY <1>1, <1>2, <1>3, <2>4, Consts
  <2>6. Bounded'
    BY <1>1, <2>1, <2>5 DEF Bounded, Unwritten
  <2>7. HighCellsAhead' /\ ResumeAhead' /\ NonceUnique'
    BY <1>1, <2>1 DEF HighCellsAhead, ResumeAhead, NonceUnique
  <2>8. QED
    BY <1>8, <2>6, <2>7 DEF IInv
<1>10. CASE eeprom =< Limit + Margin
  <2>1. eeprom' =< Limit + 2 * Margin /\ eeprom' # Erased
    BY <1>1, <1>2, <1>3, <1>10, Consts
  <2>2. Bounded'
    BY <2>1 DEF Bounded
  <2>3. \A k \in 1 .. Len(issued) :
            issued[k] \in Nat /\ issued[k] < Floor(eeprom, cut) + Margin
    BY <1>1, ElementOfSeq, Consts DEF IInv, HighCellsAhead, Counters
  <2>4. HighCellsAhead'
    BY <1>1, <1>4, <2>3 DEF HighCellsAhead, SafeCuts
  <2>5. ResumeAhead'
    BY <1>1, <1>2, <1>3, <2>1, <2>3, Consts, SMTT(30) DEF ResumeAhead, Erased
  <2>6. NonceUnique'
    BY <1>1 DEF IInv, NonceUnique
  <2>7. QED
    BY <1>8, <2>2, <2>4, <2>5, <2>6 DEF IInv
<1>11. QED
  BY <1>9, <1>10

LEMMA PowerLossInSaveIInv == ASSUME SafeCuts, IInv, PowerLossInSave PROVE IInv'
<1>1. PICK cut \in Cuts :
         \/ pc = "checkpoint" /\ eeprom' = Torn(ResumeCounter, cut)
         \/ pc = "loop" /\ eeprom' = Torn(GetCounter(g_session), cut)
  BY DEF PowerLossInSave, Remains, SafeCuts
<1>2. SwitchedOff
  BY DEF PowerLossInSave
<1>3. CASE pc = "checkpoint" /\ eeprom' = Torn(ResumeCounter, cut)
  <2>1. saved_counter = eeprom /\ (eeprom < Limit \/ Unwritten)
    BY <1>3 DEF IInv, Booting
  <2>2. ResumeCounter \in Counters
    BY <2>1, ResumeLemma DEF IInv
  <2>3. Unwritten \/ eeprom =< Limit + Margin
    BY <2>1, Consts DEF IInv, TypeOK, Counters
  <2>4. QED
    BY <1>2, <1>3, <2>2, <2>3, TornIInv
<1>4. CASE pc = "loop" /\ eeprom' = Torn(GetCounter(g_session), cut)
  <2>1. GetCounter(g_session) \in Counters /\ eeprom =< Limit + Margin
    BY <1>4 DEF IInv, Sending, TypeOK, Session, GetCounter
  <2>2. QED
    BY <1>2, <1>4, <2>1, TornIInv
<1>5. QED
  BY <1>1, <1>3, <1>4

LEMMA NextIInv == ASSUME SafeCuts, IInv, [Next]_vars PROVE IInv'
<1>1. CASE UNCHANGED vars
  BY <1>1 DEF vars, IInv, TypeOK, Booting, Sending, Bounded, HighCellsAhead,
               ResumeAhead, NonceUnique, Unwritten, Erased, ResumeCounter
<1>2. CASE Next
  BY <1>2, BootIInv, SessionIInv, OverrideIInv, CheckpointIInv, SendIInv,
     SaveIInv, PowerLossIInv, PowerLossInSaveIInv DEF Next
<1>3. QED
  BY <1>1, <1>2

----
(* The invariant holds for every counter width, margin, burst no larger    *)
(* than the margin, initial EEPROM content below the limit, and place at   *)
(* which a save may be cut safely.                                         *)
THEOREM Invariance == ASSUME SafeCuts PROVE Spec => []IInv
<1>1. Init => IInv
  BY InitIInv
<1>2. IInv /\ [Next]_vars => IInv'
  BY NextIInv
<1>3. QED
  BY <1>1, <1>2, PTL DEF Spec

(* Type correctness: the counter never leaves its 32 bits.                 *)
THEOREM TypeCorrect == ASSUME SafeCuts PROVE Spec => []TypeOK
<1>1. IInv => TypeOK
  BY DEF IInv
<1>2. QED
  BY <1>1, Invariance, PTL

(* No counter is sent twice under the key, whenever the power fails        *)
(* between saves or in the middle of a safe one.                           *)
THEOREM NoNonceReuse == ASSUME SafeCuts PROVE Spec => []NonceUnique
<1>1. IInv => NonceUnique
  BY DEF IInv
<1>2. QED
  BY <1>1, Invariance, PTL

(* With safe saves, a board resuming from EEPROM at any moment starts past *)
(* every counter sent.                                                     *)
THEOREM AlwaysAhead == ASSUME SafeCuts PROVE Spec => []ResumeAhead
<1>1. IInv => ResumeAhead
  BY DEF IInv
<1>2. QED
  BY <1>1, Invariance, PTL

(* The sketch implements the counter that survives power cycles: its       *)
(* packets carry ever larger counters, whatever happens between them.      *)
THEOREM DurableImplemented == ASSUME SafeCuts PROVE Spec => ImplementsDurable
<1>1. Init => Durable!Init
  BY DEF Init, Durable!Init
<1>2. ASSUME IInv, [Next]_vars PROVE [Durable!Next]_issued
  <2>1. CASE SendPacket
    <3>1. /\ g_session.counter \in Counters /\ g_session.counter < M - 1
          /\ \A k \in 1 .. Len(issued) : issued[k] < g_session.counter
      <4>1. /\ pc = "loop" /\ g_packet_count \in Nat /\ g_packet_count < Burst
            /\ eeprom \in Nat
        BY <1>2, <2>1, Consts DEF SendPacket, IInv, TypeOK, Counters
      <4>2. /\ eeprom =< Limit + Margin /\ g_session \in Session
            /\ g_session.counter = eeprom + g_packet_count
            /\ \A k \in 1 .. Len(issued) : issued[k] < g_session.counter
        BY <1>2, <4>1 DEF IInv, Sending, TypeOK
      <4>3. QED
        BY <4>1, <4>2, Consts DEF Session
    <3>2. issued' = Append(issued, g_session.counter)
      BY <2>1, <3>1, Consts DEF SendPacket, Issued, Counters
    <3>3. QED
      BY <3>1, <3>2 DEF Durable!Next, Durable!Issue
  <2>2. CASE ~SendPacket
    BY <1>2, <2>2 DEF Next, vars, PowerOn, Load, InitSession, InitSessionFails,
       Override, Checkpoint, SaveAndStop, PowerLoss, PowerLossInSave, SwitchedOff
  <2>3. QED
    BY <2>1, <2>2
<1>3. QED
  BY <1>1, <1>2, Invariance, PTL DEF Spec, ImplementsDurable, Durable!Spec
====
