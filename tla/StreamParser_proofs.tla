---- MODULE StreamParser_proofs ----
(***************************************************************************)
(* Proofs about StreamParser for all field sizes, links and faults: the    *)
(* parser stays inside its buffer, hands packets over in order, counts     *)
(* what it abandons, and decides every packet that reaches it whole.       *)
(***************************************************************************)
EXTENDS StreamParser, SequenceTheorems, TLAPS

Bytes == [f : Nat, k : Nat]

Sent == [hdr : Header, size : Nat, seq : Seqs, keyed : BOOLEAN]

Body(h) == h.len + If(h.enc, MacLen)

(* All bytes of a packet with header h, as the parser counts them.         *)
PacketLen(h) == HeaderLen(h) + Body(h) + CrcLen

(* The packet accepted last is in the window.                              *)
LastInWindow == replay.replay_init => 0 \in replay.replay_window

(* In each state the buffer holds the parts read before, and expected_len  *)
(* is where the part being read ends.                                      *)
Framing ==
    /\ state = "IDLE" => buffer = <<>>
    /\ state = "BASE_HDR" => Len(buffer) \in 1 .. Base - 1
    /\ state = "EXT_HDR" =>
          /\ expected_len = HeaderLen(header)
          /\ Base =< Len(buffer) /\ Len(buffer) < expected_len
    /\ state = "PAYLOAD" =>
          /\ expected_len = HeaderLen(header) + Body(header)
          /\ HeaderLen(header) =< Len(buffer) /\ Len(buffer) < expected_len
    /\ state = "CRC" =>
          /\ expected_len = PacketLen(header)
          /\ HeaderLen(header) + Body(header) =< Len(buffer)
          /\ Len(buffer) < expected_len
    /\ state \in {"EXT_HDR", "PAYLOAD", "CRC"} => header.len =< MaxPayload

ParserOK ==
    /\ state \in {"IDLE", "BASE_HDR", "EXT_HDR", "PAYLOAD", "CRC"}
    /\ buffer \in Seq(Bytes) /\ header \in Header /\ expected_len \in 0 .. BufSize
    /\ replay \in Replay /\ LastInWindow
    /\ error_count \in Nat /\ rx_count \in Nat
    /\ result \in Errors \cup {"MORE", "OK"}
    /\ Framing

(* The link's sender writes no nonce that its header does not announce.    *)
LengthsAgree == link.senderCrypto \/ \A h \in link.headers : ~h.enc

(* Only packets that fit are sent, one after the other, none shorter than  *)
(* the parser takes it to be, and at most those sent whole since the last  *)
(* fault are counted as such.                                              *)
SenderOK ==
    /\ link \in Links
    /\ frames \in Seq(Sent) /\ Len(frames) =< link.maxFrames
    /\ \A n \in 1 .. Len(frames) :
          /\ frames[n].hdr.len =< MaxPayload /\ frames[n].size >= MinPacket
          /\ frames[n].size >= PacketLen(frames[n].hdr)
          /\ LengthsAgree => frames[n].size = PacketLen(frames[n].hdr)
    /\ pos \in Nat
    /\ pos > 0 => frames # <<>> /\ pos =< frames[Len(frames)].size
    /\ faults \in 0 .. link.maxFaults
    /\ due \in Errors \cup {"MORE", "OK"}
    /\ quiet \in -1 .. Len(frames) - If(pos > 0, 1)

(* A frame whose first byte is still to come, or is the first of the       *)
(* buffer, is newer than all that were accepted.                           *)
InOrder ==
    /\ accepted \in Seq(Nat)
    /\ \A i \in 1 .. Len(accepted) : accepted[i] \in 1 .. Len(frames)
    /\ \A i \in 1 .. Len(buffer) : buffer[i].f \in 0 .. Len(frames)
    /\ pos = 1 => \A i \in 1 .. Len(accepted) : accepted[i] < Len(frames)
    /\ buffer # <<>> /\ buffer[1].k = 1 =>
          \A i \in 1 .. Len(accepted) : accepted[i] < buffer[1].f
    /\ AcceptedInOrder

IInv == ParserOK /\ SenderOK /\ InOrder

(* What one call of ks_parse_char does: the byte is skipped, kept, ends a  *)
(* packet that is abandoned, or ends one that is handed over.              *)
Skips(b) ==
    /\ state = "IDLE" /\ FALSE \in SofReadings(b)
    /\ UNCHANGED <<state, buffer, header, expected_len>>
    /\ More

Grows(b) ==
    /\ state = "IDLE" => TRUE \in SofReadings(b)
    /\ buffer' = Append(buffer, b)
    /\ state' \in {"BASE_HDR", "EXT_HDR", "PAYLOAD", "CRC"}
    /\ header' \in Header /\ expected_len' \in 0 .. BufSize /\ Framing'
    /\ More

Abandons(b) ==
    /\ state # "IDLE" /\ state' = "IDLE" /\ buffer' = <<>>
    /\ error_count' = error_count + 1
    /\ result' \in Errors /\ header' \in Header
    /\ UNCHANGED <<expected_len, replay, rx_count, accepted>>

Takes(b) ==
    /\ state = "CRC" /\ CrcMatches(Append(buffer, b))
    /\ Verdict(frames[Append(buffer, b)[1].f]) = "OK"
    /\ AcceptPacket(Append(buffer, b)[1].f)

----
LEMMA Consts ==
    /\ H \in Nat /\ W \in Nat /\ W > 0 /\ W < H /\ Seqs = 0 .. 2 * H - 1
    /\ MaxPayload \in Nat /\ MaxWireLen \in Nat /\ BufSize \in Nat
    /\ Base \in Nat /\ Base > 1 /\ Ext \in Nat /\ Ext > 0 /\ CrcLen \in Nat /\ CrcLen > 0
    /\ Target \in Nat /\ FragInfo \in Nat /\ NonceLen \in Nat /\ MacLen \in Nat /\ MacLen > 0
    /\ MaxPacket =< BufSize /\ MaxPacket \in Nat
    /\ MinPacket \in Nat /\ MinPacket > 3
BY WindowAssumption, SizesAssumption DEF Seqs, MaxPacket, MinPacket

(* The lengths of a packet's parts, and of a packet.                       *)
LEMMA Lengths ==
    ASSUME NEW h \in Header
    PROVE  /\ HeaderLen(h) \in Nat /\ Body(h) \in Nat /\ PacketLen(h) \in Nat
           /\ HeaderLen(h) > Base /\ PacketLen(h) >= MinPacket
           /\ h.len =< MaxPayload => PacketLen(h) =< MaxPacket
           /\ h.len \in Nat /\ EncodedLen(h) = HeaderLen(h)
BY Consts DEF Header, HeaderLen, EncodedLen, Body, PacketLen, If, MaxPacket, MinPacket

LEMMA AppendLemma ==
    ASSUME NEW S, NEW q \in Seq(S), NEW e \in S
    PROVE  /\ Append(q, e) \in Seq(S) /\ Append(q, e) # <<>>
           /\ Len(q) \in Nat /\ Len(Append(q, e)) = Len(q) + 1
           /\ Append(q, e)[Len(q) + 1] = e
           /\ \A i \in 1 .. Len(q) : Append(q, e)[i] = q[i]
           /\ q # <<>> => Len(q) > 0
BY AppendProperties

LEMMA LinkLemma ==
    ASSUME SenderOK
    PROVE  link \in Link /\ link.receiver \in ReceiverKinds /\ link.maxFrames \in Nat
           /\ link.headers \subseteq Header /\ link.seqs \subseteq Seqs
           /\ link.maxFaults \in Nat
BY LinkAssumption DEF SenderOK, Link

LEMMA FrameLemma ==
    ASSUME SenderOK, NEW n \in 1 .. Len(frames)
    PROVE  /\ frames[n] \in Sent /\ frames[n].hdr \in Header /\ frames[n].seq \in Seqs
           /\ frames[n].size \in Nat /\ frames[n].size >= MinPacket
           /\ frames[n].hdr.len =< MaxPayload
           /\ frames[n].size >= PacketLen(frames[n].hdr)
           /\ LengthsAgree => frames[n].size = PacketLen(frames[n].hdr)
<1>1. frames[n] \in Sent
  BY ElementOfSeq DEF SenderOK
<1>2. QED
  BY <1>1 DEF SenderOK, Sent

LEMMA SDiffLemma ==
    ASSUME NEW a \in Seqs, NEW b \in Seqs
    PROVE  SDiff(a, b) \in -H .. H - 1
BY Consts DEF SDiff

(* What is accepted becomes, or joins, the window; a difference of -H is   *)
(* never accepted, because bit 0 is set.                                   *)
LEMMA AcceptLemma ==
    ASSUME NEW r \in Replay, r.replay_init => 0 \in r.replay_window,
           NEW seq \in Seqs, ~Stale(r, seq)
    PROVE  /\ Accept(r, seq) \in Replay
           /\ 0 \in Accept(r, seq).replay_window
<1> DEFINE d == SDiff(seq, r.last_seq)
<1>1. /\ r.replay_init \in BOOLEAN /\ r.last_seq \in Seqs
      /\ r.replay_window \subseteq 0 .. W - 1
  BY DEF Replay
<1>2. d \in -H .. H - 1
  BY <1>1, SDiffLemma
<1>3. 0 \in 0 .. W - 1
  BY Consts
<1> HIDE DEF d
<1>4. CASE r.replay_init /\ d =< 0
  <2>1. Accept(r, seq) = [r EXCEPT !.replay_window = @ \cup {-d}]
    BY <1>4 DEF Accept, d
  <2>2. PICK back \in Back(d) : back < W /\ back \notin r.replay_window
    <3>1. PICK back \in Back(d) : ~(back >= W \/ back \in r.replay_window)
      BY <1>4 DEF Stale, d
    <3>2. back \in Int
      BY <1>2, Consts, <3>1 DEF Back
    <3>3. QED
      BY <3>1, <3>2, Consts
  <2>3. d # -H
    BY <2>2, <1>4, Consts DEF Back
  <2>4. -d \in 0 .. W - 1
    BY <2>2, <2>3, <1>2, <1>4, Consts DEF Back
  <2>5. DEFINE bits == r.replay_window \cup {-d}
  <2>6. bits \subseteq 0 .. W - 1 /\ 0 \in bits
    BY <2>4, <1>1, <1>4
  <2>7. Accept(r, seq) = [r EXCEPT !.replay_window = bits]
    BY <2>1
  <2>8. QED
    BY <2>6, <2>7, <1>1 DEF Replay
<1>5. CASE ~(r.replay_init /\ d =< 0)
  <2>1. Accept(r, seq) =
          [replay_init |-> TRUE, last_seq |-> seq,
           replay_window |->
             {0} \cup (IF r.replay_init THEN Shifted(r.replay_window, d) ELSE {})]
    BY <1>5 DEF Accept, d
  <2>2. Shifted(r.replay_window, d) \subseteq 0 .. W - 1
    BY DEF Shifted
  <2>3. QED
    BY <2>1, <2>2, <1>3 DEF Replay
<1>6. QED
  BY <1>4, <1>5

LEMMA VerdictLemma ==
    ASSUME SenderOK, NEW frame \in Sent
    PROVE  /\ Verdict(frame) \in Errors \cup {"OK"} /\ Verdict(frame) # "MORE"
           /\ Verdict(frame) = "OK" => ~Stale(replay, frame.seq)
<1>1. frame.hdr.enc \in BOOLEAN /\ link.receiver \in ReceiverKinds
  BY LinkLemma DEF Sent, Header
<1>2. CASE ~frame.hdr.enc
  <2>1. Verdict(frame) = VerdictOfOpened(frame)
    BY <1>2 DEF Verdict
  <2>2. QED
    BY <2>1 DEF VerdictOfOpened, Errors
<1>3. CASE frame.hdr.enc /\ link.receiver = "nocrypto"
  <2>1. Verdict(frame) = "MAC"
    BY <1>3 DEF Verdict
  <2>2. QED
    BY <2>1 DEF Errors
<1>4. CASE frame.hdr.enc /\ link.receiver = "nokey"
  <2>1. Verdict(frame) = "NO_KEY"
    BY <1>4 DEF Verdict
  <2>2. QED
    BY <2>1 DEF Errors
<1>5. CASE frame.hdr.enc /\ link.receiver = "key"
  <2>1. Verdict(frame) = IF frame.keyed THEN VerdictOfOpened(frame) ELSE "MAC"
    BY <1>5 DEF Verdict
  <2>2. QED
    BY <2>1 DEF VerdictOfOpened, Errors
<1>6. QED
  BY <1>1, <1>2, <1>3, <1>4, <1>5 DEF ReceiverKinds
----
(* A byte the line delivers.                                               *)
Delivered(b) == b \in Bytes /\ b.f \in 0 .. Len(frames)

LEMMA IdleOutcome ==
    ASSUME IInv, NEW b, Delivered(b), IdleByte(b)
    PROVE  Skips(b) \/ Grows(b)
<1>1. state = "IDLE" /\ buffer = <<>> /\ buffer \in Seq(Bytes)
      /\ UNCHANGED <<header, expected_len>> /\ More
  BY DEF IdleByte, IInv, ParserOK, Framing
<1>2. CASE TRUE \in SofReadings(b) /\ state' = "BASE_HDR" /\ buffer' = <<b>>
  <2>1. buffer' = Append(buffer, b) /\ Len(buffer') = 1
    BY <1>1, <1>2, AppendProperties DEF Delivered
  <2>2. Framing'
    BY <1>2, <2>1, Consts DEF Framing
  <2>3. QED
    BY <1>1, <1>2, <2>1, <2>2 DEF Grows, IInv, ParserOK
<1>3. CASE FALSE \in SofReadings(b) /\ UNCHANGED <<state, buffer>>
  BY <1>1, <1>3 DEF Skips
<1>4. QED
  BY <1>2, <1>3 DEF IdleByte

(* Whatever the first bytes are read as is a header.                       *)
LEMMA ReadingsLemma ==
    ASSUME IInv, state = "BASE_HDR", NEW b, Delivered(b)
    PROVE  HeaderReadings(Append(buffer, b)) \subseteq Header
<1> DEFINE buf == Append(buffer, b)
<1>1. buffer \in Seq(Bytes) /\ Len(buffer) \in 1 .. Base - 1
  BY DEF IInv, ParserOK, Framing
<1>2. buf[1] = buffer[1] /\ 1 \in 1 .. Len(buffer)
  BY <1>1, AppendLemma, Consts DEF Delivered
<1>3. buf[1].f \in 0 .. Len(frames)
  BY <1>2 DEF IInv, InOrder
<1>4. Len(frames) \in Nat
  BY LenProperties DEF IInv, SenderOK
<1>5. buf[1].f > 0 => buf[1].f \in 1 .. Len(frames)
  BY <1>3, <1>4
<1>6. buf[1].f > 0 => frames[buf[1].f] \in Sent
  BY <1>5, ElementOfSeq DEF IInv, SenderOK
<1>7. QED
  BY <1>6 DEF HeaderReadings, Sent

LEMMA BaseOutcome ==
    ASSUME IInv, NEW b, Delivered(b), BaseByte(b)
    PROVE  Grows(b) \/ Abandons(b)
<1> DEFINE buf == Append(buffer, b)
<1>1. state = "BASE_HDR" /\ buffer \in Seq(Bytes) /\ Len(buffer) \in 1 .. Base - 1
  BY DEF BaseByte, IInv, ParserOK, Framing
<1>2. Len(buf) = Len(buffer) + 1 /\ Len(buffer) \in Nat
  BY <1>1, AppendLemma DEF Delivered
<1>3. CASE Len(buf) # Base /\ buffer' = buf /\ More /\ UNCHANGED <<state, header, expected_len>>
  <2>1. Framing'
    BY <1>1, <1>2, <1>3, Consts DEF Framing
  <2>2. QED
    BY <1>1, <1>3, <2>1 DEF Grows, IInv, ParserOK
<1>4. ASSUME NEW h \in HeaderReadings(buf), header' = h, h.len > MaxPayload,
             state' = "IDLE", buffer' = <<>>, error_count' = error_count + 1,
             result' = "OVERFLOW", UNCHANGED <<expected_len, replay, rx_count, accepted>>
      PROVE  Abandons(b)
  BY <1>1, <1>4, ReadingsLemma DEF Abandons, Errors
<1>5. ASSUME NEW h \in HeaderReadings(buf), header' = h, h.len =< MaxPayload,
             Len(buf) = Base, state' = "EXT_HDR", buffer' = buf,
             expected_len' = HeaderLen(h), More
      PROVE  Grows(b)
  <2>1. h \in Header
    BY <1>1, <1>5, ReadingsLemma
  <2>2. HeaderLen(h) \in 0 .. BufSize /\ HeaderLen(h) > Base
    BY <2>1, <1>5, Lengths, Consts DEF PacketLen
  <2>3. Framing'
    BY <1>5, <2>2, Consts DEF Framing
  <2>4. QED
    BY <1>1, <1>5, <2>1, <2>2, <2>3 DEF Grows
<1>6. QED
  BY <1>3, <1>4, <1>5 DEF BaseByte

LEMMA ExtOutcome ==
    ASSUME IInv, NEW b, Delivered(b), ExtByte(b)
    PROVE  Grows(b)
<1> DEFINE buf == Append(buffer, b)
<1>1. /\ state = "EXT_HDR" /\ buffer \in Seq(Bytes) /\ header \in Header
      /\ expected_len = HeaderLen(header) /\ Base =< Len(buffer)
      /\ Len(buffer) < expected_len /\ header.len =< MaxPayload
      /\ expected_len \in 0 .. BufSize
  BY DEF ExtByte, IInv, ParserOK, Framing
<1>2. Len(buf) = Len(buffer) + 1 /\ Len(buffer) \in Nat
  BY <1>1, AppendLemma DEF Delivered
<1>3. buffer' = buf /\ More /\ header' = header
  BY DEF ExtByte
<1>4. /\ HeaderLen(header) \in Nat /\ Body(header) \in Nat
      /\ PacketLen(header) \in 0 .. BufSize
      /\ PacketLen(header) = HeaderLen(header) + Body(header) + CrcLen
  BY <1>1, Lengths, Consts DEF PacketLen
<1>5. CASE Len(buf) # expected_len /\ UNCHANGED <<state, expected_len>>
  <2>1. Framing'
    BY <1>1, <1>2, <1>3, <1>5, Consts DEF Framing
  <2>2. QED
    BY <1>1, <1>3, <1>5, <2>1 DEF Grows
<1>6. CASE Len(buf) = expected_len /\ Body(header) = 0
           /\ expected_len' = expected_len + CrcLen /\ state' = "CRC"
  <2>1. Framing'
    BY <1>1, <1>2, <1>3, <1>4, <1>6, Consts DEF Framing
  <2>2. expected_len' \in 0 .. BufSize
    BY <1>1, <1>4, <1>6, Consts
  <2>3. QED
    BY <1>1, <1>3, <1>6, <2>1, <2>2 DEF Grows
<1>7. CASE Len(buf) = expected_len /\ Body(header) > 0
           /\ expected_len' = expected_len + Body(header) /\ state' = "PAYLOAD"
  <2>1. Framing'
    BY <1>1, <1>2, <1>3, <1>4, <1>7, Consts DEF Framing
  <2>2. expected_len' \in 0 .. BufSize
    BY <1>1, <1>4, <1>7, Consts
  <2>3. QED
    BY <1>1, <1>3, <1>7, <2>1, <2>2 DEF Grows
<1>8. QED
  BY <1>5, <1>6, <1>7 DEF ExtByte, Body

LEMMA PayloadOutcome ==
    ASSUME IInv, NEW b, Delivered(b), PayloadByte(b)
    PROVE  Grows(b)
<1> DEFINE buf == Append(buffer, b)
<1>1. /\ state = "PAYLOAD" /\ buffer \in Seq(Bytes) /\ header \in Header
      /\ expected_len = HeaderLen(header) + Body(header)
      /\ HeaderLen(header) =< Len(buffer)
      /\ Len(buffer) < expected_len /\ header.len =< MaxPayload
      /\ expected_len \in 0 .. BufSize
  BY DEF PayloadByte, IInv, ParserOK, Framing
<1>2. Len(buf) = Len(buffer) + 1 /\ Len(buffer) \in Nat
  BY <1>1, AppendLemma DEF Delivered
<1>3. buffer' = buf /\ More /\ header' = header
  BY DEF PayloadByte
<1>4. /\ HeaderLen(header) \in Nat /\ Body(header) \in Nat
      /\ PacketLen(header) \in 0 .. BufSize
      /\ PacketLen(header) = HeaderLen(header) + Body(header) + CrcLen
  BY <1>1, Lengths, Consts DEF PacketLen
<1>5. CASE Len(buf) # expected_len /\ UNCHANGED <<state, expected_len>>
  <2>1. Framing'
    BY <1>1, <1>2, <1>3, <1>4, <1>5, Consts DEF Framing
  <2>2. QED
    BY <1>1, <1>3, <1>5, <2>1 DEF Grows
<1>6. CASE Len(buf) = expected_len /\ expected_len' = expected_len + CrcLen /\ state' = "CRC"
  <2>1. Framing'
    BY <1>1, <1>2, <1>3, <1>4, <1>6, Consts DEF Framing
  <2>2. expected_len' \in 0 .. BufSize
    BY <1>1, <1>4, <1>6, Consts
  <2>3. QED
    BY <1>1, <1>3, <1>6, <2>1, <2>2 DEF Grows
<1>7. QED
  BY <1>5, <1>6 DEF PayloadByte

LEMMA CrcOutcome ==
    ASSUME IInv, NEW b, Delivered(b), CrcByte(b)
    PROVE  Grows(b) \/ Abandons(b) \/ Takes(b)
<1> DEFINE buf == Append(buffer, b)
<1>1. /\ state = "CRC" /\ buffer \in Seq(Bytes) /\ header \in Header
      /\ expected_len = PacketLen(header)
      /\ HeaderLen(header) + Body(header) =< Len(buffer)
      /\ Len(buffer) < expected_len /\ header.len =< MaxPayload
      /\ expected_len \in 0 .. BufSize
  BY DEF CrcByte, IInv, ParserOK, Framing
<1>2. Len(buf) = Len(buffer) + 1 /\ Len(buffer) \in Nat
  BY <1>1, AppendLemma DEF Delivered
<1>3. CASE Len(buf) # expected_len /\ buffer' = buf /\ More
           /\ UNCHANGED <<state, header, expected_len>>
  <2>1. HeaderLen(header) \in Nat /\ Body(header) \in Nat
    BY <1>1, Lengths
  <2>2. Framing'
    BY <1>1, <1>2, <1>3, <2>1, Consts DEF Framing
  <2>3. QED
    BY <1>1, <1>3, <2>2 DEF Grows
<1>4. ASSUME NEW error \in Errors, Reset(error)
      PROVE  Abandons(b)
  BY <1>1, <1>4 DEF Abandons, Reset
<1>5. CASE CrcMatches(buf) /\ Verdict(frames[buf[1].f]) = "OK" /\ AcceptPacket(buf[1].f)
  BY <1>1, <1>5 DEF Takes
<1>6. "CRC" \in Errors
  BY DEF Errors
<1>7. QED
  BY <1>3, <1>4, <1>5, <1>6 DEF CrcByte

LEMMA Outcomes ==
    ASSUME IInv, NEW b, Delivered(b), ParseChar(b)
    PROVE  Skips(b) \/ Grows(b) \/ Abandons(b) \/ Takes(b)
BY IdleOutcome, BaseOutcome, ExtOutcome, PayloadOutcome, CrcOutcome DEF ParseChar
----
(* The CRC matches only at the last byte of the frame that is on the line, *)
(* and only if its first byte is the first in the buffer.                  *)
LEMMA TakesWhole ==
    ASSUME IInv, NEW b, Delivered(b), b = Noise \/ (pos > 0 /\ b = LineByte),
           state = "CRC", CrcMatches(Append(buffer, b))
    PROVE  /\ Append(buffer, b)[1] = buffer[1] /\ buffer # <<>> /\ buffer[1].k = 1
           /\ buffer[1].f = Len(frames) /\ Len(frames) \in 1 .. Len(frames)
           /\ pos > 0 /\ b = LineByte /\ LastByte
<1> DEFINE buf == Append(buffer, b)
<1>1. /\ buffer \in Seq(Bytes) /\ header \in Header
      /\ HeaderLen(header) + Body(header) =< Len(buffer)
  BY DEF IInv, ParserOK, Framing
<1>2. Len(buffer) \in Nat /\ Len(buffer) > 0
  BY <1>1, Lengths, LenProperties, Consts
<1>3. /\ Len(buf) = Len(buffer) + 1 /\ buf[Len(buffer) + 1] = b
      /\ buf[1] = buffer[1] /\ buffer # <<>>
  BY <1>1, <1>2, AppendLemma, EmptySeq DEF Delivered
<1>4. /\ buf[1].f > 0 /\ Len(buf) = frames[buf[1].f].size
      /\ \A i \in 1 .. Len(buf) : buf[i] = [f |-> buf[1].f, k |-> i]
  BY DEF CrcMatches
<1>5. 1 \in 1 .. Len(buf) /\ Len(buf) \in 1 .. Len(buf)
  BY <1>2, <1>3
<1>6. b = [f |-> buf[1].f, k |-> Len(buf)] /\ buf[1] = [f |-> buf[1].f, k |-> 1]
  BY <1>3, <1>4, <1>5
<1>7. b # Noise
  BY <1>4, <1>6 DEF Noise
<1>8. b = LineByte /\ pos > 0 /\ buf[1].f = Len(frames) /\ pos = Len(buf)
  BY <1>6, <1>7 DEF LineByte
<1>9. Len(frames) \in 1 .. Len(frames)
  <2>1. Len(frames) \in Nat
    BY LenProperties DEF IInv, SenderOK
  <2>2. QED
    BY <1>4, <1>8, <2>1
<1>10. QED
  BY <1>3, <1>4, <1>6, <1>8, <1>9 DEF LastByte

LEMMA ParserStep ==
    ASSUME IInv, NEW b, Delivered(b), b = Noise \/ (pos > 0 /\ b = LineByte),
           ParseChar(b)
    PROVE  ParserOK'
<1>1. CASE Skips(b)
  BY <1>1, Consts DEF Skips, More, IInv, ParserOK, Framing, LastInWindow
<1>2. CASE Grows(b)
  <2>1. buffer' \in Seq(Bytes)
    BY <1>2, AppendLemma DEF Grows, Delivered, IInv, ParserOK
  <2>2. QED
    BY <1>2, <2>1 DEF Grows, More, IInv, ParserOK, LastInWindow
<1>3. CASE Abandons(b)
  <2>1. Framing'
    BY <1>3 DEF Abandons, Framing
  <2>2. QED
    BY <1>3, <2>1 DEF Abandons, IInv, ParserOK, LastInWindow
<1>4. CASE Takes(b)
  <2> DEFINE n == Append(buffer, b)[1].f
  <2>1. n \in 1 .. Len(frames)
    BY <1>4, TakesWhole DEF Takes
  <2>2. frames[n] \in Sent /\ frames[n].seq \in Seqs
    BY <2>1, FrameLemma DEF IInv
  <2>3. ~Stale(replay, frames[n].seq)
    BY <1>4, <2>2, VerdictLemma DEF Takes, IInv
  <2>4. replay' \in Replay /\ LastInWindow'
    BY <1>4, <2>2, <2>3, AcceptLemma DEF Takes, AcceptPacket, IInv, ParserOK, LastInWindow
  <2>5. Framing'
    BY <1>4 DEF Takes, AcceptPacket, Framing
  <2>6. QED
    BY <1>4, <2>4, <2>5 DEF Takes, AcceptPacket, IInv, ParserOK
<1>5. QED
  BY <1>1, <1>2, <1>3, <1>4, Outcomes

(* Packets come to the application in the order they were sent.            *)
LEMMA OrderStep ==
    ASSUME IInv, NEW b, Delivered(b), b = Noise \/ (pos > 0 /\ b = LineByte),
           ParseChar(b), frames' = frames, pos' = 1 => pos = 1,
           b = LineByte /\ LastByte /\ pos > 0 => pos' = 0
    PROVE  InOrder'
<1>1. /\ accepted \in Seq(Nat) /\ buffer \in Seq(Bytes)
      /\ Len(accepted) \in Nat /\ Len(frames) \in Nat
  BY LenProperties DEF IInv, InOrder, ParserOK, SenderOK
<1>2. CASE Skips(b)
  BY <1>2 DEF Skips, More, IInv, InOrder, AcceptedInOrder
<1>3. CASE Grows(b)
  <2>1. /\ buffer' = Append(buffer, b) /\ accepted' = accepted
        /\ Len(buffer') = Len(buffer) + 1 /\ Len(buffer) \in Nat
        /\ buffer'[Len(buffer) + 1] = b
        /\ \A i \in 1 .. Len(buffer) : buffer'[i] = buffer[i]
    BY <1>1, <1>3, AppendLemma DEF Grows, More, Delivered
  <2>2. \A i \in 1 .. Len(buffer') : buffer'[i].f \in 0 .. Len(frames)
    <3>1. \A i \in 1 .. Len(buffer') : i \in 1 .. Len(buffer) \/ i = Len(buffer) + 1
      BY <2>1
    <3>2. QED
      BY <2>1, <3>1 DEF Delivered, IInv, InOrder
  <2>3. ASSUME buffer'[1].k = 1, NEW i \in 1 .. Len(accepted)
        PROVE  accepted[i] < buffer'[1].f
    <3>1. CASE buffer # <<>>
      <4>1. 1 \in 1 .. Len(buffer)
        BY <1>1, <3>1, <2>1, EmptySeq
      <4>2. QED
        BY <2>1, <2>3, <3>1, <4>1 DEF IInv, InOrder
    <3>2. CASE buffer = <<>>
      <4>1. buffer'[1] = b
        BY <2>1, <3>2
      <4>2. b = LineByte /\ pos = 1 /\ b.f = Len(frames)
        BY <2>3, <4>1 DEF Noise, LineByte
      <4>3. QED
        BY <2>3, <4>1, <4>2 DEF IInv, InOrder
    <3>3. QED
      BY <3>1, <3>2
  <2>4. QED
    BY <2>1, <2>2, <2>3 DEF IInv, InOrder, AcceptedInOrder
<1>4. CASE Abandons(b)
  BY <1>4 DEF Abandons, IInv, InOrder, AcceptedInOrder
<1>5. CASE Takes(b)
  <2> DEFINE n == buffer[1].f
  <2>1. /\ buffer # <<>> /\ buffer[1].k = 1 /\ n = Len(frames)
        /\ Len(frames) \in 1 .. Len(frames) /\ pos' = 0
        /\ Append(buffer, b)[1] = buffer[1]
    BY <1>5, TakesWhole DEF Takes
  <2>2. accepted' = Append(accepted, n) /\ buffer' = <<>>
    BY <1>5, <2>1 DEF Takes, AcceptPacket
  <2>3. n \in Nat /\ \A i \in 1 .. Len(accepted) : accepted[i] < n
    BY <1>1, <2>1 DEF IInv, InOrder
  <2>4. /\ accepted' \in Seq(Nat) /\ Len(accepted') = Len(accepted) + 1
        /\ accepted'[Len(accepted) + 1] = n
        /\ \A i \in 1 .. Len(accepted) : accepted'[i] = accepted[i]
    BY <1>1, <2>2, <2>3, AppendLemma
  <2>5. \A i \in 1 .. Len(accepted') : i \in 1 .. Len(accepted) \/ i = Len(accepted) + 1
    BY <1>1, <2>4
  <2>6. \A i \in 1 .. Len(accepted') : accepted'[i] \in 1 .. Len(frames)
    BY <2>1, <2>4, <2>5 DEF IInv, InOrder
  <2>7. AcceptedInOrder'
    <3>1. SUFFICES ASSUME NEW i \in 1 .. Len(accepted'), NEW j \in 1 .. Len(accepted'), i < j
                   PROVE  accepted'[i] < accepted'[j]
      BY DEF AcceptedInOrder
    <3>2. i \in 1 .. Len(accepted)
      BY <1>1, <2>4, <3>1
    <3>3. CASE j \in 1 .. Len(accepted)
      BY <2>4, <3>1, <3>2, <3>3 DEF IInv, InOrder, AcceptedInOrder
    <3>4. CASE j = Len(accepted) + 1
      BY <2>3, <2>4, <3>2, <3>4
    <3>5. QED
      BY <2>5, <3>3, <3>4
  <2>8. QED
    BY <2>1, <2>2, <2>4, <2>6, <2>7 DEF InOrder
<1>6. QED
  BY <1>2, <1>3, <1>4, <1>5, Outcomes

(* What a pack function makes of an application's header.                  *)
LEMMA FrameType ==
    ASSUME SenderOK, NEW h \in link.headers, NEW seq \in link.seqs, NEW keyed \in BOOLEAN
    PROVE  /\ Frame(h, seq, keyed) \in Sent
           /\ Frame(h, seq, keyed).hdr.len = h.len
           /\ Frame(h, seq, keyed).size >= MinPacket
           /\ Frame(h, seq, keyed).size >= PacketLen(Frame(h, seq, keyed).hdr)
           /\ LengthsAgree =>
                 Frame(h, seq, keyed).size = PacketLen(Frame(h, seq, keyed).hdr)
<1> DEFINE crypto == h.enc /\ link.senderCrypto
           size == EncodedLen(h) + h.len + If(crypto, MacLen) + CrcLen
           sent == [h EXCEPT !.enc = crypto]
<1>1. h \in Header /\ seq \in Seqs /\ link.senderCrypto \in BOOLEAN
  BY LinkLemma DEF Link
<1>2. crypto \in BOOLEAN /\ h.enc \in BOOLEAN /\ (crypto => h.enc)
      /\ h.cmd \in BOOLEAN /\ h.frag \in BOOLEAN /\ h.len \in Nat
  BY <1>1 DEF Header
<1>3. /\ sent \in Header /\ sent.len = h.len /\ sent.enc = crypto
      /\ sent.cmd = h.cmd /\ sent.frag = h.frag
  BY <1>1, <1>2 DEF Header
<1>4. LengthsAgree => crypto = h.enc
  BY <1>2 DEF LengthsAgree
<1>5. Frame(h, seq, keyed) = [hdr |-> sent, size |-> size, seq |-> seq, keyed |-> keyed]
  BY DEF Frame
<1> HIDE DEF crypto, sent
<1>6. size \in Nat /\ size >= MinPacket
  BY <1>2, Consts DEF EncodedLen, If, MinPacket
<1>7. /\ PacketLen(sent) = Base + Ext + If(h.cmd, Target) + If(h.frag, FragInfo)
                             + If(crypto, NonceLen) + (h.len + If(crypto, MacLen)) + CrcLen
      /\ size = Base + Ext + If(h.cmd, Target) + If(h.frag, FragInfo)
                  + If(h.enc, NonceLen) + h.len + If(crypto, MacLen) + CrcLen
  BY <1>3 DEF PacketLen, HeaderLen, Body, EncodedLen
<1>8. size >= PacketLen(sent)
  BY <1>2, <1>7, Consts DEF If
<1>9. LengthsAgree => size = PacketLen(sent)
  BY <1>2, <1>4, <1>7, Consts DEF If
<1> HIDE DEF size
<1>10. Frame(h, seq, keyed) \in Sent
  BY <1>1, <1>3, <1>5, <1>6 DEF Sent
<1>11. QED
  BY <1>3, <1>5, <1>6, <1>8, <1>9, <1>10

LEMMA SendStep ==
    ASSUME IInv, SendFrame
    PROVE  IInv'
<1>1. PICK h \in link.headers, seq \in link.seqs, keyed \in BOOLEAN :
         h.len =< MaxPayload /\ Transmit(Frame(h, seq, keyed))
  BY DEF SendFrame
<1> DEFINE frame == Frame(h, seq, keyed)
<1>2. /\ frame \in Sent /\ frame.hdr.len =< MaxPayload /\ frame.size >= MinPacket
      /\ frame.size >= PacketLen(frame.hdr)
      /\ LengthsAgree => frame.size = PacketLen(frame.hdr)
  BY <1>1, FrameType DEF IInv
<1> HIDE DEF frame
<1>3. /\ pos = 0 /\ Len(frames) < link.maxFrames /\ frames' = Append(frames, frame)
      /\ pos' = 1 /\ due' = (IF state = "IDLE" THEN Verdict(frame) ELSE "MORE")
      /\ UNCHANGED <<parser, faults, quiet, link>>
  BY <1>1 DEF Transmit, frame
<1>4. ParserOK'
  BY <1>3 DEF parser, IInv, ParserOK, Framing, LastInWindow
<1>5. /\ frames' \in Seq(Sent) /\ Len(frames) \in Nat /\ Len(frames') = Len(frames) + 1
      /\ frames'[Len(frames) + 1] = frame /\ frames' # <<>>
      /\ \A n \in 1 .. Len(frames) : frames'[n] = frames[n]
  BY <1>2, <1>3, AppendLemma DEF IInv, SenderOK
<1>6. SenderOK'
  <2>1. ASSUME NEW n \in 1 .. Len(frames')
        PROVE  /\ frames'[n].hdr.len =< MaxPayload /\ frames'[n].size >= MinPacket
               /\ frames'[n].size >= PacketLen(frames'[n].hdr)
               /\ LengthsAgree => frames'[n].size = PacketLen(frames'[n].hdr)
    <3>1. n \in 1 .. Len(frames) \/ n = Len(frames) + 1
      BY <1>5, <2>1
    <3>2. QED
      BY <1>2, <1>5, <3>1 DEF IInv, SenderOK
  <2>2. Len(frames') =< link'.maxFrames
    BY <1>3, <1>5, LinkLemma DEF IInv
  <2>3. due' \in Errors \cup {"MORE", "OK"}
    BY <1>2, <1>3, VerdictLemma DEF IInv
  <2>4. pos' > 0 /\ pos' \in Nat /\ pos' =< frames'[Len(frames')].size
    <3>1. frame.size \in Nat
      BY <1>2 DEF Sent
    <3>2. QED
      BY <1>2, <1>3, <1>5, <3>1, Consts
  <2>5. quiet' \in -1 .. Len(frames') - If(pos' > 0, 1)
    BY <1>3, <1>5 DEF IInv, SenderOK, If
  <2>6. QED
    BY <1>3, <1>5, <2>1, <2>2, <2>3, <2>4, <2>5 DEF IInv, SenderOK, LengthsAgree
<1>7. InOrder'
  <2>1. /\ accepted' = accepted /\ buffer' = buffer /\ Len(accepted) \in Nat
    BY <1>3, LenProperties DEF parser, IInv, InOrder
  <2>2. \A i \in 1 .. Len(accepted) : accepted[i] \in 1 .. Len(frames')
                                      /\ accepted[i] < Len(frames')
    BY <1>5 DEF IInv, InOrder
  <2>3. \A i \in 1 .. Len(buffer) : buffer[i].f \in 0 .. Len(frames')
    BY <1>5 DEF IInv, InOrder
  <2>4. QED
    BY <2>1, <2>2, <2>3 DEF IInv, InOrder, AcceptedInOrder
<1>8. QED
  BY <1>4, <1>6, <1>7 DEF IInv

(* The line moves on.                                                      *)
LEMMA ShiftLemma ==
    ASSUME SenderOK, pos > 0, Shift
    PROVE  /\ pos' \in Nat /\ pos' # 1
           /\ pos' > 0 => pos' =< frames[Len(frames)].size
           /\ LastByte <=> pos' = 0
           /\ Len(frames) \in Nat /\ Len(frames) \in 1 .. Len(frames)
<1>1. Len(frames) \in Nat /\ Len(frames) > 0
  BY LenProperties, EmptySeq DEF SenderOK
<1>2. frames[Len(frames)].size \in Nat /\ pos \in Nat /\ pos =< frames[Len(frames)].size
  BY <1>1, FrameLemma DEF SenderOK
<1>3. QED
  BY <1>1, <1>2 DEF Shift, LastByte

(* What the line does to a byte of a packet.                               *)
LEMMA LineStep ==
    ASSUME IInv, ByteArrives \/ ByteLost \/ ByteGarbled \/ NoiseByte
    PROVE  SenderOK'
<1>1. frames' = frames /\ link' = link /\ Len(frames) \in Nat
  BY LenProperties DEF ByteArrives, ByteLost, ByteGarbled, NoiseByte, Fault, IInv, SenderOK
<1>2. faults' \in 0 .. link.maxFaults /\ due' \in Errors \cup {"MORE", "OK"}
  <2>1. faults \in 0 .. link.maxFaults /\ link.maxFaults \in Nat
    BY LinkLemma DEF IInv, SenderOK
  <2>2. \/ faults' = faults /\ due' = due
        \/ faults < link.maxFaults /\ faults' = faults + 1 /\ due' = "MORE"
    BY DEF ByteArrives, ByteLost, ByteGarbled, NoiseByte, Fault
  <2>3. QED
    BY <2>1, <2>2 DEF IInv, SenderOK
<1>3. CASE pos > 0 /\ Shift /\ quiet' \in {IF LastByte THEN quiet + 1 ELSE quiet,
                                           IF LastByte THEN 0 ELSE -1}
  <2>1. /\ pos' \in Nat
        /\ pos' > 0 => pos' =< frames[Len(frames)].size
        /\ LastByte <=> pos' = 0
        /\ Len(frames) > 0 /\ frames # <<>>
    BY <1>3, ShiftLemma DEF IInv, SenderOK
  <2>2. quiet \in -1 .. Len(frames) - 1
    BY <1>3 DEF IInv, SenderOK, If
  <2>3. quiet' \in -1 .. Len(frames) - If(pos' > 0, 1)
    <3>1. CASE LastByte
      BY <1>1, <1>3, <2>1, <2>2, <3>1 DEF If
    <3>2. CASE ~LastByte
      BY <1>1, <1>3, <2>1, <2>2, <3>2 DEF If
    <3>3. QED
      BY <3>1, <3>2
  <2>4. QED
    BY <1>1, <1>2, <2>1, <2>3 DEF IInv, SenderOK, LengthsAgree
<1>4. CASE NoiseByte
  <2>1. pos' = pos /\ quiet' = IF pos > 0 THEN -1 ELSE 0
    BY <1>4 DEF NoiseByte
  <2>2. quiet' \in -1 .. Len(frames) - If(pos' > 0, 1)
    <3>1. pos > 0 => Len(frames) > 0
      BY <1>1, EmptySeq DEF IInv, SenderOK
    <3>2. QED
      BY <1>1, <2>1, <3>1 DEF If
  <2>3. QED
    BY <1>1, <1>2, <2>1, <2>2 DEF IInv, SenderOK, LengthsAgree
<1>5. QED
  BY <1>3, <1>4 DEF ByteArrives, ByteLost, ByteGarbled

(* A byte of a frame and Noise are what the line can deliver.              *)
LEMMA DeliveredLemma ==
    ASSUME IInv
    PROVE  Delivered(Noise) /\ (pos > 0 => Delivered(LineByte))
<1>1. Len(frames) \in Nat /\ pos \in Nat
  BY LenProperties DEF IInv, SenderOK
<1>2. QED
  BY <1>1 DEF Delivered, Noise, LineByte, Bytes

LEMMA IInvStep ==
    ASSUME IInv, [Next]_vars
    PROVE  IInv'
<1>1. CASE SendFrame
  BY <1>1, SendStep
<1>2. CASE ByteArrives
  <2>1. pos > 0 /\ ParseChar(LineByte) /\ Shift /\ frames' = frames
    BY <1>2 DEF ByteArrives
  <2>2. pos' # 1 /\ (LastByte => pos' = 0)
    BY <2>1, ShiftLemma DEF IInv
  <2>3. ParserOK' /\ InOrder'
    BY <2>1, <2>2, DeliveredLemma, ParserStep, OrderStep
  <2>4. QED
    BY <1>2, <2>3, LineStep DEF IInv
<1>3. CASE ByteLost
  <2>1. pos > 0 /\ Shift /\ frames' = frames /\ UNCHANGED parser
    BY <1>3 DEF ByteLost, Fault
  <2>2. pos' # 1
    BY <2>1, ShiftLemma DEF IInv
  <2>3. ParserOK'
    BY <2>1 DEF parser, IInv, ParserOK, Framing, LastInWindow
  <2>4. InOrder'
    BY <2>1, <2>2 DEF parser, IInv, InOrder, AcceptedInOrder
  <2>5. QED
    BY <1>3, <2>3, <2>4, LineStep DEF IInv
<1>4. CASE ByteGarbled
  <2>1. pos > 0 /\ ParseChar(Noise) /\ Shift /\ frames' = frames
    BY <1>4 DEF ByteGarbled, Fault
  <2>2. pos' # 1 /\ (LastByte => pos' = 0)
    BY <2>1, ShiftLemma DEF IInv
  <2>3. ParserOK' /\ InOrder'
    BY <2>1, <2>2, DeliveredLemma, ParserStep, OrderStep
  <2>4. QED
    BY <1>4, <2>3, LineStep DEF IInv
<1>5. CASE NoiseByte
  <2>1. ParseChar(Noise) /\ pos' = pos /\ frames' = frames
    BY <1>5 DEF NoiseByte, Fault
  <2>2. ~(Noise = LineByte /\ pos > 0)
    <3>1. SUFFICES ASSUME pos > 0 PROVE Noise # LineByte
      OBVIOUS
    <3>2. pos \in Nat
      BY DEF IInv, SenderOK
    <3>3. QED
      BY <3>1, <3>2 DEF Noise, LineByte
  <2>3. ParserOK' /\ InOrder'
    BY <2>1, <2>2, DeliveredLemma, ParserStep, OrderStep
  <2>4. QED
    BY <1>5, <2>3, LineStep DEF IInv
<1>6. CASE UNCHANGED vars
  BY <1>6 DEF vars, parser, sender, IInv, ParserOK, Framing, LastInWindow, SenderOK, InOrder,
              AcceptedInOrder, LengthsAgree
<1>7. CASE Done
  BY <1>6, <1>7 DEF Done
<1>8. QED
  BY <1>1, <1>2, <1>3, <1>4, <1>5, <1>6, <1>7 DEF Next

LEMMA IInvInit == Init => IInv
<1> SUFFICES ASSUME Init PROVE IInv
  OBVIOUS
<1>1. header \in Header
  <2>1. header = [len |-> 0, cmd |-> FALSE, frag |-> FALSE, enc |-> FALSE]
    BY DEF Init
  <2>2. 0 \in 0 .. MaxWireLen
    BY Consts
  <2>3. QED
    BY <2>1, <2>2 DEF Header
<1>2. replay \in Replay /\ LastInWindow
  BY Consts DEF Init, FreshReplay, Replay, LastInWindow
<1>3. ParserOK
  BY <1>1, <1>2, Consts, EmptySeq DEF Init, ParserOK, Framing
<1>4. SenderOK
  <2>1. link \in Link /\ link \in Links
    BY LinkAssumption DEF Init
  <2>2. link.maxFrames \in Nat /\ link.maxFaults \in Nat
    BY <2>1 DEF Link
  <2>3. frames = <<>> /\ Len(frames) = 0 /\ frames \in Seq(Sent)
    BY EmptySeq DEF Init
  <2>4. QED
    BY <2>1, <2>2, <2>3 DEF Init, SenderOK, If
<1>5. InOrder
  BY EmptySeq DEF Init, InOrder, AcceptedInOrder
<1>6. QED
  BY <1>3, <1>4, <1>5 DEF IInv

LEMMA Invariance == Spec => []IInv
BY IInvInit, IInvStep, PTL DEF Spec
----
(* Every variable keeps its type (kestrel_core.h:224-256): for all field   *)
(* sizes, links and faults, expected_len stays inside the buffer and only  *)
(* bytes the line delivered are in it.                                     *)
THEOREM TypeCorrect == Spec => []TypeOK
<1>1. IInv => TypeOK
  <2> SUFFICES ASSUME IInv PROVE TypeOK
    OBVIOUS
  <2>1. \A i \in 1 .. Len(buffer) : buffer[i].f \in 0 .. Len(frames) /\ buffer[i].k \in Nat
    <3>1. SUFFICES ASSUME NEW i \in 1 .. Len(buffer)
                   PROVE  buffer[i].f \in 0 .. Len(frames) /\ buffer[i].k \in Nat
      OBVIOUS
    <3>2. buffer[i] \in Bytes
      BY <3>1, ElementOfSeq DEF IInv, ParserOK
    <3>3. QED
      BY <3>1, <3>2 DEF Bytes, IInv, InOrder
  <2>2. quiet \in -1 .. link.maxFrames
    BY LinkLemma, LenProperties DEF IInv, SenderOK, If
  <2>3. QED
    BY <2>1, <2>2 DEF TypeOK, IInv, ParserOK, SenderOK, InOrder
<1>2. QED
  BY <1>1, Invariance, PTL

(* ks_parse_char never writes past p->buffer (kestrel.c:1660-1830), for    *)
(* all field sizes and whatever arrives: the check of payload_len against  *)
(* KS_MAX_PAYLOAD_SIZE is enough.                                          *)
THEOREM NoOverflow == Spec => []BufferFits
<1>1. IInv => (TypeOK => BufferFits)
  BY DEF IInv, ParserOK, Framing, BufferFits
<1>2. QED
  BY <1>1, Invariance, TypeCorrect, PTL

(* The application gets sent packets only, each at most once and in order, *)
(* for all links and any number of faults: a packet is handed over when    *)
(* its last byte arrives, and the next one has not begun then.             *)
THEOREM InOrderDelivery == Spec => []AcceptedInOrder
<1>1. IInv => AcceptedInOrder
  BY DEF IInv, InOrder
<1>2. QED
  BY <1>1, Invariance, PTL

(* The parser changes by calls of ks_parse_char only.                      *)
LEMMA StepLemma ==
    ASSUME IInv, [Next]_vars
    PROVE  \/ UNCHANGED parser
           \/ \E b : Delivered(b) /\ ParseChar(b) /\ (b = Noise \/ (pos > 0 /\ b = LineByte))
<1>1. CASE SendFrame
  BY <1>1 DEF SendFrame, Transmit
<1>2. CASE ByteArrives
  BY <1>2, DeliveredLemma DEF ByteArrives
<1>3. CASE ByteLost
  BY <1>3 DEF ByteLost
<1>4. CASE ByteGarbled \/ NoiseByte
  BY <1>4, DeliveredLemma DEF ByteGarbled, NoiseByte
<1>5. CASE Done \/ UNCHANGED vars
  BY <1>5 DEF Done, vars
<1>6. QED
  BY <1>1, <1>2, <1>3, <1>4, <1>5 DEF Next

LEMMA TakesAppends ==
    ASSUME IInv, NEW b, Delivered(b), b = Noise \/ (pos > 0 /\ b = LineByte), Takes(b)
    PROVE  /\ Len(accepted') = Len(accepted) + 1 /\ accepted' # accepted
           /\ error_count' = error_count
<1>1. accepted' = Append(accepted, Append(buffer, b)[1].f) /\ error_count' = error_count
  BY DEF Takes, AcceptPacket
<1>2. Append(buffer, b)[1].f \in Nat
  BY TakesWhole, LenProperties DEF Takes, IInv, SenderOK
<1>3. accepted \in Seq(Nat)
  BY DEF IInv, InOrder
<1>4. Len(accepted') = Len(accepted) + 1 /\ Len(accepted) \in Nat
  BY <1>1, <1>2, <1>3, AppendLemma
<1>5. QED
  BY <1>1, <1>4

(* No error opens the replay window again (kestrel.c:1657-1663): whatever  *)
(* the call returned, replay_window moved only if a packet was accepted.   *)
THEOREM WindowKept == Spec => ErrorsKeepWindow
<1> DEFINE A == replay' # replay => Len(accepted') = Len(accepted) + 1
<1>1. ASSUME IInv, [Next]_vars PROVE A
  <2>1. CASE UNCHANGED parser
    BY <2>1 DEF parser
  <2>2. ASSUME NEW b, Delivered(b), ParseChar(b), b = Noise \/ (pos > 0 /\ b = LineByte)
        PROVE  A
    <3>1. CASE Takes(b)
      BY <1>1, <2>2, <3>1, TakesAppends
    <3>2. CASE Skips(b) \/ Grows(b) \/ Abandons(b)
      BY <3>2 DEF Skips, Grows, Abandons, More
    <3>3. QED
      BY <1>1, <2>2, <3>1, <3>2, Outcomes
  <2>3. QED
    BY <1>1, <2>1, <2>2, StepLemma
<1>2. IInv /\ [Next]_vars => [A]_vars
  BY <1>1
<1>3. QED
  BY <1>2, Invariance, PTL DEF Spec, ErrorsKeepWindow

(* Each packet begun and not handed over is counted once in error_count    *)
(* (kestrel_core.h:254), and nothing else is, for all links and faults.    *)
THEOREM EveryLossCounted == Spec => AbandonedCounted
<1> DEFINE A == error_count' - error_count =
                   If(buffer # <<>> /\ buffer' = <<>> /\ accepted' = accepted, 1)
<1>1. ASSUME IInv, [Next]_vars PROVE A
  <2>1. error_count \in Nat
    BY <1>1 DEF IInv, ParserOK
  <2>2. CASE UNCHANGED parser
    BY <2>1, <2>2 DEF parser, If
  <2>3. ASSUME NEW b, Delivered(b), ParseChar(b), b = Noise \/ (pos > 0 /\ b = LineByte)
        PROVE  A
    <3>1. CASE Takes(b)
      BY <1>1, <2>1, <2>3, <3>1, TakesAppends DEF If
    <3>2. CASE Skips(b)
      BY <2>1, <3>2 DEF Skips, More, If
    <3>3. CASE Grows(b)
      <4>1. buffer \in Seq(Bytes)
        BY <1>1 DEF IInv, ParserOK
      <4>2. buffer' # <<>>
        BY <2>3, <3>3, <4>1, AppendLemma DEF Grows, Delivered
      <4>3. QED
        BY <2>1, <3>3, <4>2 DEF Grows, More, If
    <3>4. CASE Abandons(b)
      <4>1. buffer # <<>>
        <5>1. header \in Header /\ state # "IDLE"
          BY <1>1, <3>4 DEF IInv, ParserOK, Abandons
        <5>2. Len(buffer) > 0
          BY <1>1, <5>1, Lengths, LenProperties, Consts DEF IInv, ParserOK, Framing
        <5>3. QED
          BY <5>2, EmptySeq
      <4>2. QED
        BY <2>1, <3>4, <4>1 DEF Abandons, If
    <3>5. QED
      BY <1>1, <2>3, <3>1, <3>2, <3>3, <3>4, Outcomes
  <2>4. QED
    BY <1>1, <2>2, <2>3, StepLemma
<1>2. IInv /\ [Next]_vars => [A]_vars
  BY <1>1
<1>3. QED
  BY <1>2, Invariance, PTL DEF Spec, AbandonedCounted
----
(* The frame on the line, or the last one that was.                        *)
Last == frames[Len(frames)]

(* The parser has taken exactly the bytes of that frame so far, the first  *)
(* as KS_SOF and the base header as the header it is.                      *)
Tracks ==
    /\ pos > 1 /\ Len(buffer) = pos - 1 /\ state # "IDLE"
    /\ \A i \in 1 .. Len(buffer) : buffer[i] = [f |-> Len(frames), k |-> i]
    /\ IF Len(buffer) < Base THEN state = "BASE_HDR"
       ELSE state # "BASE_HDR" /\ header = Last.hdr

(* While a result is due, the parser is following the frame.               *)
DueInv ==
    due # "MORE" =>
       /\ pos = 0 => state = "IDLE" /\ result = due
       /\ pos = 1 => state = "IDLE"
       /\ pos > 1 => Tracks
       /\ pos > 0 => due = Verdict(Last)

(* A packet begun before the last fault holds all that was sent since.     *)
SyncInv ==
    ~link.sofInside /\ quiet >= 0 =>
       \/ state = "IDLE"
       \/ Tracks
       \/ Len(buffer) >= quiet * MinPacket + If(pos > 0, pos - 1)

LEMMA LastLemma ==
    ASSUME IInv, pos > 0
    PROVE  /\ Len(frames) \in 1 .. Len(frames) /\ Len(frames) \in Nat
           /\ Last \in Sent /\ Last.hdr \in Header /\ Last.hdr.len =< MaxPayload
           /\ Last.size \in Nat /\ Last.size >= MinPacket
           /\ Last.size >= PacketLen(Last.hdr)
           /\ LengthsAgree => Last.size = PacketLen(Last.hdr)
           /\ pos \in Nat /\ pos =< Last.size /\ (LastByte <=> pos = Last.size)
           /\ buffer \in Seq(Bytes) /\ Len(buffer) \in Nat
<1>1. Len(frames) \in Nat /\ Len(frames) > 0 /\ pos =< Last.size /\ pos \in Nat
  BY LenProperties, EmptySeq DEF IInv, SenderOK, Last
<1>2. Len(frames) \in 1 .. Len(frames)
  BY <1>1
<1>3. buffer \in Seq(Bytes) /\ Len(buffer) \in Nat
  BY LenProperties DEF IInv, ParserOK
<1>4. QED
  BY <1>1, <1>2, <1>3, FrameLemma DEF IInv, Last, LastByte

LEMMA GrowTracks ==
    ASSUME IInv, pos > 0, Shift, frames' = frames, ~LastByte,
           Len(buffer) = pos - 1, buffer' = Append(buffer, LineByte),
           \A i \in 1 .. Len(buffer) : buffer[i] = [f |-> Len(frames), k |-> i],
           state' # "IDLE",
           IF pos < Base THEN state' = "BASE_HDR" ELSE state' # "BASE_HDR" /\ header' = Last.hdr
    PROVE  Tracks'
<1>1. /\ Len(buffer') = pos /\ pos \in Nat /\ pos' = pos + 1
      /\ buffer'[pos] = LineByte /\ \A i \in 1 .. Len(buffer) : buffer'[i] = buffer[i]
  BY DeliveredLemma, LastLemma, AppendLemma DEF Delivered, Shift
<1>2. ASSUME NEW i \in 1 .. Len(buffer') PROVE buffer'[i] = [f |-> Len(frames), k |-> i]
  <2>1. i \in 1 .. Len(buffer) \/ i = pos
    BY <1>1, <1>2
  <2>2. QED
    BY <1>1, <2>1 DEF LineByte
<1>3. QED
  BY <1>1, <1>2 DEF Tracks, Last

(* A parser that has all of a frame so far, or waits for its first byte,   *)
(* follows it, at most to its last byte; and to that one where the lengths *)
(* agree.                                                                  *)
LEMMA TrackStep ==
    ASSUME IInv, pos > 0, ParseChar(LineByte), Shift, frames' = frames,
           Tracks \/ (pos = 1 /\ state = "IDLE")
    PROVE  /\ state' = "IDLE" \/ Tracks'
           /\ LastByte => state' = "IDLE"
           /\ LengthsAgree /\ ~LastByte => Tracks' /\ replay' = replay
           /\ LengthsAgree /\ LastByte => result' = Verdict(Last)
<1> DEFINE buf == Append(buffer, LineByte)
<1>1. CASE state = "IDLE"
  <2>1. pos = 1 /\ buffer = <<>> /\ Len(buffer) = 0 /\ ~LastByte
    BY <1>1, LastLemma, Consts, EmptySeq DEF Tracks, IInv, ParserOK, Framing
  <2>2. SofReadings(LineByte) = {TRUE}
    BY <2>1 DEF SofReadings, LineByte
  <2>3. IdleByte(LineByte)
    BY <1>1 DEF ParseChar, BaseByte, ExtByte, PayloadByte, CrcByte
  <2>4. state' = "BASE_HDR" /\ buffer' = <<LineByte>> /\ replay' = replay
    BY <2>2, <2>3 DEF IdleByte, More
  <2>5. buffer' = buf
    BY <2>1, <2>4, DeliveredLemma, AppendProperties DEF Delivered
  <2>6. Tracks'
    BY <2>1, <2>4, <2>5, GrowTracks, Consts
  <2>7. QED
    BY <2>1, <2>4, <2>6
<1>2. CASE Tracks
  <2>1. /\ Len(buffer) = pos - 1 /\ Len(buf) = pos /\ pos \in Nat
        /\ \A i \in 1 .. Len(buf) : buf[i] = [f |-> Len(frames), k |-> i]
    <3>1. /\ buffer \in Seq(Bytes) /\ Len(buffer) = pos - 1 /\ pos \in Nat
          /\ Len(buf) = pos /\ buf[pos] = LineByte
          /\ \A i \in 1 .. Len(buffer) : buf[i] = buffer[i]
      BY <1>2, LastLemma, DeliveredLemma, AppendLemma DEF Tracks, Delivered
    <3>2. ASSUME NEW i \in 1 .. Len(buf) PROVE buf[i] = [f |-> Len(frames), k |-> i]
      <4>1. i \in 1 .. Len(buffer) \/ i = pos
        BY <3>1, <3>2
      <4>2. QED
        BY <1>2, <3>1, <4>1 DEF Tracks, LineByte
    <3>3. QED
      BY <3>1, <3>2
  <2>2. buf[1] = [f |-> Len(frames), k |-> 1] /\ Len(frames) > 0
    BY <2>1, LastLemma
  <2> HIDE DEF buf
  <2>3. CASE state = "BASE_HDR"
    <3>1. pos =< Base /\ ~LastByte
      BY <2>1, <2>3, LastLemma, Consts DEF IInv, ParserOK, Framing, MinPacket
    <3>2. BaseByte(LineByte)
      BY <2>3 DEF ParseChar, IdleByte, ExtByte, PayloadByte, CrcByte
    <3>3. CASE pos # Base
      <4>1. buffer' = buf /\ state' = state /\ replay' = replay
        BY <2>1, <3>2, <3>3 DEF BaseByte, More, buf
      <4>2. pos < Base
        BY <2>1, <3>1, <3>3, Consts
      <4>3. QED
        BY <1>2, <2>1, <2>3, <3>1, <4>1, <4>2, GrowTracks DEF Tracks, buf
    <3>4. CASE pos = Base
      <4>1. HeaderReadings(buf) = {Last.hdr}
        BY <2>1, <2>2, <3>4 DEF HeaderReadings, Last
      <4>2. header' = Last.hdr /\ state' = "EXT_HDR" /\ buffer' = buf /\ replay' = replay
        <5>1. PICK h \in HeaderReadings(buf) :
                /\ header' = h
                /\ \/ h.len > MaxPayload
                   \/ state' = "EXT_HDR" /\ buffer' = buf /\ replay' = replay
          BY <2>1, <3>2, <3>4 DEF BaseByte, More, buf
        <5>2. h = Last.hdr /\ h.len \in Nat /\ h.len =< MaxPayload
          BY <4>1, <5>1, LastLemma, Lengths
        <5>3. QED
          BY <5>1, <5>2, Consts
      <4>3. QED
        BY <1>2, <2>1, <3>1, <3>4, <4>2, GrowTracks, Consts DEF Tracks, buf
    <3>5. QED
      BY <3>3, <3>4
  <2>4. CASE state # "BASE_HDR"
    <3>1. /\ header = Last.hdr /\ Len(buffer) >= Base /\ Len(buffer) \in Nat
          /\ state \in {"EXT_HDR", "PAYLOAD", "CRC"}
      BY <1>2, <2>1, <2>4, LastLemma, Consts DEF Tracks, IInv, ParserOK
    <3>2. /\ HeaderLen(header) \in Nat /\ Body(header) \in Nat
          /\ PacketLen(header) = HeaderLen(header) + Body(header) + CrcLen
          /\ PacketLen(header) =< Last.size /\ Last.size \in Nat /\ PacketLen(header) \in Nat
      BY <3>1, LastLemma, Lengths DEF PacketLen
    <3>3. pos >= Base /\ pos =< PacketLen(header)
      <4>1. Len(buffer) < PacketLen(header)
        <5>1. /\ state = "EXT_HDR" => Len(buffer) < HeaderLen(header)
              /\ state = "PAYLOAD" => Len(buffer) < HeaderLen(header) + Body(header)
              /\ state = "CRC" => Len(buffer) < PacketLen(header)
          BY DEF IInv, ParserOK, Framing
        <5>2. QED
          BY <3>1, <3>2, <5>1, Consts
      <4>2. QED
        BY <2>1, <3>1, <3>2, <4>1, Consts
    <3>4. ASSUME pos # PacketLen(header), header' = header, buffer' = buf, replay' = replay,
                 state' \in {"EXT_HDR", "PAYLOAD", "CRC"}
          PROVE  ~LastByte /\ Tracks' /\ replay' = replay
      <4>1. ~LastByte
        BY <2>1, <3>2, <3>3, <3>4, LastLemma
      <4>2. ~(pos < Base)
        BY <2>1, <3>3, Consts
      <4>3. QED
        BY <1>2, <3>1, <3>4, <4>1, <4>2, GrowTracks DEF Tracks, buf
    <3>5. CASE state = "EXT_HDR"
      <4>1. ExtByte(LineByte)
        BY <3>5 DEF ParseChar, IdleByte, BaseByte, PayloadByte, CrcByte
      <4>2. /\ header' = header /\ buffer' = buf /\ replay' = replay
            /\ state' \in {"EXT_HDR", "PAYLOAD", "CRC"}
        BY <3>5, <4>1 DEF ExtByte, More, buf
      <4>3. pos # PacketLen(header)
        BY <2>1, <3>2, <3>5, Consts DEF IInv, ParserOK, Framing
      <4>4. QED
        BY <3>4, <4>2, <4>3
    <3>6. CASE state = "PAYLOAD"
      <4>1. PayloadByte(LineByte)
        BY <3>6 DEF ParseChar, IdleByte, BaseByte, ExtByte, CrcByte
      <4>2. /\ header' = header /\ buffer' = buf /\ replay' = replay
            /\ state' \in {"EXT_HDR", "PAYLOAD", "CRC"}
        BY <3>6, <4>1 DEF PayloadByte, More, buf
      <4>3. pos # PacketLen(header)
        BY <2>1, <3>2, <3>6, Consts DEF IInv, ParserOK, Framing
      <4>4. QED
        BY <3>4, <4>2, <4>3
    <3>7. CASE state = "CRC"
      <4>1. CrcByte(LineByte) /\ expected_len = PacketLen(header)
        BY <3>7 DEF ParseChar, IdleByte, BaseByte, ExtByte, PayloadByte, IInv, ParserOK, Framing
      <4>2. CASE pos # PacketLen(header)
        <5>1. header' = header /\ buffer' = buf /\ replay' = replay /\ state' = state
          BY <2>1, <4>1, <4>2 DEF CrcByte, More, buf
        <5>2. QED
          BY <3>4, <3>7, <4>2, <5>1
      <4>3. CASE pos = PacketLen(header)
        <5>1. state' = "IDLE"
          BY <2>1, <4>1, <4>3 DEF CrcByte, Reset, AcceptPacket, buf
        <5>2. ASSUME LengthsAgree PROVE LastByte /\ result' = Verdict(Last)
          <6>1. Last.size = pos /\ LastByte
            BY <3>1, <4>3, <5>2, LastLemma
          <6>2. CrcMatches(buf)
            BY <2>1, <2>2, <6>1 DEF CrcMatches, Last
          <6>3. frames[buf[1].f] = Last
            BY <2>2 DEF Last
          <6>4. QED
            BY <2>1, <4>1, <4>3, <6>1, <6>2, <6>3 DEF CrcByte, Reset, AcceptPacket, buf
        <5>3. QED
          BY <5>1, <5>2
      <4>4. QED
        BY <4>2, <4>3
    <3>8. QED
      BY <3>1, <3>5, <3>6, <3>7
  <2>5. QED
    BY <2>3, <2>4
<1>3. QED
  BY <1>1, <1>2

(* Whether the parser follows the frame depends on these variables only.   *)
LEMMA DueStep ==
    ASSUME IInv, LengthsAgree, DueInv, [Next]_vars
    PROVE  DueInv'
<1>1. CASE SendFrame
  <2>1. PICK h \in link.headers, seq \in link.seqs, keyed \in BOOLEAN :
           Transmit(Frame(h, seq, keyed))
    BY <1>1 DEF SendFrame
  <2>2. Frame(h, seq, keyed) \in Sent
    BY <2>1, FrameType DEF IInv
  <2>3. PICK frame \in Sent :
           /\ frames' = Append(frames, frame) /\ pos' = 1
           /\ due' = (IF state = "IDLE" THEN Verdict(frame) ELSE "MORE")
           /\ UNCHANGED <<state, replay, link>>
    BY <2>1, <2>2 DEF Transmit, parser
  <2>4. Last' = frame
    BY <2>3, AppendLemma DEF IInv, SenderOK, Last
  <2>5. Verdict(frame)' = Verdict(frame)
    BY <2>3 DEF Verdict, VerdictOfOpened
  <2>6. QED
    BY <2>3, <2>4, <2>5 DEF DueInv
<1>2. CASE ByteArrives
  <2>1. /\ pos > 0 /\ ParseChar(LineByte) /\ Shift /\ frames' = frames /\ due' = due
        /\ link' = link
    BY <1>2 DEF ByteArrives
  <2> SUFFICES ASSUME due # "MORE" PROVE DueInv'
    BY <2>1 DEF DueInv
  <2>2. (Tracks \/ (pos = 1 /\ state = "IDLE")) /\ due = Verdict(Last)
    BY <2>1 DEF DueInv, IInv, SenderOK
  <2>3. pos' # 1 /\ pos' \in Nat /\ (LastByte <=> pos' = 0)
    BY <2>1, ShiftLemma DEF IInv
  <2>4. CASE LastByte
    BY <2>1, <2>2, <2>3, <2>4, TrackStep DEF DueInv
  <2>5. CASE ~LastByte
    <3>1. Tracks' /\ replay' = replay
      BY <2>1, <2>2, <2>5, TrackStep
    <3>2. Verdict(Last)' = Verdict(Last)
      BY <2>1, <3>1 DEF Verdict, VerdictOfOpened, Last
    <3>3. QED
      BY <2>1, <2>2, <2>3, <2>5, <3>1, <3>2 DEF DueInv
  <2>6. QED
    BY <2>4, <2>5
<1>3. CASE ByteLost \/ ByteGarbled \/ NoiseByte
  BY <1>3 DEF ByteLost, ByteGarbled, NoiseByte, Fault, DueInv
<1>4. CASE Done \/ UNCHANGED vars
  <2>1. UNCHANGED vars
    BY <1>4 DEF Done
  <2>2. (Tracks' <=> Tracks) /\ Verdict(Last)' = Verdict(Last)
    BY <2>1 DEF vars, parser, sender, Tracks, Last, Verdict, VerdictOfOpened
  <2>3. QED
    BY <2>1, <2>2 DEF vars, parser, sender, DueInv
<1>5. QED
  BY <1>1, <1>2, <1>3, <1>4 DEF Next

(* A frame that arrives whole at a parser between packets ends in exactly  *)
(* the result it deserves: for all field sizes and every kind of receiver, *)
(* the lengths ks_parse_char expects (kestrel.c:1700-1743) are those that  *)
(* the pack functions write (kestrel.c:1549-1639), unless a build without  *)
(* crypto is asked to encrypt.                                             *)
THEOREM EveryFrameDecided == Spec => [](LengthsAgree => WholeFrameDecided)
<1>1. Init => (LengthsAgree => DueInv)
  BY DEF Init, DueInv
<1>2. IInv /\ (LengthsAgree => DueInv) /\ [Next]_vars => (LengthsAgree => DueInv)'
  <2> SUFFICES ASSUME IInv, LengthsAgree => DueInv, [Next]_vars, LengthsAgree'
               PROVE  DueInv'
    OBVIOUS
  <2>1. link' = link
    BY DEF Next, SendFrame, Transmit, ByteArrives, ByteLost, ByteGarbled, NoiseByte, Fault,
           Done, vars, sender
  <2>2. LengthsAgree
    BY <2>1 DEF LengthsAgree
  <2>3. QED
    BY <2>2, DueStep
<1>3. (LengthsAgree => DueInv) => (LengthsAgree => WholeFrameDecided)
  BY DEF DueInv, WholeFrameDecided
<1>4. QED
  BY <1>1, <1>2, <1>3, Invariance, PTL DEF Spec

LEMMA Times ==
    ASSUME NEW n \in Int, NEW m \in Nat
    PROVE  n * m \in Int /\ (n + 1) * m = n * m + m /\ 0 * m = 0
OBVIOUS

(* With no packet followed or waited for, the bogus one grows by each byte.*)
LEMMA SyncByte ==
    ASSUME IInv, SyncInv, ByteArrives, ~link.sofInside, quiet >= 0
    PROVE  SyncInv'
<1>1. /\ pos > 0 /\ ParseChar(LineByte) /\ Shift /\ frames' = frames /\ link' = link
      /\ quiet' = IF LastByte THEN quiet + 1 ELSE quiet
  BY DEF ByteArrives
<1>2. /\ pos' \in Nat /\ (LastByte <=> pos' = 0) /\ pos \in Nat
      /\ pos' = IF LastByte THEN 0 ELSE pos + 1
  BY <1>1, ShiftLemma DEF IInv, SenderOK, Shift
<1>3. CASE Tracks \/ (pos = 1 /\ state = "IDLE")
  BY <1>1, <1>3, TrackStep DEF SyncInv
<1>4. CASE state = "IDLE" /\ pos # 1
  <2>1. SofReadings(LineByte) = {FALSE}
    BY <1>4 DEF SofReadings, LineByte
  <2>2. IdleByte(LineByte)
    BY <1>1, <1>4 DEF ParseChar, BaseByte, ExtByte, PayloadByte, CrcByte
  <2>3. state' = "IDLE"
    BY <1>4, <2>1, <2>2 DEF IdleByte
  <2>4. QED
    BY <2>3 DEF SyncInv
<1>5. CASE state # "IDLE" /\ Len(buffer) >= quiet * MinPacket + If(pos > 0, pos - 1)
  <2>1. CASE Skips(LineByte) \/ Abandons(LineByte) \/ Takes(LineByte)
    BY <1>5, <2>1 DEF Skips, Abandons, Takes, AcceptPacket, SyncInv
  <2>2. CASE Grows(LineByte)
    <3>1. Len(buffer') = Len(buffer) + 1 /\ Len(buffer) \in Nat
      BY <1>1, <2>2, LastLemma, DeliveredLemma, AppendLemma DEF Grows, Delivered
    <3>2. quiet \in Int /\ MinPacket \in Nat
      BY Consts, LastLemma, <1>1 DEF IInv, SenderOK
    <3>3. quiet * MinPacket \in Int /\ (quiet + 1) * MinPacket = quiet * MinPacket + MinPacket
      BY <3>2, Times
    <3>4. Len(buffer') >= quiet * MinPacket + pos
      BY <1>1, <1>2, <1>5, <3>1, <3>3 DEF If
    <3>5. CASE LastByte
      <4>1. pos >= MinPacket
        BY <1>1, <3>5, LastLemma
      <4>2. Len(buffer') >= quiet' * MinPacket + If(pos' > 0, pos' - 1)
        BY <1>1, <1>2, <3>1, <3>2, <3>3, <3>4, <3>5, <4>1 DEF If
      <4>3. QED
        BY <4>2 DEF SyncInv, MinPacket
    <3>6. CASE ~LastByte
      <4>1. Len(buffer') >= quiet' * MinPacket + If(pos' > 0, pos' - 1)
        BY <1>1, <1>2, <3>1, <3>2, <3>3, <3>4, <3>6 DEF If
      <4>2. QED
        BY <4>1 DEF SyncInv, MinPacket
    <3>7. QED
      BY <3>5, <3>6
  <2>3. QED
    BY <1>1, <2>1, <2>2, Outcomes, DeliveredLemma
<1>6. QED
  BY <1>3, <1>4, <1>5 DEF SyncInv

LEMMA SyncStep ==
    ASSUME IInv, SyncInv, [Next]_vars
    PROVE  SyncInv'
<1>1. CASE SendFrame
  <2>1. pos = 0 /\ pos' = 1 /\ UNCHANGED <<state, buffer, quiet, link>>
    BY <1>1 DEF SendFrame, Transmit, parser
  <2>2. ~Tracks
    BY <2>1 DEF Tracks
  <2>3. QED
    BY <2>1, <2>2 DEF SyncInv, If
<1>2. IInv' /\ Len(buffer') \in Nat
  BY IInvStep, LenProperties DEF IInv, ParserOK
<1>3. ASSUME quiet' = -1 \/ (quiet' = 0 /\ pos' = 0) PROVE SyncInv'
  <2>1. CASE quiet' = -1
    BY <2>1 DEF SyncInv
  <2>2. CASE quiet' = 0 /\ pos' = 0
    <3>1. 0 * MinPacket = 0
      BY Consts, Times
    <3>2. quiet' * MinPacket + If(pos' > 0, pos' - 1) = 0
      BY <2>2, <3>1 DEF If
    <3>3. Len(buffer') >= quiet' * MinPacket + If(pos' > 0, pos' - 1)
      BY <1>2, <3>2
    <3>4. QED
      BY <3>3 DEF SyncInv, MinPacket
  <2>3. QED
    BY <1>3, <2>1, <2>2
<1>4. CASE ByteArrives
  <2>1. /\ link' = link /\ quiet' = IF LastByte THEN quiet + 1 ELSE quiet
        /\ LastByte => pos' = 0
    BY <1>4 DEF ByteArrives, Shift
  <2>2. quiet \in Int /\ quiet >= -1
    BY LenProperties DEF IInv, SenderOK, If
  <2>3. CASE quiet >= 0
    BY <1>4, <2>1, <2>3, SyncByte DEF SyncInv
  <2>4. CASE quiet = -1
    BY <1>3, <2>1, <2>4
  <2>5. QED
    BY <2>2, <2>3, <2>4
<1>5. CASE ByteLost \/ ByteGarbled
  BY <1>3, <1>5 DEF ByteLost, ByteGarbled, Shift
<1>6. CASE NoiseByte
  BY <1>3, <1>6 DEF NoiseByte, IInv, SenderOK
<1>7. CASE Done \/ UNCHANGED vars
  <2>1. UNCHANGED vars
    BY <1>7 DEF Done
  <2>2. Tracks' <=> Tracks
    BY <2>1 DEF vars, parser, sender, Tracks, Last
  <2>3. QED
    BY <2>1, <2>2 DEF vars, parser, sender, SyncInv
<1>8. QED
  BY <1>1, <1>4, <1>5, <1>6, <1>7 DEF Next

(* Once as many frames were sent whole as fit into one packet of maximal   *)
(* length, ks_parse_char waits for KS_SOF again: for all field sizes, all  *)
(* links on which no other byte is KS_SOF and any number of faults.  The   *)
(* bogus packet is at most MaxPacket bytes long, by the check of           *)
(* kestrel.c:1697, and takes in all that is sent.                          *)
THEOREM Recovers == Spec => []Resynchronised
<1>1. Init => SyncInv
  BY DEF Init, SyncInv
<1>2. IInv /\ SyncInv => Resynchronised
  <2> SUFFICES ASSUME IInv, SyncInv, ~link.sofInside, pos = 0,
                      quiet * MinPacket >= MaxPacket, state # "IDLE"
               PROVE  FALSE
    BY DEF Resynchronised
  <2>1. ~Tracks
    BY DEF Tracks
  <2>2. quiet \in Int /\ MinPacket \in Nat /\ MaxPacket \in Nat /\ MaxPacket > 0
    BY Consts, LenProperties DEF IInv, SenderOK, If, MaxPacket
  <2>3. quiet # -1
    BY <2>2
  <2>4. quiet >= 0
    BY <2>2, <2>3, LenProperties DEF IInv, SenderOK, If
  <2>5. quiet * MinPacket \in Int
    BY <2>2, Times
  <2>6. Len(buffer) >= quiet * MinPacket + If(pos > 0, pos - 1)
    BY <2>1, <2>4 DEF SyncInv
  <2>7. Len(buffer) >= MaxPacket
    BY <2>2, <2>5, <2>6, LenProperties DEF If, IInv, ParserOK
  <2>8. Len(buffer) < MaxPacket
    <3>1. Base < MaxPacket
      BY Consts DEF MaxPacket
    <3>2. /\ header.len =< MaxPayload => PacketLen(header) =< MaxPacket
          /\ HeaderLen(header) \in Nat /\ Body(header) \in Nat
          /\ PacketLen(header) = HeaderLen(header) + Body(header) + CrcLen
      BY Lengths DEF IInv, ParserOK, PacketLen
    <3>3. Len(buffer) \in Nat
      BY LenProperties DEF IInv, ParserOK
    <3>4. /\ state = "BASE_HDR" => Len(buffer) < Base
          /\ state # "BASE_HDR" => Len(buffer) < PacketLen(header) /\ header.len =< MaxPayload
      BY <3>2, <3>3, Consts DEF IInv, ParserOK, Framing
    <3>5. QED
      BY <2>2, <3>1, <3>2, <3>3, <3>4, Consts
  <2>9. QED
    BY <2>2, <2>7, <2>8, LenProperties DEF IInv, ParserOK
<1>3. IInv /\ SyncInv /\ [Next]_vars => SyncInv'
  BY SyncStep
<1>4. QED
  BY <1>1, <1>2, <1>3, Invariance, PTL DEF Spec
====
