---- MODULE Wire ----
(***************************************************************************)
(* The packet header on the wire: kestrel.c's encoder and decoder and those*)
(* of the tools on the PC: the ground station kestrel_gcs_usb.py,          *)
(* gcs_sender.py, serial_listener.py and the decoder of kestrel_gcs.py.    *)
(* Bytes are integers and every shift and mask is the division and         *)
(* remainder it stands for.  The decoder writes into p->header, which      *)
(* keeps what the packet before left there, as the header of ks_parser_t   *)
(* does.                                                                   *)
(***************************************************************************)
EXTENDS Integers, Sequences

CONSTANTS
    Packets     \* packets sent: a header, and who encodes it

Byte == 0 .. 255
Word == 0 .. 2^16 - 1

\* ks_header_t; the flags are 0 or 1 and the nonce is eight bytes.
Header == [payload_len : Word, priority : Byte, stream_type : Byte,
           encrypted : 0 .. 1, compressed : 0 .. 1, fragmented : 0 .. 1,
           sequence : Word, sys_id : Byte, comp_id : Byte,
           target_sys_id : Byte, msg_id : Word,
           frag_index : Byte, frag_total : Byte, nonce : [1 .. 8 -> Byte]]

\* The library, kestrel_gcs_usb.py, or gcs_sender.py.
ASSUME WireAssumption ==
    Packets \subseteq [sender : {"kestrel", "gcs", "gcs_sender"}, header : Header]

VARIABLES
    sent,       \* the header last given to the encoder
    wire,       \* the bytes it made of it
    header,     \* the receiving parser's p->header
    stage       \* how far the receiver is: "idle", "coming", "base" or "done"

wire_vars == <<sent, wire, header, stage>>

KS_SOF == 165

IsCommand(stream) == stream \in {2, 3}     \* KS_STREAM_CMD, KS_STREAM_CMD_ACK

(* What the senders put into a header: a KS_STREAM_* number, which has four*)
(* bits; kestrel_gcs_usb.py neither fragments nor compression, commands to *)
(* system 1, and here no encryption (with it, the flag GcsEncode writes is *)
(* not the one DecodeBase reads: GroundLink); gcs_sender.py no commands.   *)
Fitting(p) ==
    /\ p.header.stream_type < 16
    /\ p.sender # "kestrel" =>
          p.header.encrypted = 0 /\ p.header.compressed = 0 /\ p.header.fragmented = 0
    /\ p.sender = "gcs" /\ IsCommand(p.header.stream_type) => p.header.target_sys_id = 1
    /\ p.sender = "gcs_sender" => ~IsCommand(p.header.stream_type)

ASSUME SenderAssumption == \A p \in Packets : Fitting(p)

\* n bits of v from bit lo upwards: (v >> lo) & (2^n - 1).
Bits(v, lo, n) == (v \div 2^lo) % 2^n

EncodeBase(h) ==
    << KS_SOF,
       Bits(h.payload_len, 8, 4) * 16 + Bits(h.priority, 0, 2) * 4 + Bits(h.stream_type, 2, 2),
       Bits(h.stream_type, 0, 2) * 64 + Bits(h.payload_len, 2, 6),
       Bits(h.payload_len, 0, 2) * 64 + h.compressed * 16 + h.encrypted * 8
           + h.fragmented * 4 + Bits(h.sequence, 10, 2) >>

\* seq_sys and comp_msg, high byte first.
EncodeFixed(h) ==
    << Bits(h.sequence, 2, 8), Bits(h.sequence, 0, 2) * 64 + Bits(h.sys_id, 0, 6),
       Bits(h.comp_id, 0, 4) * 16 + Bits(h.msg_id, 8, 4), Bits(h.msg_id, 0, 8) >>

EncodeExt(h) ==
    EncodeFixed(h)
        \o (IF IsCommand(h.stream_type) THEN << Bits(h.target_sys_id, 0, 6) >> ELSE <<>>)
        \o (IF h.fragmented = 1 THEN << h.frag_index, h.frag_total >> ELSE <<>>)
        \o (IF h.encrypted = 1 THEN h.nonce ELSE <<>>)

(* build_packet of kestrel_gcs_usb.py: "flags << 2" moves the encrypted    *)
(* flag, 8, to bit 5; the target is always system 1.                       *)
GcsEncode(h) ==
    << KS_SOF,
       Bits(h.payload_len, 8, 4) * 16 + Bits(h.priority, 0, 2) * 4 + Bits(h.stream_type, 2, 2),
       Bits(h.stream_type, 0, 2) * 64 + Bits(h.payload_len, 2, 6),
       Bits(h.payload_len, 0, 2) * 64 + h.encrypted * 32 + Bits(h.sequence, 10, 2) >>
    \o EncodeFixed(h)
    \o (IF IsCommand(h.stream_type) THEN << 1 >> ELSE <<>>)
    \o (IF h.encrypted = 1 THEN h.nonce ELSE <<>>)

(* build_packet of gcs_sender.py knows neither flags nor a target.          *)
SenderEncode(h) ==
    << KS_SOF,
       Bits(h.payload_len, 8, 4) * 16 + Bits(h.priority, 0, 2) * 4 + Bits(h.stream_type, 2, 2),
       Bits(h.stream_type, 0, 2) * 64 + Bits(h.payload_len, 2, 6),
       Bits(h.payload_len, 0, 2) * 64 + Bits(h.sequence, 10, 2) >>
    \o EncodeFixed(h)

DecodeBaseKeepsSequence(old, b) ==     \* mutant: the sequence is or-ed, not assigned
    [old EXCEPT
        !.payload_len = Bits(b[2], 4, 4) * 256 + Bits(b[3], 0, 6) * 4 + Bits(b[4], 6, 2),
        !.priority = Bits(b[2], 2, 2),
        !.stream_type = Bits(b[2], 0, 2) * 4 + Bits(b[3], 6, 2),
        !.compressed = Bits(b[4], 4, 1),
        !.encrypted = Bits(b[4], 3, 1),
        !.fragmented = Bits(b[4], 2, 1)]

(* ks_decode_base_header; the extended header adds sequence's lower bits.  *)
DecodeBase(old, b) ==
    [old EXCEPT
        !.payload_len = Bits(b[2], 4, 4) * 256 + Bits(b[3], 0, 6) * 4 + Bits(b[4], 6, 2),
        !.priority = Bits(b[2], 2, 2),
        !.stream_type = Bits(b[2], 0, 2) * 4 + Bits(b[3], 6, 2),
        !.compressed = Bits(b[4], 4, 1),
        !.encrypted = Bits(b[4], 3, 1),
        !.fragmented = Bits(b[4], 2, 1),
        !.sequence = Bits(b[4], 0, 2) * 1024]

\* Lengths of the optional parts behind the fixed four bytes.
TargetLen(h) == IF IsCommand(h.stream_type) THEN 1 ELSE 0
FragLen(h) == IF h.fragmented = 1 THEN 2 ELSE 0
NonceLen(h) == IF h.encrypted = 1 THEN 8 ELSE 0

(* ks_decode_ext_header: fields the packet does not carry keep their old   *)
(* value, but for the target, which becomes broadcast.                     *)
DecodeExt(old, b) ==
    LET frag == 4 + TargetLen(old)
        nonce == frag + FragLen(old)
    IN  [old EXCEPT
            !.sequence = Bits(@, 10, 6) * 1024 + b[1] * 4 + Bits(b[2], 6, 2),
            !.sys_id = Bits(b[2], 0, 6),
            !.comp_id = Bits(b[3], 4, 4),
            !.msg_id = Bits(b[3], 0, 4) * 256 + b[4],
            !.target_sys_id = IF IsCommand(old.stream_type) THEN Bits(b[5], 0, 6) ELSE 0,
            !.frag_index = IF old.fragmented = 1 THEN b[frag + 1] ELSE @,
            !.frag_total = IF old.fragmented = 1 THEN b[frag + 2] ELSE @,
            !.nonce = IF old.encrypted = 1 THEN SubSeq(b, nonce + 1, nonce + 8) ELSE @]

(* The length of the extended header the parser waits for.                 *)
ExtLen(h) == 4 + TargetLen(h) + FragLen(h) + NonceLen(h)

GcsDecodeShortLen(w) ==        \* mutant: kestrel_gcs.py's "simplified" length
    [payload_len |-> Bits(w[2], 4, 4) * 64 + Bits(w[3], 0, 6),
     stream_type |-> Bits(w[2], 0, 2) * 4 + Bits(w[3], 6, 2),
     encrypted |-> Bits(w[4], 3, 1),
     fragmented |-> Bits(w[4], 2, 1),
     msg_id |-> Bits(w[7], 0, 4) * 256 + w[8]]

(* What KestrelParser.feed reads out of a header.                          *)
GcsDecode(w) ==
    [payload_len |-> Bits(w[2], 4, 4) * 256 + Bits(w[3], 0, 6) * 4 + Bits(w[4], 6, 2),
     stream_type |-> Bits(w[2], 0, 2) * 4 + Bits(w[3], 6, 2),
     encrypted |-> Bits(w[4], 3, 1),
     fragmented |-> Bits(w[4], 2, 1),
     msg_id |-> Bits(w[7], 0, 4) * 256 + w[8]]

(* parse_packet of serial_listener.py, and the length of the header it     *)
(* skips; it does not look at the compressed flag.                         *)
ListenerDecode(w) ==
    [payload_len |-> Bits(w[2], 4, 4) * 256 + Bits(w[3], 0, 6) * 4 + Bits(w[4], 6, 2),
     priority |-> Bits(w[2], 2, 2),
     stream_type |-> Bits(w[2], 0, 2) * 4 + Bits(w[3], 6, 2),
     encrypted |-> Bits(w[4], 3, 1),
     fragmented |-> Bits(w[4], 2, 1),
     sequence |-> Bits(w[4], 0, 2) * 1024 + w[5] * 4 + Bits(w[6], 6, 2),
     sys_id |-> Bits(w[6], 0, 6),
     comp_id |-> Bits(w[7], 4, 4),
     msg_id |-> Bits(w[7], 0, 4) * 256 + w[8]]

ListenerOffset(read) ==
    8 + (IF IsCommand(read.stream_type) THEN 1 ELSE 0)
      + 2 * read.fragmented + 8 * read.encrypted

(* KestrelPacketParser.feed of kestrel_gcs.py, "simplified": two bits of   *)
(* the length are dropped, and every header has eight bytes.               *)
OldGcsDecode(w) ==
    [payload_len |-> Bits(w[2], 4, 4) * 64 + Bits(w[3], 0, 6),
     msg_id |-> Bits(w[7], 0, 4) * 256 + w[8]]
----
Blank == [payload_len |-> 0, priority |-> 0, stream_type |-> 0, encrypted |-> 0,
          compressed |-> 0, fragmented |-> 0, sequence |-> 0, sys_id |-> 0,
          comp_id |-> 0, target_sys_id |-> 0, msg_id |-> 0, frag_index |-> 0,
          frag_total |-> 0, nonce |-> [i \in 1 .. 8 |-> 0]]

WireInit == sent = Blank /\ wire = <<>> /\ header = Blank /\ stage = "idle"

Send(p) ==
    /\ stage \in {"idle", "done"}
    /\ sent' = p.header
    /\ wire' = CASE p.sender = "gcs" -> GcsEncode(p.header)
                 [] p.sender = "gcs_sender" -> SenderEncode(p.header)
                 [] p.sender = "kestrel" -> EncodeBase(p.header) \o EncodeExt(p.header)
    /\ stage' = "coming"
    /\ UNCHANGED header

ReceiveBase ==
    /\ stage = "coming"
    /\ header' = DecodeBase(header, SubSeq(wire, 1, 4))
    /\ stage' = "base"
    /\ UNCHANGED <<sent, wire>>

(* A header shorter than expected is filled up from what follows it on the *)
(* line, which no property looks at.                                       *)
ReceiveExt ==
    /\ stage = "base"
    /\ LET rest == SubSeq(wire, 5, Len(wire)) \o [i \in 1 .. 11 |-> 0]
       IN  header' = DecodeExt(header, rest)
    /\ stage' = "done"
    /\ UNCHANGED <<sent, wire>>

WireNext == (\E p \in Packets : Send(p)) \/ ReceiveBase \/ ReceiveExt

WireSpec == WireInit /\ [][WireNext]_wire_vars
----
(* Every byte is a byte and every decoded field fits its width.            *)
WireTypeOK ==
    /\ wire \in Seq(Byte)
    /\ header \in Header
    /\ stage \in {"idle", "coming", "base", "done"}

(* The receiver reads what was sent, cut to the widths of the fields, and  *)
(* nothing of the packet before: all of the sequence, the target of a      *)
(* command, the fragment numbers and the nonce where there are any         *)
(* (kestrel.c:140-273).  It finds all of them, and the payload: the length *)
(* it computes from the base header alone is the length the encoder wrote, *)
(* "always present to match decoder unconditionally" (kestrel.c:215).      *)
HeaderArrives ==
    /\ stage = "base" => 4 + ExtLen(header) = Len(wire)
    /\ stage = "done" =>
        /\ header.payload_len = sent.payload_len % 4096
        /\ header.priority = sent.priority % 4
        /\ header.stream_type = sent.stream_type % 16
        /\ header.encrypted = sent.encrypted
        /\ header.compressed = sent.compressed
        /\ header.fragmented = sent.fragmented
        /\ header.sequence = sent.sequence % 4096
        /\ header.sys_id = sent.sys_id % 64
        /\ header.comp_id = sent.comp_id % 16
        /\ header.msg_id = sent.msg_id % 4096
        /\ header.target_sys_id =
              IF IsCommand(sent.stream_type) THEN sent.target_sys_id % 64 ELSE 0
        /\ sent.fragmented = 1 =>
              <<header.frag_index, header.frag_total>> = <<sent.frag_index, sent.frag_total>>
        /\ sent.encrypted = 1 => header.nonce = sent.nonce

(* The tools' parsers take the same header out of every packet as          *)
(* ks_parse_char does ("Mirrors ks_parse_char()", kestrel_gcs_usb.py:207), *)
(* and serial_listener.py finds the payload where it begins.               *)
ToolsMirror ==
    stage = "done" =>
        LET gcs == GcsDecode(wire)
            listener == ListenerDecode(wire)
        IN  /\ \A field \in DOMAIN gcs : gcs[field] = header[field]
            /\ \A field \in DOMAIN listener : listener[field] = header[field]
            /\ ListenerOffset(listener) = 4 + ExtLen(header)

(* "mirrors ks_parse_char() in kestrel.c" (kestrel_gcs.py:178).            *)
OldGcsMirrors ==
    stage = "done" =>
        LET read == OldGcsDecode(wire)
        IN  \A field \in DOMAIN read : read[field] = header[field]
====
