---- MODULE StreamParser ----
(***************************************************************************)
(* ks_parse_char (kestrel.c): the byte-by-byte receiver of a Kestrel link, *)
(* fed by a serial line that may lose, garble and insert bytes.            *)
(*                                                                         *)
(* A byte on the line is named, not valued: [f |-> n, k |-> i] is the i-th *)
(* byte of the n-th frame sent and Noise is any byte of no frame.  What a  *)
(* byte is read as is known where the parser reads it in its own place (a  *)
(* frame's first byte is KS_SOF, its base header decodes to what was       *)
(* encoded) and arbitrary elsewhere.  The CRC is taken as perfect: it      *)
(* matches exactly when the buffer holds one whole frame.  Field sizes are *)
(* constants, so that TLC can scale them down.                             *)
(***************************************************************************)
EXTENDS ReplayCheck, Sequences

CONSTANTS
    MaxPayload,     \* KS_MAX_PAYLOAD_SIZE
    MaxWireLen,     \* largest payload_len the 12-bit field can hold
    BufSize,        \* KS_PARSER_BUF_SIZE
    Base,           \* bytes of the base header (4)
    Ext,            \* bytes of the fixed part of the extended header (4)
    Target,         \* target_sys_id, in CMD and CMD_ACK streams (1)
    FragInfo,       \* frag_index and frag_total (2)
    NonceLen,       \* nonce of an encrypted packet (8)
    MacLen,         \* KS_MAC_TAG_SIZE (16)
    CrcLen          \* CRC footer (2)

CONSTANT
    Links           \* the links to choose from: who is at their ends, what they
                    \* send, and two bounds

Header == [len : 0 .. MaxWireLen, cmd : BOOLEAN, frag : BOOLEAN, enc : BOOLEAN]

\* "key": holds the key; "nokey": key_32b is NULL; "nocrypto": an AVR build.
ReceiverKinds == {"key", "nokey", "nocrypto"}

ASSUME SizesAssumption ==
    /\ MaxPayload \in Nat /\ MaxWireLen \in Nat /\ BufSize \in Nat
    /\ Base \in Nat /\ Base > 1 /\ Ext \in Nat \ {0} /\ CrcLen \in Nat \ {0}
    /\ Target \in Nat /\ FragInfo \in Nat /\ NonceLen \in Nat /\ MacLen \in Nat \ {0}
    /\ Base + Ext + Target + FragInfo + NonceLen + MaxPayload + MacLen + CrcLen =< BufSize

(* A link's receiver opens what it can; senderCrypto is FALSE if its sender*)
(* is built with KS_CRYPTO_DISABLED; headers and seqs are what applications*)
(* pass to the pack functions; sofInside tells whether a byte other than a *)
(* frame's first may be KS_SOF.  Bounds: frames sent, and bytes lost,      *)
(* garbled or inserted.                                                    *)
Link == [receiver : ReceiverKinds, senderCrypto : BOOLEAN, sofInside : BOOLEAN,
         headers : SUBSET Header, seqs : SUBSET Seqs,
         maxFrames : Nat, maxFaults : Nat]

ASSUME LinkAssumption == Links \subseteq Link

VARIABLES
    state,          \* p->state
    buffer,         \* p->buffer up to p->buf_idx
    header,         \* p->header, as far as the framing needs it
    expected_len,   \* p->expected_len
    replay,         \* p->replay_init, last_seq and replay_window
    error_count,    \* p->error_count
    rx_count,       \* p->rx_count
    result          \* what the last call of ks_parse_char returned, by name

VARIABLES
    link,           \* the link, fixed for a run
    frames,         \* history: the frames sent, in order
    pos,            \* next byte of the last frame to go out, 0 between frames
    faults,         \* line faults so far
    due,            \* the result a fault-free last frame must end in
    quiet,          \* frames sent whole since the last fault
    accepted        \* history: the frames for which KS_OK was returned

parser == <<state, buffer, header, expected_len, replay, error_count,
            rx_count, result, accepted>>
sender == <<link, frames, pos, faults, due, quiet>>
vars == <<parser, sender>>

Noise == [f |-> 0, k |-> 0]

Errors == {"CRC", "OVERFLOW", "NO_KEY", "MAC", "REPLAY"}

If(condition, n) == IF condition THEN n ELSE 0

(* What ks_encode_base_header and ks_encode_ext_header write.              *)
EncodedLen(h) ==
    Base + Ext + If(h.cmd, Target) + If(h.frag, FragInfo) + If(h.enc, NonceLen)

HeaderLenNoTarget(h) ==            \* mutant: CMD packets get no target byte
    Base + Ext + If(h.frag, FragInfo) + If(h.enc, NonceLen)

(* What the parser expects once it has the base header.                    *)
HeaderLen(h) ==
    Base + Ext + If(h.cmd, Target) + If(h.frag, FragInfo) + If(h.enc, NonceLen)

(* kestrel_pack_internal.  A build without crypto drops the encrypted flag *)
(* from the header and writes no tag, but leaves the nonce's bytes in.     *)
Frame(h, seq, keyed) ==
    [hdr |-> [h EXCEPT !.enc = h.enc /\ link.senderCrypto],
     size |-> EncodedLen(h) + h.len + If(h.enc /\ link.senderCrypto, MacLen) + CrcLen,
     seq |-> seq,
     keyed |-> keyed]

(* The last checks of a packet that passed its CRC, in the code's order.   *)
VerdictOfOpened(frame) == IF Stale(replay, frame.seq) THEN "REPLAY" ELSE "OK"

Verdict(frame) ==
    CASE ~frame.hdr.enc -> VerdictOfOpened(frame)
      [] frame.hdr.enc /\ link.receiver = "nocrypto" -> "MAC"
      [] frame.hdr.enc /\ link.receiver = "nokey" -> "NO_KEY"
      [] frame.hdr.enc /\ link.receiver = "key" ->
            IF frame.keyed THEN VerdictOfOpened(frame) ELSE "MAC"

----
Init ==
    /\ link \in Links
    /\ state = "IDLE"
    /\ buffer = <<>>
    /\ header \in {[len |-> 0, cmd |-> FALSE, frag |-> FALSE, enc |-> FALSE]}
    /\ expected_len = 0
    /\ replay = FreshReplay
    /\ error_count = 0
    /\ rx_count = 0
    /\ result = "MORE"
    /\ frames = <<>>
    /\ pos = 0
    /\ faults = 0
    /\ due = "MORE"
    /\ quiet = 0
    /\ accepted = <<>>

(* What the parser may take byte b for where it waits for KS_SOF.          *)
SofReadings(b) == IF b.k = 1 THEN {TRUE} ELSE IF link.sofInside THEN BOOLEAN ELSE {FALSE}

(* The headers the first Base bytes buf may decode to.                     *)
HeaderReadings(buf) ==
    IF buf[1].f > 0 /\ \A i \in 1 .. Base : buf[i] = [f |-> buf[1].f, k |-> i]
    THEN {frames[buf[1].f].hdr}
    ELSE Header

(* The CRC matches: buf is one frame, from its first byte to its last.     *)
CrcMatches(buf) ==
    /\ buf[1].f > 0
    /\ Len(buf) = frames[buf[1].f].size
    /\ \A i \in 1 .. Len(buf) : buf[i] = [f |-> buf[1].f, k |-> i]

(* "Still parsing": the call returns 1.                                    *)
More ==
    /\ result' = "MORE"
    /\ UNCHANGED <<replay, error_count, rx_count, accepted>>

ResetWithReplay(error) ==      \* mutant: every error re-initialises the parser
    /\ state' = "IDLE"
    /\ buffer' = <<>>
    /\ error_count' = error_count + 1
    /\ result' = error
    /\ replay' = FreshReplay
    /\ UNCHANGED <<header, expected_len, rx_count, accepted>>

ResetUncounted(error) ==       \* mutant: the error is not counted
    /\ state' = "IDLE"
    /\ buffer' = <<>>
    /\ result' = error
    /\ UNCHANGED <<header, expected_len, replay, rx_count, accepted, error_count>>

(* ks_parser_reset_ephemeral and the counter that every caller bumps.      *)
Reset(error) ==
    /\ state' = "IDLE"
    /\ buffer' = <<>>
    /\ error_count' = error_count + 1
    /\ result' = error
    /\ UNCHANGED <<header, expected_len, replay, rx_count, accepted>>

IdleByte(b) ==
    /\ state = "IDLE"
    /\ \/ /\ TRUE \in SofReadings(b)
          /\ state' = "BASE_HDR"
          /\ buffer' = <<b>>
       \/ /\ FALSE \in SofReadings(b)
          /\ UNCHANGED <<state, buffer>>
    /\ More
    /\ UNCHANGED <<header, expected_len>>

BaseByteUnbounded(b) ==        \* mutant: payload_len is not bounds-checked
    LET buf == Append(buffer, b)
    IN  /\ state = "BASE_HDR"
        /\ \/ /\ Len(buf) # Base
              /\ buffer' = buf
              /\ More
              /\ UNCHANGED <<state, header, expected_len>>
           \/ /\ Len(buf) = Base
              /\ \E h \in HeaderReadings(buf) :
                    /\ header' = h
                    /\ state' = "EXT_HDR"
                    /\ buffer' = buf
                    /\ expected_len' = HeaderLen(h)
                    /\ More

(* Bytes 2 to Base; the last one makes the base header complete.  (Its     *)
(* decoding cannot fail: the buffer starts with the KS_SOF put there.)     *)
BaseByte(b) ==
    LET buf == Append(buffer, b)
    IN  /\ state = "BASE_HDR"
        /\ \/ /\ Len(buf) # Base
              /\ buffer' = buf
              /\ More
              /\ UNCHANGED <<state, header, expected_len>>
           \/ /\ Len(buf) = Base
              /\ \E h \in HeaderReadings(buf) :
                    /\ header' = h
                    /\ \/ /\ h.len > MaxPayload
                          /\ state' = "IDLE"
                          /\ buffer' = <<>>
                          /\ error_count' = error_count + 1
                          /\ result' = "OVERFLOW"
                          /\ UNCHANGED <<expected_len, replay, rx_count, accepted>>
                       \/ /\ h.len =< MaxPayload
                          /\ state' = "EXT_HDR"
                          /\ buffer' = buf
                          /\ expected_len' = HeaderLen(h)
                          /\ More

ExtByteNoSkip(b) ==            \* mutant: an empty payload is waited for
    LET buf == Append(buffer, b)
    IN  /\ state = "EXT_HDR"
        /\ buffer' = buf
        /\ \/ /\ Len(buf) # expected_len
              /\ UNCHANGED <<state, expected_len>>
           \/ /\ Len(buf) = expected_len
              /\ expected_len' = expected_len + header.len + If(header.enc, MacLen)
              /\ state' = "PAYLOAD"
        /\ More
        /\ UNCHANGED header

ExtByte(b) ==
    LET buf == Append(buffer, b)
        body == header.len + If(header.enc, MacLen)
    IN  /\ state = "EXT_HDR"
        /\ buffer' = buf
        /\ \/ /\ Len(buf) # expected_len
              /\ UNCHANGED <<state, expected_len>>
           \/ /\ Len(buf) = expected_len
              /\ body = 0
              /\ expected_len' = expected_len + CrcLen
              /\ state' = "CRC"
           \/ /\ Len(buf) = expected_len
              /\ body > 0
              /\ expected_len' = expected_len + body
              /\ state' = "PAYLOAD"
        /\ More
        /\ UNCHANGED header

PayloadByte(b) ==
    LET buf == Append(buffer, b)
    IN  /\ state = "PAYLOAD"
        /\ buffer' = buf
        /\ \/ /\ Len(buf) # expected_len
              /\ UNCHANGED <<state, expected_len>>
           \/ /\ Len(buf) = expected_len
              /\ expected_len' = expected_len + CrcLen
              /\ state' = "CRC"
        /\ More
        /\ UNCHANGED header

(* The whole packet passed every check.  rx_count is not touched.          *)
AcceptPacket(n) ==
    /\ replay' = Accept(replay, frames[n].seq)
    /\ accepted' = Append(accepted, n)
    /\ state' = "IDLE"
    /\ buffer' = <<>>
    /\ result' = "OK"
    /\ UNCHANGED <<header, expected_len, error_count, rx_count>>

CrcByteUnchecked(b) ==         \* mutant: any packet with a known header passes
    LET buf == Append(buffer, b)
    IN  /\ state = "CRC"
        /\ \/ /\ Len(buf) # expected_len
              /\ buffer' = buf
              /\ More
              /\ UNCHANGED <<state, header, expected_len>>
           \/ /\ Len(buf) = expected_len
              /\ buf[1].f > 0
              /\ AcceptPacket(buf[1].f)
           \/ /\ Len(buf) = expected_len
              /\ buf[1].f = 0
              /\ Reset("CRC")

CrcByte(b) ==
    LET buf == Append(buffer, b)
        frame == frames[buf[1].f]
    IN  /\ state = "CRC"
        /\ \/ /\ Len(buf) # expected_len
              /\ buffer' = buf
              /\ More
              /\ UNCHANGED <<state, header, expected_len>>
           \/ /\ Len(buf) = expected_len
              /\ ~CrcMatches(buf)
              /\ Reset("CRC")
           \/ /\ Len(buf) = expected_len
              /\ CrcMatches(buf)
              /\ Verdict(frame) \in Errors
              /\ Reset(Verdict(frame))
           \/ /\ Len(buf) = expected_len
              /\ CrcMatches(buf)
              /\ Verdict(frame) = "OK"
              /\ AcceptPacket(buf[1].f)

(* The number behind the name: KS_OK, still parsing, an error code.        *)
Returned(name) == CASE name = "OK" -> 0 [] name = "MORE" -> 1 [] name \in Errors -> -1

(* One call of ks_parse_char.                                              *)
ParseChar(b) ==
    IdleByte(b) \/ BaseByte(b) \/ ExtByte(b) \/ PayloadByte(b) \/ CrcByte(b)
----
(* A packet of the sender is handed to the serial port, which transmits    *)
(* packets one after the other.  Its outcome is due if the parser is       *)
(* between packets when its first byte leaves.                             *)
Transmit(frame) ==
    /\ pos = 0
    /\ Len(frames) < link.maxFrames
    /\ frames' = Append(frames, frame)
    /\ pos' = 1
    /\ due' = IF state = "IDLE" THEN Verdict(frame) ELSE "MORE"
    /\ UNCHANGED <<parser, faults, quiet, link>>

SendFrame ==
    \E h \in link.headers, seq \in link.seqs, keyed \in BOOLEAN :
        /\ h.len =< MaxPayload      \* else KS_ERR_BUFFER_OVERFLOW, nothing is sent
        /\ h.enc \/ keyed
        /\ Transmit(Frame(h, seq, keyed))

(* The line moves on to the next byte of the frame.                        *)
LineByte == [f |-> Len(frames), k |-> pos]

LastByte == pos = frames[Len(frames)].size

Shift == pos' = IF LastByte THEN 0 ELSE pos + 1

ByteArrives ==
    /\ pos > 0
    /\ ParseChar(LineByte)
    /\ Shift
    /\ quiet' = IF LastByte THEN quiet + 1 ELSE quiet
    /\ UNCHANGED <<frames, faults, due, link>>

Fault ==
    /\ faults < link.maxFaults
    /\ faults' = faults + 1
    /\ due' = "MORE"
    /\ UNCHANGED <<frames, link>>

ByteLost ==
    /\ pos > 0
    /\ Fault
    /\ Shift
    /\ quiet' = IF LastByte THEN 0 ELSE -1
    /\ UNCHANGED parser

ByteGarbled ==
    /\ pos > 0
    /\ Fault
    /\ ParseChar(Noise)
    /\ Shift
    /\ quiet' = IF LastByte THEN 0 ELSE -1

NoiseByte ==
    /\ Fault
    /\ ParseChar(Noise)
    /\ quiet' = IF pos > 0 THEN -1 ELSE 0
    /\ UNCHANGED pos

Done == pos = 0 /\ Len(frames) = link.maxFrames /\ faults = link.maxFaults /\ UNCHANGED vars

Next == SendFrame \/ ByteArrives \/ ByteLost \/ ByteGarbled \/ NoiseByte \/ Done

Spec == Init /\ [][Next]_vars
----
(* The parser's fields and the line's bookkeeping stay in their ranges:    *)
(* expected_len never exceeds the buffer, every buffered byte is one that  *)
(* was sent or Noise, and only sent frames are accepted.                   *)
TypeOK ==
    /\ link \in Links
    /\ state \in {"IDLE", "BASE_HDR", "EXT_HDR", "PAYLOAD", "CRC"}
    /\ header \in Header
    /\ expected_len \in 0 .. BufSize
    /\ \A i \in 1 .. Len(buffer) :
          buffer[i].f \in 0 .. Len(frames) /\ buffer[i].k \in Nat
    /\ replay \in Replay
    /\ error_count \in Nat /\ rx_count \in Nat
    /\ result \in Errors \cup {"MORE", "OK"}
    /\ Len(frames) =< link.maxFrames /\ pos \in Nat
    /\ faults \in 0 .. link.maxFaults
    /\ due \in Errors \cup {"MORE", "OK"}
    /\ quiet \in -1 .. link.maxFrames
    /\ \A i \in 1 .. Len(accepted) : accepted[i] \in 1 .. Len(frames)

(* Whatever arrives, no byte is written past the buffer: outside IDLE      *)
(* there is room for the next byte, and a packet in progress ends inside   *)
(* the buffer.  Only the payload_len check of the base header (line 1697)  *)
(* guards the two header states; the checks of lines 1746 and 1761 are     *)
(* never needed.                                                           *)
BufferFits ==
    /\ TypeOK
    /\ state = "IDLE" => buffer = <<>>
    /\ state = "BASE_HDR" => Len(buffer) \in 1 .. Base - 1
    /\ state \in {"EXT_HDR", "PAYLOAD", "CRC"} =>
          Len(buffer) < expected_len /\ expected_len =< BufSize

(* A frame that arrives whole at a parser between packets ends, at its     *)
(* last byte, in exactly the result it deserves: accepted, or refused for  *)
(* want of a key, a bad tag or a replay.  Sender and parser agree on the   *)
(* length of every kind of packet (kestrel.c:1549-1639 and 1700-1743), if  *)
(* the sender is no build whose fallback FallbackKeepsWireValid is about.  *)
WholeFrameDecided == pos = 0 /\ due # "MORE" => state = "IDLE" /\ result = due

(* The application is handed sent packets only, each transmission at most  *)
(* once and in the order sent, whatever the line does to the bytes.        *)
AcceptedInOrder ==
    \A i, j \in 1 .. Len(accepted) : i < j => accepted[i] < accepted[j]

MaxPacket ==
    Base + Ext + Target + FragInfo + NonceLen + MaxPayload + MacLen + CrcLen

MinPacket == Base + Ext + CrcLen

(* Resynchronisation: when KS_SOF occurs inside no packet, a fault costs   *)
(* at most the frames that fit into one bogus packet of maximal length;    *)
(* then the parser waits for the next frame again.                         *)
Resynchronised ==
    ~link.sofInside /\ pos = 0 /\ quiet * MinPacket >= MaxPacket => state = "IDLE"

(* Only an accepted packet moves the replay window: no error re-opens it   *)
(* for packets already seen (the comment "Bug-4 FIX", kestrel.c:1657-1663).*)
ErrorsKeepWindow == [][replay' # replay => Len(accepted') = Len(accepted) + 1]_vars

(* Every packet begun ends in exactly one way: it is handed over, or it is *)
(* abandoned and counted once in error_count, for whatever reason (each    *)
(* error return of ks_parse_char; ErrorsAreCrcOrMac is what the header     *)
(* says of the same counter).                                              *)
AbandonedCounted ==
    [][error_count' - error_count =
         If(buffer # <<>> /\ buffer' = <<>> /\ accepted' = accepted, 1)]_vars

(* rx_count is the "Total packets successfully received"                   *)
(* (kestrel_core.h:253).                                                   *)
PacketsCounted == rx_count = Len(accepted)

(* A packet that an application wanted encrypted and a build without crypto*)
(* sent in clear is still a packet every receiver can parse: "This keeps   *)
(* the wire protocol valid" (kestrel.c:1583).                              *)
FallbackKeepsWireValid == ~link.senderCrypto => WholeFrameDecided

(* ks_parse_char "Returns 1 if a complete valid packet was received"       *)
(* (kestrel_core.h:697).                                                   *)
CompleteReturnsOne == [][accepted' # accepted => Returned(result') = 1]_vars

(* error_count is the "Total packets with CRC/MAC errors"                  *)
(* (kestrel_core.h:254).                                                   *)
ErrorsAreCrcOrMac == [][error_count' # error_count => result' \in {"CRC", "MAC"}]_vars
====
