---- MODULE Batch ----
(***************************************************************************)
(* Batches of messages: the payload kestrel_pack_batch writes and the loop *)
(* of ks_deserialize_batch that reads one, iteration by iteration.  The    *)
(* packet around the payload is authentic or has a correct CRC, but its    *)
(* sender may be any implementation: besides batches packed here the       *)
(* reader is given arbitrary bytes.                                        *)
(***************************************************************************)
EXTENDS Integers, Sequences, SequencesExt

CONSTANTS
    MaxMessages,    \* KS_BATCH_MAX_MESSAGES
    MaxData,        \* bytes of a message's data[]
    MaxPayload,     \* KS_MAX_PAYLOAD_SIZE
    Ids,            \* message ids, as pairs of bytes
    Byte,           \* values of a byte: 0 .. 255
    Texts,          \* data of messages applications put into a batch
    Foreign         \* bound: length of payloads of other implementations

ASSUME BatchAssumption ==
    /\ MaxMessages \in Nat \ {0} /\ MaxData \in Nat /\ MaxPayload \in Nat
    /\ Byte \subseteq Nat /\ Ids # {} /\ Ids \subseteq Byte \X Byte
    /\ Texts \subseteq Seq(Nat) /\ Foreign \in Nat

Message == [id : Ids, data : Texts]

VARIABLES
    packed,     \* the batch the payload was packed from; <<>> for a foreign one
    payload,    \* the payload received
    pos,        \* pos of ks_deserialize_batch, the next byte to read
    count,      \* its num_messages
    messages,   \* batch_out->messages, as far as they are filled in
    announced,  \* batch_out->num_messages
    reach,      \* history: one past the last byte read
    ret         \* "none": no payload; "reading"; else the result

vars == <<packed, payload, pos, count, messages, announced, reach, ret>>

Errors == {"NULL_POINTER", "INVALID_HEADER", "BUFFER_OVERFLOW"}

(* The checks of kestrel_pack_batch.                                       *)
TotalLen(batch) == 1 + FoldLeft(LAMBDA sum, m : sum + 3 + Len(m.data), 0, batch)

Packable(batch) ==
    /\ Len(batch) \in 1 .. MaxMessages
    /\ \A i \in 1 .. Len(batch) : Len(batch[i].data) =< MaxData
    /\ TotalLen(batch) =< MaxPayload

Entry(m) == <<m.id[1], m.id[2], Len(m.data)>> \o m.data

Packed(batch) == <<Len(batch)>> \o FlattenSeq([i \in 1 .. Len(batch) |-> Entry(batch[i])])

(* batch_out is the caller's memory and may still hold an earlier batch.   *)
Init ==
    /\ packed = <<>> /\ payload = <<>>
    /\ pos = 0 /\ count = 0 /\ reach = 0
    /\ announced \in 0 .. MaxMessages
    /\ messages = [i \in 1 .. announced |-> [id |-> CHOOSE id \in Ids : TRUE, data |-> <<>>]]
    /\ ret = "none"

Receive(bytes, batch) ==
    /\ payload' = bytes
    /\ packed' = batch
    /\ ret' = "reading"
    /\ UNCHANGED <<pos, count, messages, announced, reach>>

(* A batch that fails the checks is not sent.                              *)
PackBatch ==
    /\ ret = "none"
    /\ \E batch \in BoundedSeq(Message, MaxMessages + 1) :
          /\ Packable(batch)
          /\ Receive(Packed(batch), batch)

ForeignPayload ==
    /\ ret = "none"
    /\ \E bytes \in BoundedSeq(Byte, Foreign) : Receive(bytes, <<>>)

Fail(error) ==
    /\ ret' = error
    /\ UNCHANGED <<packed, payload, pos, count>>

Cleared == messages' = <<>> /\ announced' = 0       \* memset(batch_out, 0, ...)

BeginCountsFirst ==        \* mutant: num_messages is stored before the loop
    /\ ret = "reading" /\ pos = 0
    /\ payload # <<>>
    /\ payload[1] =< MaxMessages
    /\ count' = payload[1]
    /\ pos' = 1
    /\ reach' = 1
    /\ messages' = <<>> /\ announced' = payload[1]
    /\ UNCHANGED <<packed, payload, ret>>

(* From the start to the loop: batch_out is cleared, the count is read.    *)
Begin ==
    /\ ret = "reading" /\ pos = 0
    /\ \/ /\ payload = <<>>
          /\ Fail("NULL_POINTER")
          /\ UNCHANGED <<messages, announced, reach>>
       \/ /\ payload # <<>>
          /\ payload[1] > MaxMessages
          /\ Cleared
          /\ Fail("INVALID_HEADER")
          /\ reach' = 1
       \/ /\ payload # <<>>
          /\ payload[1] =< MaxMessages
          /\ Cleared
          /\ count' = payload[1]
          /\ pos' = 1
          /\ reach' = 1
          /\ UNCHANGED <<packed, payload, ret>>

Left == Len(payload) - pos         \* payload_len - pos

NextEntryUnchecked ==      \* mutant: the length is not compared with the rest
    LET length == payload[pos + 3]
    IN  /\ ret = "reading" /\ pos > 0 /\ Len(messages) < count
        /\ \/ /\ Left < 3
              /\ Fail("BUFFER_OVERFLOW")
              /\ UNCHANGED <<messages, announced, reach>>
           \/ /\ Left >= 3 /\ length > MaxData
              /\ Fail("BUFFER_OVERFLOW")
              /\ reach' = pos + 3
              /\ UNCHANGED <<messages, announced>>
           \/ /\ Left >= 3 /\ length =< MaxData
              /\ messages' = Append(messages,
                    [id |-> <<payload[pos + 1], payload[pos + 2]>>,
                     data |-> SubSeq(payload \o [k \in 1 .. MaxData |-> 0],
                                     pos + 4, pos + 3 + length)])
              /\ pos' = pos + 3 + length
              /\ reach' = pos + 3 + length
              /\ UNCHANGED <<packed, payload, count, announced, ret>>

(* One iteration of the loop.                                              *)
NextEntry ==
    LET length == payload[pos + 3]
    IN  /\ ret = "reading" /\ pos > 0 /\ Len(messages) < count
        /\ \/ /\ Left < 3
              /\ Fail("BUFFER_OVERFLOW")
              /\ UNCHANGED <<messages, announced, reach>>
           \/ /\ Left >= 3
              /\ length > MaxData \/ length > Left - 3
              /\ Fail("BUFFER_OVERFLOW")
              /\ reach' = pos + 3
              /\ UNCHANGED <<messages, announced>>
           \/ /\ Left >= 3
              /\ length =< MaxData /\ length =< Left - 3
              /\ messages' = Append(messages,
                    [id |-> <<payload[pos + 1], payload[pos + 2]>>,
                     data |-> SubSeq(payload, pos + 4, pos + 3 + length)])
              /\ pos' = pos + 3 + length
              /\ reach' = pos + 3 + length
              /\ UNCHANGED <<packed, payload, count, announced, ret>>

FinishOffByOne ==          \* mutant: the last message is not announced
    /\ ret = "reading" /\ pos > 0 /\ Len(messages) = count
    /\ announced' = IF count = 0 THEN 0 ELSE count - 1
    /\ ret' = "OK"
    /\ UNCHANGED <<packed, payload, pos, count, messages, reach>>

(* After the loop.                                                         *)
Finish ==
    /\ ret = "reading" /\ pos > 0 /\ Len(messages) = count
    /\ announced' = count
    /\ ret' = "OK"
    /\ UNCHANGED <<packed, payload, pos, count, messages, reach>>

Next == PackBatch \/ ForeignPayload \/ Begin \/ NextEntry \/ Finish

Spec == Init /\ [][Next]_vars
----
(* The variables have their types.                                         *)
TypeOK ==
    /\ pos \in 0 .. Len(payload) /\ count \in 0 .. MaxMessages
    /\ announced \in 0 .. MaxMessages
    /\ reach \in Nat
    /\ ret \in Errors \cup {"none", "reading", "OK"}

(* No byte outside the payload is read, and nothing is written outside     *)
(* messages[] and data[], whatever count and lengths the payload announces *)
(* (kestrel.c:2184-2200).                                                  *)
InBounds ==
    /\ TypeOK
    /\ reach =< Len(payload)
    /\ ret \in {"reading", "OK"} =>
          /\ Len(messages) =< MaxMessages
          /\ \A i \in 1 .. Len(messages) : Len(messages[i].data) =< MaxData

(* A payload that fails in the middle shows none of its messages, not even *)
(* those read before the error or those of an earlier batch.  (An empty    *)
(* one leaves batch_out alone.)                                            *)
FailedShowsNothing == ret \in {"INVALID_HEADER", "BUFFER_OVERFLOW"} => announced = 0

(* Every batch that kestrel_pack_batch accepts is read back as it was, and *)
(* what is read from a foreign payload is what a sender of these messages  *)
(* would have packed, up to bytes behind the last message.                 *)
ReadAsPacked ==
    /\ packed # <<>> /\ ret \in Errors \cup {"OK"} => ret = "OK" /\ messages = packed
    /\ ret = "OK" =>
          /\ announced = Len(messages)
          /\ IsPrefix(Packed(messages), payload)
====
