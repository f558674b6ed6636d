---- MODULE MCMessages ----
(* Samples, the lowest byte first: floats below, in and above the range of *)
(* a half, a negative one, all bits set (not a number), and bytes above    *)
(* and below 90 and 128.                                                   *)
EXTENDS Messages

Samples == {<<0, 0, 128, 63>>, <<172, 197, 39, 183>>, <<255, 239, 127, 71>>,
            <<119, 90, 191, 200>>, <<255, 255, 255, 255>>, <<91, 200, 0, 56>>}

(* The drone's position as the ground station reads it, and the bridge's   *)
(* messages as the library does; what the drone's telemetry could hold     *)
(* that the ground station has no decoder for.                             *)
StrayLinks == {<<"library", "gps_raw", "gcs">>}
              \cup {<<"bridge", m, "library">> : m \in {"heartbeat", "attitude"}}
              \cup {<<"library", m, "gcs">> : m \in {"battery", "vfr_hud"}}

(* Single bits, pairs at the ends of 16 and of 13, a few, and 16 and 13 in *)
(* a row.                                                                  *)
Close == {{0}, {0, 15}, {0, 12}, {0, 3, 5, 6}, 0 .. 12, 0 .. 15}
Flipped == <<91, 200, 0, 56>>

(* A byte changes the checksum as eight steps of the polynomial that gives *)
(* CRC-16/MCRF4XX its name do, 0x8408 with the low bit first; both are     *)
(* linear, so checksums of one bit or none stand for all.                  *)
Step(crc) ==
    LET rest == Shifted(crc, -1)
    IN  IF 0 \in crc THEN SymDiff(rest, {3, 10, 15}) ELSE rest

MCRF4XX(data, crc) ==
    LET after[k \in 0 .. 8] == IF k = 0 THEN SymDiff(crc, data) ELSE Step(after[k - 1])
    IN  after[8]

ASSUME AccumulatesMCRF4XX ==
    \A n \in 0 .. 255, crc \in {{i} : i \in 0 .. 15} \cup {{}} :
        ks_crc_accumulate(BitSet(n), crc) = MCRF4XX(BitSet(n), crc)

(* Damage leaves out wider faults over the edge of the checksum with       *)
(* reason: inverting bits 3 and 7 of the byte before the last, 0, 4 and 6  *)
(* of the last and then 0 of the checksum, six of fourteen in a row, goes  *)
(* unnoticed in every packet.  The checksum is linear, so these bits       *)
(* change it by their own checksum, the seed adding nothing: bit 0.        *)
ASSUME WiderFaultsPass ==
    LET last == ks_crc_accumulate({0, 4, 6}, ks_crc_accumulate({3, 7}, {}))
    IN  ks_crc_accumulate({}, last) = {0}
====
