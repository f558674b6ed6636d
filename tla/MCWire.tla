---- MODULE MCWire ----
(* Field values at the limits of their widths and just beyond them, where  *)
(* the encoder has to cut; every combination of flags.                     *)
EXTENDS Wire

H(len, stream, e, c, f, seq, sys, msg, n) ==
    [payload_len |-> len, priority |-> 2, stream_type |-> stream, encrypted |-> e,
     compressed |-> c, fragmented |-> f, sequence |-> seq, sys_id |-> sys,
     comp_id |-> sys, target_sys_id |-> sys, msg_id |-> msg, frag_index |-> n,
     frag_total |-> n + 1, nonce |-> [i \in 1 .. 8 |-> (n + 16 * i) % 256]]

EdgeHeaders ==
    {H(v[1], stream, e, c, f, v[2], v[3], v[4], v[5]) :
        v \in {<<0, 0, 0, 1, 0>>, <<255, 1023, 63, 1023, 15>>, <<4095, 4095, 1, 4095, 3>>,
               <<4096, 4096, 255, 4097, 254>>, <<683, 2730, 42, 2730, 7>>},
        stream \in {0, 2, 3, 7, 15}, e \in 0 .. 1, c \in 0 .. 1, f \in 0 .. 1}

(* What kestrel_gcs_usb.py sends without encryption: heartbeats and        *)
(* commands, never in fragments, to system 1.                              *)
GcsHeaders ==
    {[H(v[1], stream, 0, 0, 0, v[2], 10, v[3], 5) EXCEPT !.target_sys_id = 1] :
        v \in {<<10, 0, 1>>, <<30, 4095, 6>>}, stream \in {7, 3}}

(* What gcs_sender.py sends: heartbeats to all.                            *)
SenderHeaders ==
    {[H(10, 7, 0, 0, 0, seq, 10, 1, 0) EXCEPT !.target_sys_id = 0] : seq \in {0, 2047, 4095}}

EdgePackets == [sender : {"kestrel"}, header : EdgeHeaders]
                    \cup [sender : {"gcs"}, header : GcsHeaders]
                    \cup [sender : {"gcs_sender"}, header : SenderHeaders]
====
