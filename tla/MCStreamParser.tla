---- MODULE MCStreamParser ----
(* Every field has one byte, so the longest packet has nine.               *)
EXTENDS StreamParser

H4(n, c, f, e) == [len |-> n, cmd |-> c, frag |-> f, enc |-> e]

LinkOf(rcv, crypto, sof, hdrs, seqs, nframes, nfaults) ==
    [receiver |-> rcv, senderCrypto |-> crypto, sofInside |-> sof, headers |-> hdrs,
     seqs |-> seqs, maxFrames |-> nframes, maxFaults |-> nfaults]

\* The shortest packet and the longest one.
ShortAndLong == {H4(0, FALSE, FALSE, FALSE), H4(1, TRUE, TRUE, TRUE)}

\* A plaintext command and an encrypted, empty fragment, to every kind of
\* receiver, with KS_SOF anywhere; and a long stream without KS_SOF inside.
TwoLinks ==
    {LinkOf(r, TRUE, TRUE, {H4(1, TRUE, FALSE, FALSE), H4(0, FALSE, TRUE, TRUE)},
            {0, 1}, 2, 1) : r \in ReceiverKinds}
    \cup {LinkOf("key", TRUE, FALSE, ShortAndLong, {0}, 5, 2)}

\* One fault-free packet at a time, sealed, or to and from builds without
\* encryption.
ClaimedLinks ==
    {LinkOf("key", TRUE, FALSE, ShortAndLong, {0}, 2, 0),
     LinkOf("nocrypto", FALSE, FALSE, ShortAndLong, {0}, 2, 0)}
====
