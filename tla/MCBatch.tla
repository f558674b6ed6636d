---- MODULE MCBatch ----
(* Counts and lengths below, at and above their limits of two, in payloads *)
(* that end anywhere.                                                      *)
EXTENDS Batch

SomeTexts == {<<>>, <<1>>, <<0, 3>>, <<1, 1, 1>>}
SomeIds == {<<0, 1>>, <<3, 2>>}
====
