---- MODULE EEPROMNonce ----
(***************************************************************************)
(* The EEPROMNonce sketch: a board that sends encrypted packets under one  *)
(* fixed key and may lose power between any two of its steps.  At boot it  *)
(* resumes the nonce counter Margin past the value kept in EEPROM, writes  *)
(* that value back, sends Burst packets, saves the counter and stops until *)
(* the next reset.  An ESP32 commits a save at once; an AVR writes it cell *)
(* by cell, a SAMD or mbed board erases the flash first, and both may be   *)
(* interrupted.                                                            *)
(***************************************************************************)
EXTENDS KsSession, Sequences

CONSTANTS
    DemoKey,
    Margin,     \* NONCE_SAFETY_MARGIN
    Burst,      \* packets between two saves, 5 in the sketch
    Cuts,       \* 2^8, 2^16 and 2^24 where EEPROM.put writes byte by byte,
                \* none where a save is committed at once
    Flash,      \* USE_FLASH_STORAGE: a save erases before it writes
    Limit       \* bound: the key is replaced once EEPROM holds this much

ASSUME SketchAssumption ==
    /\ DemoKey \in Key
    /\ Margin \in Nat \ {0} /\ Burst \in Nat /\ Burst =< Margin
    /\ Limit \in Nat /\ Limit + 3 * Margin < M
    /\ Flash \in BOOLEAN
    /\ Cuts \subseteq Nat \ {0} /\ \A cut \in Cuts : M % cut = 0

VARIABLES
    pc,             \* where setup() and loop() stand
    saved_counter,
    g_session,
    g_packet_count,
    eeprom,
    issued          \* history: every counter sent under DemoKey

vars == <<pc, saved_counter, g_session, g_packet_count, eeprom, issued>>

Erased == M - 1             \* an EEPROM never written reads 0xFFFFFFFF

Init ==
    /\ pc = "off"
    /\ saved_counter = 0
    /\ g_session = Wiped
    /\ g_packet_count = 0
    /\ eeprom \in (0 .. Limit) \cup {Erased}
    /\ issued = <<>>

PowerOn ==
    /\ pc = "off"
    /\ pc' = "load"
    /\ UNCHANGED <<saved_counter, g_session, g_packet_count, eeprom, issued>>

Load ==
    /\ pc = "load"
    /\ eeprom < Limit \/ eeprom + Margin >= M      \* the latter is erased
    /\ saved_counter' = eeprom
    /\ pc' = "init"
    /\ UNCHANGED <<g_session, g_packet_count, eeprom, issued>>

InitSession(seed) ==
    /\ pc = "init"
    /\ g_session' = SessionInit(DemoKey, seed)
    /\ pc' = "override"
    /\ UNCHANGED <<saved_counter, g_packet_count, eeprom, issued>>

InitSessionFails ==
    /\ pc = "init"
    /\ g_session' = SessionInitFailed(DemoKey)
    /\ pc' = "stopped"
    /\ UNCHANGED <<saved_counter, g_packet_count, eeprom, issued>>

ResumeNoMargin == saved_counter        \* mutant: the margin is not added

(* saved_counter + NONCE_SAFETY_MARGIN as a uint32_t.                      *)
ResumeCounter ==
    IF saved_counter + Margin >= M THEN saved_counter + Margin - M
                                   ELSE saved_counter + Margin

Override ==
    /\ pc = "override"
    /\ g_session' = SetCounter(g_session, ResumeCounter)
    /\ pc' = "checkpoint"
    /\ UNCHANGED <<saved_counter, g_packet_count, eeprom, issued>>

CheckpointSkipped ==       \* mutant: step 4 of setup() is left out
    /\ pc = "checkpoint"
    /\ pc' = "loop"
    /\ UNCHANGED <<saved_counter, g_session, g_packet_count, eeprom, issued>>

Checkpoint ==
    /\ pc = "checkpoint"
    /\ eeprom' = ResumeCounter
    /\ pc' = "loop"
    /\ UNCHANGED <<saved_counter, g_session, g_packet_count, issued>>

SendPacket ==
    /\ pc = "loop"
    /\ g_packet_count < Burst
    /\ issued' = Append(issued, Issued(g_session))
    /\ g_session' = Generated(g_session)
    /\ g_packet_count' = g_packet_count + 1
    /\ UNCHANGED <<pc, saved_counter, eeprom>>

SaveAndStop ==
    /\ pc = "loop"
    /\ g_packet_count >= Burst
    /\ eeprom' = GetCounter(g_session)
    /\ pc' = "stopped"
    /\ UNCHANGED <<saved_counter, g_session, g_packet_count, issued>>

(* RAM is lost, EEPROM stays.                                              *)
SwitchedOff ==
    /\ pc' = "off"
    /\ saved_counter' = 0
    /\ g_session' = Wiped
    /\ g_packet_count' = 0
    /\ UNCHANGED issued

(* Power fails, or the reset button is pressed.                            *)
PowerLoss ==
    /\ pc # "off"
    /\ SwitchedOff
    /\ UNCHANGED eeprom

(* The part of a value that its high cells hold.                           *)
Floor(value, cut) == (value \div cut) * cut

(* The low cells hold the new value already, the high ones the old value.  *)
Torn(new, cut) == Floor(eeprom, cut) + (new % cut)

(* What a save of new may leave when it is interrupted.                    *)
Remains(new) ==
    {Torn(new, cut) : cut \in Cuts} \cup (IF Flash THEN {Erased} ELSE {})

(* Power fails in the middle of save_nonce_counter.                        *)
PowerLossInSave ==
    /\ \/ /\ pc = "checkpoint"
          /\ eeprom' \in Remains(ResumeCounter)
       \/ /\ pc = "loop"
          /\ g_packet_count >= Burst
          /\ eeprom' \in Remains(GetCounter(g_session))
    /\ SwitchedOff

Next ==
    \/ PowerOn \/ Load
    \/ (\E seed \in Counters : InitSession(seed)) \/ InitSessionFails
    \/ Override \/ Checkpoint \/ SendPacket \/ SaveAndStop
    \/ PowerLoss \/ PowerLossInSave

Spec == Init /\ [][Next]_vars
----
(* The variables have their types, and only a finished session init is     *)
(* ever used to send.                                                      *)
TypeOK ==
    /\ pc \in {"off", "load", "init", "override", "checkpoint", "loop", "stopped"}
    /\ saved_counter \in Counters
    /\ g_session \in Session
    /\ g_packet_count \in 0 .. Burst
    /\ eeprom \in Counters
    /\ issued \in Seq(Counters)
    /\ pc \in {"override", "checkpoint", "loop"} => g_session.initialized

(* "The nonce counter MUST survive reboots" (EEPROMNonce.ino:5-7): no      *)
(* counter is sent twice under the key, though power was lost between any  *)
(* two steps, or inside a save that leaves what Remains says.              *)
NonceUnique ==
    \A j, k \in 1 .. Len(issued) : j # k => issued[j] # issued[k]

(* "The counter is always ahead of any previously issued nonce"            *)
(* (EEPROMNonce.ino:107): a board that resumed from EEPROM at this very    *)
(* moment would start past every counter sent so far.                      *)
ResumeAhead ==
    \A k \in 1 .. Len(issued) : eeprom # Erased /\ issued[k] < eeprom + Margin

(* "The nonce counter MUST survive reboots. If the counter resets to 0 ... *)
(* nonce reuse becomes possible" (EEPROMNonce.ino:5-7): once a packet has  *)
(* gone out, the stored counter never again looks like one never written,  *)
(* from which a boot resumes at Margin - 1.                                *)
CounterSurvives == issued # <<>> => eeprom # Erased

(* The promise that a surviving receiver depends on: the sketch keeps one  *)
(* increasing sequence of counters going over all its power cycles         *)
(* ("account for any unsaved increments", EEPROMNonce.ino:12).             *)
Durable == INSTANCE DurableCounter WITH Counter <- Counters

ImplementsDurable == Durable!Spec
====
