---- MODULE SelectivePack_proofs ----
(***************************************************************************)
(* Proofs about SelectivePack for every set of messages, table of default  *)
(* policies, size of the override table, set of keys and counter width: a  *)
(* message is never packed below its policy, keys live as long as their    *)
(* session, nonces stay fresh, whatever the build.  Then about the         *)
(* header the packets carry, Wire: what the receiver and the tools read is *)
(* what was sent.                                                          *)
(***************************************************************************)
EXTENDS SelectivePack, Wire, SequenceTheorems, TLAPS

(* A message has one entry at most, with the policy it was given last.     *)
Table ==
    /\ \A i, j \in 1 .. Len(overrides) :
          overrides[i].msg_id = overrides[j].msg_id => i = j
    /\ \A i \in 1 .. Len(overrides) :
          overrides[i].policy = requested[overrides[i].msg_id]

(* The counters a session may issue are a ring of M - 1 values, since the  *)
(* last one is skipped: each counter issued lies as many places behind the *)
(* next one as packets were sent since.                                    *)
Behind(k) == Issued(session) - (Len(used) + 1 - k)

Trail ==
    session.initialized =>
        /\ Len(used) =< MaxPackets
        /\ \A k \in 1 .. Len(used) :
              /\ used[k] \in 0 .. M - 2
              /\ used[k] = Behind(k) \/ used[k] = Behind(k) + M - 1

IInv ==
    /\ TypeOK /\ Table /\ Trail
    /\ NoSilentDowngrade /\ KeyMatchesLifetime /\ NonceFresh
----
LEMMA Consts ==
    /\ M \in Nat /\ M > 1 /\ NoKey \notin Key
    /\ MaxPackets \in Nat /\ MaxPackets < M /\ OverrideMax \in Nat
    /\ Batch \in MsgIds /\ Default \in [MsgIds -> Policies]
    /\ CryptoDisabled \subseteq BOOLEAN
BY CounterAssumption, PackAssumption DEF Default, Policies

(* With one entry at most, the first entry of a message is that entry.     *)
LEMMA OneEntry ==
    ASSUME Table, NEW id, NEW i \in Entries(id)
    PROVE  Entries(id) = {i} /\ Min(Entries(id)) = i
<1>1. i \in Int
  BY DEF Entries
<1>2. Entries(id) = {i}
  BY DEF Table, Entries
<1>3. QED
  BY <1>1, <1>2 DEF Min

(* The next counter after one was issued: the next place in the ring.      *)
LEMMA RingStep ==
    ASSUME TypeOK
    PROVE  /\ Issued(session) \in 0 .. M - 2
           /\ Generated(session) \in Session
           /\ Generated(session).initialized = session.initialized
           /\ Generated(session).key = session.key
           /\ Issued(Generated(session)) =
                 IF Issued(session) = M - 2 THEN 0 ELSE Issued(session) + 1
<1>1. session \in Session /\ session.counter \in 0 .. M - 1
  BY DEF TypeOK, Session, Counters
<1>2. Issued(session) \in 0 .. M - 2
  BY <1>1, Consts DEF Issued
<1>3. /\ Generated(session) = [session EXCEPT !.counter = Issued(session) + 1]
      /\ Generated(session).counter = Issued(session) + 1
  BY <1>1 DEF Generated, Session
<1>4. Generated(session) \in Session
  BY <1>1, <1>2, <1>3, Consts DEF Session, Counters
<1>5. QED
  BY <1>1, <1>2, <1>3, <1>4, Consts DEF Issued, Session

(* One more place behind the next counter, and never the next one itself   *)
(* while the ring is not used up.                                          *)
LEMMA RingArith ==
    ASSUME NEW m \in Nat, NEW n \in Nat, n < m - 1,
           NEW next \in 0 .. m - 2,
           NEW after, after = IF next = m - 2 THEN 0 ELSE next + 1,
           NEW k \in 1 .. n, NEW u \in 0 .. m - 2,
           u = next - (n + 1 - k) \/ u = next - (n + 1 - k) + m - 1
    PROVE  /\ u # next
           /\ u = after - (n + 2 - k) \/ u = after - (n + 2 - k) + m - 1
OBVIOUS

----
(* What a call of kestrel_pack_with_nonce does to session and history.     *)
LEMMA GenerateKeepsTrail ==
    ASSUME IInv, session.initialized, Len(used) < MaxPackets,
           session' = Generated(session), used' = Append(used, Issued(session))
    PROVE  /\ session' \in Session /\ used' \in Seq(Counters)
           /\ session'.initialized = session.initialized
           /\ session'.key = session.key
           /\ Trail' /\ NonceFresh'
<1> DEFINE n == Len(used)
           next == Issued(session)
<1>1. /\ used \in Seq(Counters) /\ n \in Nat /\ n < M - 1 /\ MaxPackets \in Nat
      /\ \A k \in 1 .. n : used[k] \in 0 .. M - 2
      /\ \A k \in 1 .. n : used[k] = next - (n + 1 - k) \/ used[k] = next - (n + 1 - k) + M - 1
      /\ \A i, j \in 1 .. n : i # j => used[i] # used[j]
  BY Consts DEF IInv, TypeOK, Trail, Behind, NonceFresh
<1>2. /\ next \in 0 .. M - 2 /\ session' \in Session
      /\ session'.initialized = session.initialized /\ session'.key = session.key
      /\ Issued(session)' = IF next = M - 2 THEN 0 ELSE next + 1
  BY RingStep DEF IInv
<1>3. /\ used' \in Seq(Counters) /\ Len(used') = n + 1
      /\ \A k \in 1 .. n : used'[k] = used[k]
      /\ used'[n + 1] = next
  BY <1>1, <1>2, Consts, AppendProperties DEF Counters
<1> HIDE DEF n, next
<1>4. ASSUME NEW k \in 1 .. n + 1
      PROVE  /\ used'[k] \in 0 .. M - 2
             /\ \/ used'[k] = Issued(session)' - (n + 2 - k)
                \/ used'[k] = Issued(session)' - (n + 2 - k) + M - 1
  <2>1. CASE k = n + 1
    BY <2>1, <1>1, <1>2, <1>3, Consts
  <2>2. CASE k # n + 1
    <3>1. k \in 1 .. n
      BY <2>2, <1>1
    <3>2. used'[k] = used[k]
      BY <3>1, <1>3
    <3>3. used[k] \in 0 .. M - 2 /\ n \in Nat /\ n < M - 1 /\ next \in 0 .. M - 2
      BY <3>1, <1>1, <1>2
    <3>4. used[k] = next - (n + 1 - k) \/ used[k] = next - (n + 1 - k) + M - 1
      BY <3>1, <1>1
    <3>5. \/ used[k] = Issued(session)' - (n + 2 - k)
          \/ used[k] = Issued(session)' - (n + 2 - k) + M - 1
      BY <3>1, <3>3, <3>4, <1>2, RingArith, Consts
    <3>6. QED
      BY <3>2, <3>3, <3>5
  <2>3. QED
    BY <2>1, <2>2
<1>5. Trail'
  <2>1. n + 1 =< MaxPackets
    BY <1>1 DEF n
  <2>2. ASSUME NEW k \in 1 .. n + 1
        PROVE  Behind(k)' = Issued(session)' - (n + 2 - k)
    BY <1>1, <1>2, <1>3, Consts DEF Behind
  <2>3. QED
    BY <1>3, <1>4, <2>1, <2>2 DEF Trail
<1>6. NonceFresh'
  <2>1. ASSUME NEW k \in 1 .. n
        PROVE  used[k] # next
    <3>1. used[k] \in 0 .. M - 2 /\ n \in Nat /\ n < M - 1 /\ next \in 0 .. M - 2
      BY <1>1, <1>2
    <3>2. used[k] = next - (n + 1 - k) \/ used[k] = next - (n + 1 - k) + M - 1
      BY <1>1
    <3>3. QED
      BY <3>1, <3>2, RingArith, Consts
  <2>2. ASSUME NEW i \in 1 .. n + 1, NEW j \in 1 .. n + 1, i # j
        PROVE  used'[i] # used'[j]
    <3>1. CASE i = n + 1
      <4>1. j \in 1 .. n
        BY <2>2, <3>1, <1>1
      <4>2. QED
        BY <3>1, <4>1, <2>1, <1>3
    <3>2. CASE j = n + 1
      <4>1. i \in 1 .. n
        BY <2>2, <3>2, <1>1
      <4>2. QED
        BY <3>2, <4>1, <2>1, <1>3
    <3>3. CASE i # n + 1 /\ j # n + 1
      <4>1. i \in 1 .. n /\ j \in 1 .. n
        BY <2>2, <3>3, <1>1
      <4>2. QED
        BY <4>1, <2>2, <1>1, <1>3
    <3>4. QED
      BY <3>1, <3>2, <3>3
  <2>3. QED
    BY <2>2, <1>3 DEF NonceFresh
<1>7. QED
  BY <1>2, <1>3, <1>5, <1>6

(* What is true of session, packet and history after any pack call: the    *)
(* session stays what it was but for its counter; the packet is sealed with*)
(* the session's key, or sent in clear when the condition clear allows it  *)
(* or the caller's session is of no use to a build without cryptography.   *)
SessionKept ==
    /\ session' \in Session /\ used' \in Seq(Counters)
    /\ session'.initialized = session.initialized /\ session'.key = session.key
    /\ Trail' /\ NonceFresh'

PacketMade(by, inside, given, clear) ==
    /\ packet' \in Packet
    /\ packet'.by \in {"none", by}
    /\ packet'.encrypted => given /\ session.initialized /\ packet'.key = session.key
    /\ packet'.ret = "sent" =>
          packet'.by = by /\ packet'.inside = inside /\ packet'.session = given
    /\ packet'.ret = "sent" /\ ~packet'.encrypted => clear \/ (disabled /\ given)

Callers == {"with_nonce", "selective", "cached", "batch"}

LEMMA RefusedPacket ==
    ASSUME NEW by \in Callers, NEW inside, NEW given, NEW clear,
           NEW ret \in {"none", "NO_KEY", "INVALID_HEADER", "OVERFLOW"},
           packet' = Nothing(ret)
    PROVE  PacketMade(by, inside, given, clear)
BY DEF PacketMade, Nothing, Packet

LEMMA SessionUntouched ==
    ASSUME IInv, UNCHANGED <<session, used>>
    PROVE  SessionKept
BY DEF IInv, TypeOK, SessionKept, Trail, Behind, NonceFresh, Issued

LEMMA EmitEffect ==
    ASSUME IInv, NEW by \in Callers, NEW inside \in SUBSET MsgIds,
           NEW given \in BOOLEAN, NEW keyed \in BOOLEAN, keyed => given,
           NEW fits \in BOOLEAN, Emit(by, inside, given, keyed, fits)
    PROVE  SessionKept /\ PacketMade(by, inside, given, ~keyed)
<1>1. CASE /\ keyed /\ ~session.initialized
           /\ packet' = Nothing("INVALID_HEADER")
           /\ UNCHANGED <<session, used>>
  BY <1>1, SessionUntouched, RefusedPacket
<1>2. CASE /\ keyed /\ session.initialized
           /\ Len(used) < MaxPackets
           /\ session' = Generated(session)
           /\ used' = Append(used, Issued(session))
           /\ packet' = IF ~fits THEN Nothing("OVERFLOW")
                        ELSE IF disabled THEN Clear(by, inside, given)
                                         ELSE Sealed(by, inside, given)
  <2>1. SessionKept
    BY <1>2, GenerateKeepsTrail DEF SessionKept
  <2>2. CASE fits
    <3>1. session.key \in Key \cup {NoKey}
      BY DEF IInv, TypeOK, Session
    <3>2. CASE disabled
      BY <1>2, <2>1, <2>2, <3>2 DEF PacketMade, Clear, Packet, Callers
    <3>3. CASE ~disabled
      BY <1>2, <2>1, <2>2, <3>1, <3>3 DEF PacketMade, Sealed, Packet, Callers
    <3>4. QED
      BY <3>2, <3>3
  <2>3. CASE ~fits
    BY <1>2, <2>1, <2>3, RefusedPacket
  <2>4. QED
    BY <2>2, <2>3
<1>3. CASE /\ ~keyed
           /\ packet' = IF fits THEN Clear(by, inside, given) ELSE Nothing("OVERFLOW")
           /\ UNCHANGED <<session, used>>
  <2>1. SessionKept
    BY <1>3, SessionUntouched
  <2>2. CASE fits
    <3>1. PacketMade(by, inside, given, ~keyed)
      BY <1>3, <2>2 DEF PacketMade, Clear, Packet, Callers
    <3>2. QED
      BY <2>1, <3>1
  <2>3. CASE ~fits
    BY <1>3, <2>1, <2>3, RefusedPacket
  <2>4. QED
    BY <2>2, <2>3
<1>4. QED
  BY <1>1, <1>2, <1>3 DEF Emit

(* A policy of NEVER allows a clear packet, OPTIONAL only without session, *)
(* ALWAYS not at all.                                                      *)
ClearAllowed(id, given) == Policy(id) = "NEVER" \/ (~given /\ Policy(id) = "OPTIONAL")

LEMMA SelectEffect ==
    ASSUME IInv, NEW by \in Callers, NEW id, NEW inside \in SUBSET MsgIds,
           NEW given \in BOOLEAN, NEW fits \in BOOLEAN,
           Select(by, id, inside, given, fits)
    PROVE  SessionKept /\ PacketMade(by, inside, given, ClearAllowed(id, given))
<1>1. CASE Policy(id) = "NEVER" /\ Emit(by, inside, given, FALSE, fits)
  <2>1. SessionKept /\ PacketMade(by, inside, given, TRUE)
    BY <1>1, EmitEffect
  <2>2. QED
    BY <1>1, <2>1 DEF PacketMade, ClearAllowed
<1>2. CASE Policy(id) = "OPTIONAL" /\ Emit(by, inside, given, given, fits)
  <2>1. SessionKept /\ PacketMade(by, inside, given, ~given)
    BY <1>2, EmitEffect
  <2>2. QED
    BY <1>2, <2>1 DEF PacketMade, ClearAllowed
<1>3. CASE Policy(id) = "ALWAYS" /\ given /\ Emit(by, inside, given, TRUE, fits)
  <2>1. SessionKept /\ PacketMade(by, inside, given, FALSE)
    BY <1>3, EmitEffect
  <2>2. QED
    BY <2>1 DEF PacketMade
<1>4. CASE /\ Policy(id) = "ALWAYS" /\ ~given
           /\ packet' = Nothing("NO_KEY")
           /\ UNCHANGED <<session, used>>
  BY <1>4, SessionUntouched, RefusedPacket
<1>5. QED
  BY <1>1, <1>2, <1>3, <1>4 DEF Select
----
Cache == [valid : BOOLEAN, last_key : Key \cup {NoKey}]

(* A pack call that keeps the session, makes a packet as PacketMade says   *)
(* and leaves the policies alone preserves the invariant, if clear implies *)
(* what each caller's policy allows.                                       *)
LEMMA PackIInv ==
    ASSUME IInv, NEW by \in Callers, NEW inside, NEW given \in BOOLEAN,
           NEW clear \in BOOLEAN,
           SessionKept, PacketMade(by, inside, given, clear),
           UNCHANGED <<disabled, overrides, requested>>, cache' \in Cache,
           by = "with_nonce" /\ clear => ~given,
           by = "batch" /\ clear /\ given => Policy(Batch) = "NEVER",
           by \in {"selective", "cached"} /\ clear => \A id \in inside :
               Policy(id) # "ALWAYS" /\ (given => Policy(id) = "NEVER")
    PROVE  IInv'
<1>1. TypeOK' /\ Table'
  BY DEF IInv, TypeOK, Table, SessionKept, PacketMade, Cache
<1>2. \A id : Policy(id)' = Policy(id)
  BY DEF Policy, Entries
<1>3. NoSilentDowngrade'
  <2>1. SUFFICES ASSUME packet'.ret = "sent"
                 PROVE  /\ packet'.by \in {"selective", "cached"} /\ ~packet'.session =>
                             \A id \in packet'.inside : Policy(id) # "ALWAYS"
                        /\ ~disabled /\ ~packet'.encrypted /\ packet'.session =>
                             /\ packet'.by # "with_nonce"
                             /\ \/ packet'.by = "batch" /\ Policy(Batch) = "NEVER"
                                \/ /\ packet'.by # "batch"
                                   /\ \A id \in packet'.inside : Policy(id) = "NEVER"
    BY <1>2 DEF NoSilentDowngrade
  <2>2. packet'.by = by /\ packet'.inside = inside /\ packet'.session = given
    BY <2>1 DEF PacketMade
  <2>3. ~given => clear
    BY <2>1 DEF PacketMade
  <2>4. ~disabled /\ ~packet'.encrypted => clear
    BY <2>1 DEF PacketMade
  <2>5. QED
    BY <2>2, <2>3, <2>4 DEF Callers
<1>4. KeyMatchesLifetime'
  BY DEF IInv, KeyMatchesLifetime, TypeOK, Session, SessionKept, PacketMade
<1>5. QED
  BY <1>1, <1>3, <1>4 DEF IInv, SessionKept

(* A call that makes no packet leaves the properties of packets true.      *)
LEMMA NothingShown ==
    ASSUME NEW ret \in {"none", "INVALID_HEADER"}, packet' = Nothing(ret)
    PROVE  /\ packet' \in Packet /\ ~packet'.encrypted
           /\ NoSilentDowngrade'
BY DEF Nothing, Packet, NoSilentDowngrade

LEMMA InitIInv == Init => IInv
<1> SUFFICES ASSUME Init PROVE IInv
  OBVIOUS
<1>1. overrides = <<>> /\ used = <<>> /\ Len(overrides) = 0 /\ Len(used) = 0
  BY DEF Init
<1>2. session = Wiped /\ session \in Session /\ ~session.initialized
  BY Consts DEF Init, Wiped, Session, Counters
<1>3. packet \in Packet /\ ~packet.encrypted /\ packet.ret = "none"
  BY DEF Init, Nothing, Packet
<1>4. TypeOK
  BY <1>1, <1>2, <1>3, Consts DEF Init, TypeOK
<1>5. Table /\ Trail /\ NonceFresh
  BY <1>1, <1>2 DEF Table, Trail, NonceFresh
<1>6. NoSilentDowngrade /\ KeyMatchesLifetime
  BY <1>2, <1>3 DEF NoSilentDowngrade, KeyMatchesLifetime, Wiped
<1>7. QED
  BY <1>4, <1>5, <1>6 DEF IInv

LEMMA SetPolicyIInv ==
    ASSUME IInv, NEW id \in MsgIds, NEW policy \in Policies, SetPolicy(id, policy)
    PROVE  IInv'
<1> DEFINE Entry == [msg_id : MsgIds, policy : Policies]
<1>1. /\ overrides \in Seq(Entry) /\ Len(overrides) \in Nat /\ Len(overrides) =< OverrideMax
      /\ requested \in [MsgIds -> Policies \cup {"none"}]
      /\ Table
  BY DEF IInv, TypeOK
<1>entries. \A j \in 1 .. Len(overrides) : overrides[j] \in Entry /\ overrides[j].msg_id \in MsgIds
  <2>1. ASSUME NEW j \in 1 .. Len(overrides) PROVE overrides[j] \in Entry
    BY <1>1, ElementOfSeq
  <2>2. QED
    BY <2>1
<1>2. /\ requested' = [requested EXCEPT ![id] = policy]
      /\ packet' = Nothing("none") /\ UNCHANGED <<disabled, session, cache, used>>
  BY DEF SetPolicy
<1>3. /\ packet' \in Packet /\ ~packet'.encrypted
      /\ NoSilentDowngrade'
  BY <1>2, NothingShown
<1>4. requested' \in [MsgIds -> Policies \cup {"none"}]
  BY <1>1, <1>2
<1>5. overrides' \in Seq(Entry) /\ Len(overrides') =< OverrideMax /\ Table'
  <2>1. CASE /\ Entries(id) # {}
             /\ overrides' = [overrides EXCEPT ![Min(Entries(id))].policy = policy]
    <3>1. PICK i \in Entries(id) : TRUE
      BY <2>1
    <3>2. i \in 1 .. Len(overrides) /\ overrides[i].msg_id = id /\ overrides[i] \in Entry
      BY <3>1, <1>entries DEF Entries
    <3>3. overrides' = [overrides EXCEPT ![i].policy = policy]
      BY <2>1, <3>1, <1>1, OneEntry
    <3>4. /\ overrides' \in Seq(Entry) /\ Len(overrides') = Len(overrides)
          /\ \A j \in 1 .. Len(overrides) :
                /\ overrides'[j].msg_id = overrides[j].msg_id
                /\ overrides'[j].policy = IF j = i THEN policy ELSE overrides[j].policy
      <4>1. [overrides[i] EXCEPT !.policy = policy] \in Entry
        BY <3>2
      <4>2. overrides' = [overrides EXCEPT ![i] = [overrides[i] EXCEPT !.policy = policy]]
        BY <3>3
      <4>3. overrides' \in Seq(Entry) /\ Len(overrides') = Len(overrides)
        BY <4>1, <4>2, <3>2, <1>1, ExceptSeq
      <4>4. ASSUME NEW j \in 1 .. Len(overrides)
            PROVE  overrides'[j] = IF j = i THEN [overrides[i] EXCEPT !.policy = policy]
                                            ELSE overrides[j]
        BY <4>2, <3>2, <1>1
      <4>5. QED
        BY <4>3, <4>4, <1>entries, <3>2
    <3>5. \A j \in 1 .. Len(overrides) : j # i => overrides[j].msg_id # id
      BY <3>2, <1>1 DEF Table
    <3>6. Table'
      BY <3>2, <3>4, <3>5, <1>entries, <1>1, <1>2 DEF Table
    <3>7. QED
      BY <3>4, <3>6, <1>1
  <2>2. CASE /\ Entries(id) = {} /\ Len(overrides) < OverrideMax
             /\ overrides' = Append(overrides, [msg_id |-> id, policy |-> policy])
    <3>1. [msg_id |-> id, policy |-> policy] \in Entry
      OBVIOUS
    <3>2. /\ overrides' \in Seq(Entry) /\ Len(overrides') = Len(overrides) + 1
          /\ \A j \in 1 .. Len(overrides) : overrides'[j] = overrides[j]
          /\ overrides'[Len(overrides) + 1] = [msg_id |-> id, policy |-> policy]
      BY <2>2, <3>1, <1>1, AppendProperties
    <3>3. \A j \in 1 .. Len(overrides) :
             overrides[j].msg_id # id /\ overrides[j].msg_id \in MsgIds
      BY <2>2, <1>entries DEF Entries
    <3>4. requested'[id] = policy
          /\ \A other \in MsgIds : other # id => requested'[other] = requested[other]
      BY <1>1, <1>2
    <3>5. ASSUME NEW j \in 1 .. Len(overrides) + 1
          PROVE  /\ j # Len(overrides) + 1 => j \in 1 .. Len(overrides)
                 /\ overrides'[j].msg_id = IF j = Len(overrides) + 1 THEN id
                                                                   ELSE overrides[j].msg_id
                 /\ overrides'[j].policy = IF j = Len(overrides) + 1 THEN policy
                                                                   ELSE overrides[j].policy
      BY <3>2, <1>1
    <3>6. \A i, j \in 1 .. Len(overrides) + 1 :
             overrides'[i].msg_id = overrides'[j].msg_id => i = j
      BY <3>3, <3>5, <1>1 DEF Table
    <3>7. \A i \in 1 .. Len(overrides) + 1 :
             overrides'[i].policy = requested'[overrides'[i].msg_id]
      BY <3>3, <3>4, <3>5, <1>1 DEF Table
    <3>8. Table'
      BY <3>2, <3>6, <3>7 DEF Table
    <3>9. QED
      BY <2>2, <3>2, <3>8, <1>1, Consts
  <2>3. CASE /\ Entries(id) = {} /\ Len(overrides) = OverrideMax /\ UNCHANGED overrides
    <3>1. \A j \in 1 .. Len(overrides) :
             overrides[j].msg_id # id /\ overrides[j].msg_id \in MsgIds
      BY <2>3, <1>entries DEF Entries
    <3>2. Table'
      BY <2>3, <3>1, <1>1, <1>2 DEF Table
    <3>3. QED
      BY <2>3, <3>2, <1>1
  <2>4. QED
    BY <2>1, <2>2, <2>3 DEF SetPolicy
<1>6. TypeOK'
  BY <1>2, <1>3, <1>4, <1>5 DEF IInv, TypeOK
<1>7. SessionKept
  BY <1>2, SessionUntouched
<1>8. KeyMatchesLifetime'
  BY <1>2, <1>3 DEF IInv, KeyMatchesLifetime
<1>9. QED
  BY <1>3, <1>5, <1>6, <1>7, <1>8 DEF IInv, SessionKept

(* Starting and destroying a session: what the new session is decides.     *)
LEMMA SessionIInv ==
    ASSUME IInv,
           \/ \E k \in Key, seed \in Counters : StartSession(k, seed)
           \/ \E k \in Key : StartSessionFails(k)
           \/ DestroySession
    PROVE  IInv'
<1>1. packet' = Nothing("none") /\ UNCHANGED <<disabled, overrides, cache, requested>>
  BY DEF StartSession, StartSessionFails, DestroySession
<1>2. /\ packet' \in Packet /\ ~packet'.encrypted
      /\ NoSilentDowngrade'
  BY <1>1, NothingShown
<1>3. /\ session' \in Session
      /\ session'.initialized <=> session'.key # NoKey
  <2> DEFINE Empty(s) == s \in Session /\ ~s.initialized /\ s.key = NoKey
  <2>1. Empty(Wiped) /\ Empty([Wiped EXCEPT !.key = NoKey])
    <3>1. 0 \in Counters
      BY Consts DEF Counters
    <3>2. Empty(Wiped)
      BY <3>1 DEF Wiped, Session
    <3>3. Empty([Wiped EXCEPT !.key = NoKey])
      BY <3>2 DEF Session
    <3>4. QED
      BY <3>2, <3>3
  <2>2. ASSUME NEW k \in Key, NEW seed \in Counters, StartSession(k, seed)
        PROVE  session' \in Session /\ (session'.initialized <=> session'.key # NoKey)
    BY <2>2, Consts DEF StartSession, SessionInit, Session
  <2>3. ASSUME NEW k \in Key, StartSessionFails(k)
        PROVE  Empty(session')
    BY <2>1, <2>3 DEF StartSessionFails, SessionInitFailed
  <2>4. DestroySession => Empty(session')
    BY <2>1 DEF DestroySession, SessionDestroy
  <2>5. QED
    BY <2>1, <2>2, <2>3, <2>4
<1>4. used' \in Seq(Counters) /\ NonceFresh'
  <2>1. CASE used' = <<>>
    BY <2>1 DEF NonceFresh
  <2>2. CASE used' = used
    BY <2>2 DEF IInv, TypeOK, NonceFresh
  <2>3. QED
    BY <2>1, <2>2 DEF StartSession, StartSessionFails, DestroySession
<1>5. Trail'
  <2>1. CASE used' = <<>>
    BY <2>1, Consts DEF Trail
  <2>2. CASE DestroySession
    BY <2>2 DEF DestroySession, SessionDestroy, Wiped, Trail
  <2>3. QED
    BY <2>1, <2>2 DEF StartSession, StartSessionFails
<1>6. TypeOK' /\ Table'
  BY <1>1, <1>2, <1>3, <1>4 DEF IInv, TypeOK, Table
<1>7. KeyMatchesLifetime'
  BY <1>2, <1>3 DEF KeyMatchesLifetime
<1>8. QED
  BY <1>2, <1>4, <1>5, <1>6, <1>7 DEF IInv

LEMMA PackWithNonceIInv ==
    ASSUME IInv, NEW id \in MsgIds, NEW given \in BOOLEAN, NEW fits \in BOOLEAN,
           PackWithNonce(id, given, fits)
    PROVE  IInv'
<1>1. Emit("with_nonce", {id}, given, given, fits) /\ UNCHANGED <<disabled, overrides, cache, requested>>
  BY DEF PackWithNonce
<1>2. SessionKept /\ PacketMade("with_nonce", {id}, given, ~given)
  BY <1>1, EmitEffect DEF Callers
<1>3. cache' \in Cache
  BY <1>1 DEF IInv, TypeOK, Cache
<1>4. QED
  BY <1>1, <1>2, <1>3, PackIInv DEF Callers

LEMMA PackSelectiveIInv ==
    ASSUME IInv, NEW id \in MsgIds, NEW given \in BOOLEAN, NEW fits \in BOOLEAN,
           PackSelective(id, given, fits)
    PROVE  IInv'
<1>1. Select("selective", id, {id}, given, fits) /\ UNCHANGED <<disabled, overrides, cache, requested>>
  BY DEF PackSelective
<1>2. SessionKept /\ PacketMade("selective", {id}, given, ClearAllowed(id, given))
  BY <1>1, SelectEffect DEF Callers
<1>3. cache' \in Cache
  BY <1>1 DEF IInv, TypeOK, Cache
<1>4. QED
  BY <1>1, <1>2, <1>3, PackIInv DEF Callers, ClearAllowed

LEMMA PackCachedIInv ==
    ASSUME IInv, NEW id \in MsgIds, NEW given \in BOOLEAN, NEW fits \in BOOLEAN,
           PackCached(id, given, fits)
    PROVE  IInv'
<1>1. Select("cached", id, {id}, given, fits) /\ UNCHANGED <<disabled, overrides, requested>>
  BY DEF PackCached
<1>2. SessionKept /\ PacketMade("cached", {id}, given, ClearAllowed(id, given))
  BY <1>1, SelectEffect DEF Callers
<1>3. cache' \in Cache
  <2>1. cache \in Cache /\ session.key \in Key \cup {NoKey}
    BY DEF IInv, TypeOK, Session, Cache
  <2>2. [valid |-> TRUE, last_key |-> session.key] \in Cache
    BY <2>1 DEF Cache
  <2>3. [cache EXCEPT !.valid = FALSE] \in Cache
    BY <2>1 DEF Cache
  <2>4. QED
    BY <2>1, <2>2, <2>3 DEF PackCached
<1>4. QED
  BY <1>1, <1>2, <1>3, PackIInv DEF Callers, ClearAllowed

LEMMA PackBatchIInv ==
    ASSUME IInv, NEW ids \in SUBSET (MsgIds \ {Batch}),
           NEW given \in BOOLEAN, NEW fits \in BOOLEAN, PackBatch(ids, given, fits)
    PROVE  IInv'
<1>1. UNCHANGED <<disabled, overrides, cache, requested>> /\ cache' \in Cache
  BY DEF PackBatch, IInv, TypeOK, Cache
<1>2. CASE UNCHANGED <<session, used>>
           /\ (packet' = Nothing("INVALID_HEADER") \/ packet' = Nothing("OVERFLOW"))
  <2>1. SessionKept /\ PacketMade("batch", ids, given, FALSE)
    BY <1>2, SessionUntouched, RefusedPacket DEF Callers
  <2>2. QED
    BY <1>1, <2>1, PackIInv DEF Callers
<1>3. CASE Select("batch", Batch, ids, given, TRUE)
  <2>1. SessionKept /\ PacketMade("batch", ids, given, ClearAllowed(Batch, given))
    BY <1>3, SelectEffect DEF Callers
  <2>2. QED
    BY <1>1, <2>1, PackIInv DEF Callers, ClearAllowed
<1>4. QED
  BY <1>2, <1>3 DEF PackBatch

LEMMA NextIInv == ASSUME IInv, [Next]_vars PROVE IInv'
<1>1. CASE \E id \in MsgIds, policy \in Policies : SetPolicy(id, policy)
  BY <1>1, SetPolicyIInv
<1>2. CASE \/ \E k \in Key, seed \in Counters : StartSession(k, seed)
           \/ \E k \in Key : StartSessionFails(k)
           \/ DestroySession
  BY <1>2, SessionIInv
<1>3. CASE \E given, fits \in BOOLEAN, id \in MsgIds :
              \/ PackWithNonce(id, given, fits)
              \/ PackSelective(id, given, fits)
              \/ PackCached(id, given, fits)
  BY <1>3, PackWithNonceIInv, PackSelectiveIInv, PackCachedIInv
<1>4. CASE \E given, fits \in BOOLEAN :
              \E ids \in SUBSET (MsgIds \ {Batch}) : PackBatch(ids, given, fits)
  BY <1>4, PackBatchIInv
<1>5. CASE UNCHANGED vars
  <2>1. UNCHANGED <<disabled, overrides, session, cache, packet, requested, used>>
    BY <1>5 DEF vars
  <2>2. SessionKept
    BY <2>1, SessionUntouched
  <2>3. TypeOK' /\ Table' /\ KeyMatchesLifetime'
    BY <2>1 DEF IInv, TypeOK, Table, KeyMatchesLifetime
  <2>4. \A id : Policy(id)' = Policy(id)
    BY <2>1 DEF Policy, Entries
  <2>5. NoSilentDowngrade'
    BY <2>1, <2>4 DEF IInv, NoSilentDowngrade
  <2>6. QED
    BY <2>2, <2>3, <2>5 DEF IInv, SessionKept
<1>6. QED
  BY <1>1, <1>2, <1>3, <1>4, <1>5 DEF Next

----
(* The invariant holds in every reachable state.                           *)
THEOREM Invariance == Spec => []IInv
<1>1. Init => IInv
  BY InitIInv
<1>2. IInv /\ [Next]_vars => IInv'
  BY NextIInv
<1>3. QED
  BY <1>1, <1>2, PTL DEF Spec

(* Policies, session, cache and packet keep their types, and the override  *)
(* table never outgrows KS_ENCRYPT_OVERRIDE_MAX.                           *)
THEOREM TypeCorrect == Spec => []TypeOK
<1>1. IInv => TypeOK
  BY DEF IInv
<1>2. QED
  BY <1>1, Invariance, PTL

(* ks_get_encrypt_policy answers with the policy set last for a message    *)
(* that has an override, wherever in the table it lies, else the default.  *)
THEOREM LastRequestInForce == Spec => []LastRequestCounts
<1>1. IInv => LastRequestCounts
  <2> SUFFICES ASSUME IInv, NEW id \in MsgIds
               PROVE  Policy(id) = IF Entries(id) # {} THEN requested[id] ELSE Default[id]
    BY DEF LastRequestCounts
  <2>1. CASE Entries(id) = {}
    BY <2>1 DEF Policy
  <2>2. CASE Entries(id) # {}
    <3>1. PICK i \in Entries(id) : TRUE
      BY <2>2
    <3>2. Min(Entries(id)) = i
      BY <3>1, OneEntry DEF IInv
    <3>3. overrides[i].policy = requested[id]
      BY <3>1 DEF IInv, Table, Entries
    <3>4. QED
      BY <2>2, <3>2, <3>3 DEF Policy
  <2>3. QED
    BY <2>1, <2>2
<1>2. QED
  BY <1>1, Invariance, PTL

(* In every build a message whose policy is ALWAYS is refused to a caller  *)
(* without session; in a build with cryptography nothing packed with a     *)
(* session goes out in clear that its policy wants sealed, a batch being   *)
(* judged by the policy of KS_MSG_BATCH.  A build with KS_CRYPTO_DISABLED  *)
(* sends what a session came with in clear: nothing is claimed of it.      *)
THEOREM NoDowngrade == Spec => []NoSilentDowngrade
<1>1. IInv => NoSilentDowngrade
  BY DEF IInv
<1>2. QED
  BY <1>1, Invariance, PTL

(* A session holds a key exactly while it is initialised, and nothing is   *)
(* ever sealed with the zeroed key.                                        *)
THEOREM KeysLiveWithSessions == Spec => []KeyMatchesLifetime
<1>1. IInv => KeyMatchesLifetime
  BY DEF IInv
<1>2. QED
  BY <1>1, Invariance, PTL

(* ks_nonce_generate gives a session distinct counters up to M - 1 of them,*)
(* whatever the seed, the rollover included.                               *)
THEOREM NoncesFresh == Spec => []NonceFresh
<1>1. IInv => NonceFresh
  BY DEF IInv
<1>2. QED
  BY <1>1, Invariance, PTL

----
(* Proofs about Wire, for every header on a stream of the code: what the   *)
(* encoders write into each byte, what the decoder and the tools read out  *)
(* of it.  WireInv ties the bytes on the line to the header they were made *)
(* of and the header read so far to those bytes.                           *)

LEMMA Powers ==
    /\ 2^0 = 1 /\ 2^1 = 2 /\ 2^2 = 4 /\ 2^3 = 8 /\ 2^4 = 16 /\ 2^6 = 64 /\ 2^8 = 256
    /\ 2^10 = 1024
OBVIOUS

LEMMA WordTop == 2^16 \in Nat /\ 2^16 - 1 > 4095
OBVIOUS

LEMMA WordRange ==
    /\ \A x \in Word : x \in Nat
    /\ \A x \in Byte : x \in Nat
<1>1. ASSUME NEW x \in Word PROVE x \in Nat
  BY <1>1, WordTop DEF Word
<1>2. ASSUME NEW x \in Byte PROVE x \in Nat
  BY <1>2 DEF Byte
<1>3. QED
  BY <1>1, <1>2

(* A length of sixteen bits, cut to the twelve that travel in three bytes. *)
LEMMA LengthCut ==
    ASSUME NEW v \in Nat, NEW hi \in Int, NEW mid \in Int, NEW lo \in Int, NEW cut \in Int,
           hi = (v \div 256) % 16, mid = (v \div 4) % 64, lo = v % 4, cut = v % 4096
    PROVE  hi * 256 + mid * 4 + lo = cut
OBVIOUS

LEMMA SequenceCut ==
    ASSUME NEW v \in Nat, NEW hi \in Int, NEW mid \in Int, NEW lo \in Int, NEW cut \in Int,
           hi = (v \div 1024) % 4, mid = (v \div 4) % 256, lo = v % 4, cut = v % 4096
    PROVE  hi * 1024 + mid * 4 + lo = cut
OBVIOUS

LEMMA StreamCut ==
    ASSUME NEW v \in Nat, NEW hi \in Int, NEW lo \in Int, NEW cut \in Int,
           hi = (v \div 4) % 4, lo = v % 4, cut = v % 16
    PROVE  hi * 4 + lo = cut
OBVIOUS

LEMMA MessageCut ==
    ASSUME NEW v \in Nat, NEW hi \in Int, NEW lo \in Int, NEW cut \in Int,
           hi = (v \div 256) % 16, lo = v % 256, cut = v % 4096
    PROVE  hi * 256 + lo = cut
OBVIOUS

LEMMA SecondByte ==
    ASSUME NEW a \in 0 .. 15, NEW p \in 0 .. 3, NEW s \in 0 .. 3,
           NEW b \in Int, b = a * 16 + p * 4 + s
    PROVE  b \in Byte /\ Bits(b, 4, 4) = a /\ Bits(b, 2, 2) = p /\ Bits(b, 0, 2) = s
BY Powers DEF Byte, Bits

LEMMA ThirdByte ==      \* and the sixth
    ASSUME NEW a \in 0 .. 3, NEW m \in 0 .. 63, NEW b \in Int, b = a * 64 + m
    PROVE  b \in Byte /\ Bits(b, 6, 2) = a /\ Bits(b, 0, 6) = m
BY Powers DEF Byte, Bits

LEMMA FourthByte ==
    ASSUME NEW a \in 0 .. 3, NEW c \in 0 .. 1, NEW e \in 0 .. 1, NEW f \in 0 .. 1,
           NEW s \in 0 .. 3, NEW b \in Int, b = a * 64 + c * 16 + e * 8 + f * 4 + s
    PROVE  /\ b \in Byte /\ Bits(b, 6, 2) = a /\ Bits(b, 4, 1) = c /\ Bits(b, 3, 1) = e
           /\ Bits(b, 2, 1) = f /\ Bits(b, 0, 2) = s
BY Powers DEF Byte, Bits

LEMMA SeventhByte ==
    ASSUME NEW a \in 0 .. 15, NEW m \in 0 .. 15, NEW b \in Int, b = a * 16 + m
    PROVE  b \in Byte /\ Bits(b, 4, 4) = a /\ Bits(b, 0, 4) = m
BY Powers DEF Byte, Bits

(* The bytes of h, wherever the optional parts leave them.                 *)
Encoded(h, w) ==
    /\ w \in Seq(Byte) /\ Len(w) = 4 + ExtLen(h)
    /\ w[2] = Bits(h.payload_len, 8, 4) * 16 + Bits(h.priority, 0, 2) * 4
                + Bits(h.stream_type, 2, 2)
    /\ w[3] = Bits(h.stream_type, 0, 2) * 64 + Bits(h.payload_len, 2, 6)
    /\ w[4] = Bits(h.payload_len, 0, 2) * 64 + h.compressed * 16 + h.encrypted * 8
                + h.fragmented * 4 + Bits(h.sequence, 10, 2)
    /\ w[5] = Bits(h.sequence, 2, 8)
    /\ w[6] = Bits(h.sequence, 0, 2) * 64 + Bits(h.sys_id, 0, 6)
    /\ w[7] = Bits(h.comp_id, 0, 4) * 16 + Bits(h.msg_id, 8, 4)
    /\ w[8] = Bits(h.msg_id, 0, 8)
    /\ IsCommand(h.stream_type) => w[9] = Bits(h.target_sys_id, 0, 6)
    /\ h.fragmented = 1 =>
          w[9 + TargetLen(h)] = h.frag_index /\ w[10 + TargetLen(h)] = h.frag_total
    /\ h.encrypted = 1 =>
          \A i \in 1 .. 8 : w[8 + TargetLen(h) + FragLen(h) + i] = h.nonce[i]

LEMMA Joined ==
    ASSUME NEW s \in Seq(Byte), NEW t \in Seq(Byte)
    PROVE  /\ s \o t \in Seq(Byte) /\ Len(s) \in Nat /\ Len(t) \in Nat
           /\ Len(s \o t) = Len(s) + Len(t)
           /\ \A i \in 1 .. Len(s) : (s \o t)[i] = s[i]
           /\ \A i \in 1 .. Len(t) : (s \o t)[Len(s) + i] = t[i]
<1>1. /\ s \o t \in Seq(Byte) /\ Len(s \o t) = Len(s) + Len(t)
      /\ \A i \in 1 .. Len(s) + Len(t) :
            (s \o t)[i] = IF i =< Len(s) THEN s[i] ELSE t[i - Len(s)]
  BY ConcatProperties
<1>2. Len(s) \in Nat /\ Len(t) \in Nat
  BY LenProperties
<1>3. ASSUME NEW i \in 1 .. Len(t) PROVE (s \o t)[Len(s) + i] = t[i]
  <2>1. Len(s) + i \in 1 .. Len(s) + Len(t) /\ ~(Len(s) + i =< Len(s))
        /\ (Len(s) + i) - Len(s) = i
    BY <1>2
  <2>2. QED
    BY <1>1, <2>1
<1>4. QED
  BY <1>1, <1>2, <1>3

LEMMA HeaderFields ==
    ASSUME NEW h \in Header
    PROVE  /\ h.payload_len \in Nat /\ h.priority \in Nat /\ h.stream_type \in Nat
           /\ h.encrypted \in 0 .. 1 /\ h.compressed \in 0 .. 1 /\ h.fragmented \in 0 .. 1
           /\ h.sequence \in Nat /\ h.sys_id \in Nat /\ h.comp_id \in Nat
           /\ h.target_sys_id \in Nat /\ h.msg_id \in Nat
           /\ h.frag_index \in Byte /\ h.frag_total \in Byte
           /\ h.nonce \in Seq(Byte) /\ Len(h.nonce) = 8
<1>1. h.nonce \in [1 .. 8 -> Byte]
  BY DEF Header
<1>2. h.nonce \in Seq(Byte)
  BY <1>1, SeqDef
<1>3. DOMAIN h.nonce = 1 .. Len(h.nonce) /\ DOMAIN h.nonce = 1 .. 8 /\ Len(h.nonce) \in Nat
  BY <1>1, <1>2, LenProperties
<1>4. Len(h.nonce) = 8
  <2>1. PICK n \in Nat : n = Len(h.nonce)
    BY <1>3
  <2>2. \A i : i \in 1 .. n <=> i \in 1 .. 8
    BY <1>3, <2>1
  <2>3. 8 \in 1 .. n /\ 9 \notin 1 .. n
    BY <2>2
  <2>4. n >= 8 /\ ~(n >= 9)
    BY <2>3
  <2>5. n = 8
    BY <2>4
  <2>6. QED
    BY <2>1, <2>5
<1>5. /\ h.payload_len \in Word /\ h.sequence \in Word /\ h.msg_id \in Word
      /\ h.priority \in Byte /\ h.stream_type \in Byte /\ h.sys_id \in Byte
      /\ h.comp_id \in Byte /\ h.target_sys_id \in Byte
      /\ h.frag_index \in Byte /\ h.frag_total \in Byte
      /\ h.encrypted \in 0 .. 1 /\ h.compressed \in 0 .. 1 /\ h.fragmented \in 0 .. 1
  BY DEF Header
<1>6. Word \subseteq Nat /\ Byte \subseteq Nat
  BY WordRange
<1>7. QED
  BY <1>2, <1>4, <1>5, <1>6

LEMMA HeaderBits ==
    ASSUME NEW h \in Header
    PROVE  /\ Bits(h.payload_len, 8, 4) \in 0 .. 15 /\ Bits(h.payload_len, 2, 6) \in 0 .. 63
           /\ Bits(h.payload_len, 0, 2) \in 0 .. 3 /\ Bits(h.priority, 0, 2) \in 0 .. 3
           /\ Bits(h.stream_type, 2, 2) \in 0 .. 3 /\ Bits(h.stream_type, 0, 2) \in 0 .. 3
           /\ Bits(h.sequence, 10, 2) \in 0 .. 3 /\ Bits(h.sequence, 2, 8) \in 0 .. 255
           /\ Bits(h.sequence, 0, 2) \in 0 .. 3 /\ Bits(h.sys_id, 0, 6) \in 0 .. 63
           /\ Bits(h.comp_id, 0, 4) \in 0 .. 15 /\ Bits(h.msg_id, 8, 4) \in 0 .. 15
           /\ Bits(h.msg_id, 0, 8) \in 0 .. 255 /\ Bits(h.target_sys_id, 0, 6) \in 0 .. 63
<1>1. /\ h.payload_len \in Nat /\ h.priority \in Nat /\ h.stream_type \in Nat
      /\ h.sequence \in Nat /\ h.sys_id \in Nat /\ h.comp_id \in Nat
      /\ h.target_sys_id \in Nat /\ h.msg_id \in Nat
  BY HeaderFields
<1>2. /\ Bits(h.payload_len, 8, 4) \in 0 .. 15 /\ Bits(h.payload_len, 2, 6) \in 0 .. 63
      /\ Bits(h.payload_len, 0, 2) \in 0 .. 3
  BY <1>1, Powers DEF Bits
<1>3. /\ Bits(h.priority, 0, 2) \in 0 .. 3 /\ Bits(h.stream_type, 2, 2) \in 0 .. 3
      /\ Bits(h.stream_type, 0, 2) \in 0 .. 3
  BY <1>1, Powers DEF Bits
<1>4. /\ Bits(h.sequence, 10, 2) \in 0 .. 3 /\ Bits(h.sequence, 2, 8) \in 0 .. 255
      /\ Bits(h.sequence, 0, 2) \in 0 .. 3
  BY <1>1, Powers DEF Bits
<1>5. /\ Bits(h.sys_id, 0, 6) \in 0 .. 63 /\ Bits(h.comp_id, 0, 4) \in 0 .. 15
      /\ Bits(h.target_sys_id, 0, 6) \in 0 .. 63
  BY <1>1, Powers DEF Bits
<1>6. Bits(h.msg_id, 8, 4) \in 0 .. 15 /\ Bits(h.msg_id, 0, 8) \in 0 .. 255
  BY <1>1, Powers DEF Bits
<1>7. QED
  BY <1>2, <1>3, <1>4, <1>5, <1>6

(* A base header, whoever encodes it.                                      *)
LEMMA BaseBytes ==
    ASSUME NEW h \in Header
    PROVE  /\ EncodeBase(h) \in Seq(Byte) /\ Len(EncodeBase(h)) = 4
           /\ EncodeBase(h)[2] = Bits(h.payload_len, 8, 4) * 16 + Bits(h.priority, 0, 2) * 4
                                   + Bits(h.stream_type, 2, 2)
           /\ EncodeBase(h)[3] = Bits(h.stream_type, 0, 2) * 64 + Bits(h.payload_len, 2, 6)
           /\ EncodeBase(h)[4] = Bits(h.payload_len, 0, 2) * 64 + h.compressed * 16
                                   + h.encrypted * 8 + h.fragmented * 4
                                   + Bits(h.sequence, 10, 2)
<1>1. PICK a \in 0 .. 15 : a = Bits(h.payload_len, 8, 4)
  BY HeaderBits
<1>2. PICK m \in 0 .. 63 : m = Bits(h.payload_len, 2, 6)
  BY HeaderBits
<1>3. PICK r \in 0 .. 3 : r = Bits(h.payload_len, 0, 2)
  BY HeaderBits
<1>4. PICK p \in 0 .. 3 : p = Bits(h.priority, 0, 2)
  BY HeaderBits
<1>5. PICK s \in 0 .. 3 : s = Bits(h.stream_type, 2, 2)
  BY HeaderBits
<1>6. PICK t \in 0 .. 3 : t = Bits(h.stream_type, 0, 2)
  BY HeaderBits
<1>7. PICK q \in 0 .. 3 : q = Bits(h.sequence, 10, 2)
  BY HeaderBits
<1>8. PICK c \in 0 .. 1, e \in 0 .. 1, f \in 0 .. 1 :
        c = h.compressed /\ e = h.encrypted /\ f = h.fragmented
  BY HeaderFields
<1>9. a * 16 + p * 4 + s \in Byte /\ t * 64 + m \in Byte
      /\ r * 64 + c * 16 + e * 8 + f * 4 + q \in Byte /\ KS_SOF \in Byte
  BY DEF Byte, KS_SOF
<1>10. EncodeBase(h) = <<KS_SOF, a * 16 + p * 4 + s, t * 64 + m,
                         r * 64 + c * 16 + e * 8 + f * 4 + q>>
  BY <1>1, <1>2, <1>3, <1>4, <1>5, <1>6, <1>7, <1>8 DEF EncodeBase
<1>11. PICK b2 \in Byte, b3 \in Byte, b4 \in Byte :
         /\ b2 = a * 16 + p * 4 + s /\ b3 = t * 64 + m
         /\ b4 = r * 64 + c * 16 + e * 8 + f * 4 + q
  BY <1>9
<1>12. EncodeBase(h) = <<KS_SOF, b2, b3, b4>>
  BY <1>10, <1>11
<1>13. EncodeBase(h) \in Seq(Byte) /\ Len(EncodeBase(h)) = 4
       /\ EncodeBase(h)[2] = b2 /\ EncodeBase(h)[3] = b3 /\ EncodeBase(h)[4] = b4
  BY <1>9, <1>12
<1>14. QED
  BY <1>1, <1>2, <1>3, <1>4, <1>5, <1>6, <1>7, <1>8, <1>11, <1>13

LEMMA FixedBytes ==
    ASSUME NEW h \in Header
    PROVE  /\ EncodeFixed(h) \in Seq(Byte) /\ Len(EncodeFixed(h)) = 4
           /\ EncodeFixed(h)[1] = Bits(h.sequence, 2, 8)
           /\ EncodeFixed(h)[2] = Bits(h.sequence, 0, 2) * 64 + Bits(h.sys_id, 0, 6)
           /\ EncodeFixed(h)[3] = Bits(h.comp_id, 0, 4) * 16 + Bits(h.msg_id, 8, 4)
           /\ EncodeFixed(h)[4] = Bits(h.msg_id, 0, 8)
<1>1. PICK b1 \in 0 .. 255 : b1 = Bits(h.sequence, 2, 8)
  BY HeaderBits
<1>2. PICK q \in 0 .. 3 : q = Bits(h.sequence, 0, 2)
  BY HeaderBits
<1>3. PICK y \in 0 .. 63 : y = Bits(h.sys_id, 0, 6)
  BY HeaderBits
<1>4. PICK c \in 0 .. 15 : c = Bits(h.comp_id, 0, 4)
  BY HeaderBits
<1>5. PICK m \in 0 .. 15 : m = Bits(h.msg_id, 8, 4)
  BY HeaderBits
<1>6. PICK b4 \in 0 .. 255 : b4 = Bits(h.msg_id, 0, 8)
  BY HeaderBits
<1>7. PICK b2 \in Byte, b3 \in Byte : b2 = q * 64 + y /\ b3 = c * 16 + m
  <2>1. q * 64 + y \in Byte /\ c * 16 + m \in Byte
    BY DEF Byte
  <2>2. QED
    BY <2>1
<1>8. EncodeFixed(h) = <<b1, b2, b3, b4>>
  BY <1>1, <1>2, <1>3, <1>4, <1>5, <1>6, <1>7 DEF EncodeFixed
<1>9. b1 \in Byte /\ b4 \in Byte
  BY DEF Byte
<1>10. EncodeFixed(h) \in Seq(Byte) /\ Len(EncodeFixed(h)) = 4
       /\ EncodeFixed(h)[1] = b1 /\ EncodeFixed(h)[2] = b2 /\ EncodeFixed(h)[3] = b3
       /\ EncodeFixed(h)[4] = b4
  BY <1>7, <1>8, <1>9
<1>11. QED
  BY <1>1, <1>2, <1>3, <1>4, <1>5, <1>6, <1>7, <1>10

LEMMA FixedPart ==
    ASSUME NEW s \in Seq(Byte), NEW t \in Seq(Byte), Len(s) = 4, Len(t) = 4
    PROVE  /\ s \o t \in Seq(Byte) /\ Len(s \o t) = 8
           /\ \A i \in 1 .. 4 : (s \o t)[i] = s[i] /\ (s \o t)[4 + i] = t[i]
<1>1. /\ s \o t \in Seq(Byte)
      /\ Len(s \o t) = Len(s) + Len(t)
      /\ \A i \in 1 .. Len(s) : (s \o t)[i] = s[i]
      /\ \A i \in 1 .. Len(t) : (s \o t)[Len(s) + i] = t[i]
  BY Joined
<1>2. QED
  BY <1>1

(* A packet's parts: base header, fixed four bytes, target, fragment       *)
(* numbers, nonce.                                                         *)
Laid(w, a, f, t, g, n) ==
    /\ w \in Seq(Byte) /\ Len(w) = 8 + Len(t) + Len(g) + Len(n)
    /\ \A i \in 1 .. 4 : w[i] = a[i] /\ w[4 + i] = f[i]
    /\ \A i \in 1 .. Len(t) : w[8 + i] = t[i]
    /\ \A i \in 1 .. Len(g) : w[8 + Len(t) + i] = g[i]
    /\ \A i \in 1 .. Len(n) : w[8 + Len(t) + Len(g) + i] = n[i]

Target(h) == IF IsCommand(h.stream_type) THEN << Bits(h.target_sys_id, 0, 6) >> ELSE <<>>
Numbers(h) == IF h.fragmented = 1 THEN << h.frag_index, h.frag_total >> ELSE <<>>
Nonce(h) == IF h.encrypted = 1 THEN h.nonce ELSE <<>>

LEMMA OptionalParts ==
    ASSUME NEW h \in Header
    PROVE  /\ Target(h) \in Seq(Byte) /\ Len(Target(h)) = TargetLen(h)
           /\ IsCommand(h.stream_type) => Target(h)[1] = Bits(h.target_sys_id, 0, 6)
           /\ Numbers(h) \in Seq(Byte) /\ Len(Numbers(h)) = FragLen(h)
           /\ h.fragmented = 1 =>
                 Numbers(h)[1] = h.frag_index /\ Numbers(h)[2] = h.frag_total
           /\ Nonce(h) \in Seq(Byte) /\ Len(Nonce(h)) = NonceLen(h)
           /\ TargetLen(h) \in 0 .. 1 /\ FragLen(h) \in {0, 2} /\ NonceLen(h) \in {0, 8}
<1>1. <<>> \in Seq(Byte) /\ Len(<<>>) = 0
  BY EmptySeq
<1>2. PICK t \in Byte : t = Bits(h.target_sys_id, 0, 6)
  <2>1. PICK b \in 0 .. 63 : b = Bits(h.target_sys_id, 0, 6)
    BY HeaderBits
  <2>2. b \in Byte
    BY DEF Byte
  <2>3. QED
    BY <2>1, <2>2
<1>3. Target(h) \in Seq(Byte) /\ Len(Target(h)) = TargetLen(h)
      /\ (IsCommand(h.stream_type) => Target(h)[1] = t)
  BY <1>1, <1>2 DEF Target, TargetLen
<1>4. PICK i \in Byte, n \in Byte : i = h.frag_index /\ n = h.frag_total
  BY HeaderFields
<1>5. Numbers(h) \in Seq(Byte) /\ Len(Numbers(h)) = FragLen(h)
      /\ (h.fragmented = 1 => Numbers(h)[1] = i /\ Numbers(h)[2] = n)
  BY <1>1, <1>4 DEF Numbers, FragLen
<1>6. Nonce(h) \in Seq(Byte) /\ Len(Nonce(h)) = NonceLen(h)
  <2>1. h.nonce \in Seq(Byte) /\ Len(h.nonce) = 8
    BY HeaderFields
  <2>2. CASE h.encrypted = 1
    BY <2>1, <2>2 DEF Nonce, NonceLen
  <2>3. CASE h.encrypted # 1
    BY <1>1, <2>3 DEF Nonce, NonceLen
  <2>4. QED
    BY <2>2, <2>3
<1>7. TargetLen(h) \in 0 .. 1 /\ FragLen(h) \in {0, 2} /\ NonceLen(h) \in {0, 8}
  BY DEF TargetLen, FragLen, NonceLen
<1>8. QED
  BY <1>2, <1>3, <1>4, <1>5, <1>6, <1>7

LEMMA LaidIsEncoded ==
    ASSUME NEW h \in Header, NEW w,
           Laid(w, EncodeBase(h), EncodeFixed(h), Target(h), Numbers(h), Nonce(h))
    PROVE  Encoded(h, w)
<1>1. Len(w) = 4 + ExtLen(h) /\ w \in Seq(Byte)
  BY OptionalParts DEF Laid, ExtLen
<1>2. /\ w[2] = EncodeBase(h)[2] /\ w[3] = EncodeBase(h)[3] /\ w[4] = EncodeBase(h)[4]
      /\ w[5] = EncodeFixed(h)[1] /\ w[6] = EncodeFixed(h)[2] /\ w[7] = EncodeFixed(h)[3]
      /\ w[8] = EncodeFixed(h)[4]
  <2>1. \A i \in 1 .. 4 : w[i] = EncodeBase(h)[i] /\ w[4 + i] = EncodeFixed(h)[i]
    BY DEF Laid
  <2>2. w[4 + 1] = EncodeFixed(h)[1] /\ w[4 + 2] = EncodeFixed(h)[2]
        /\ w[4 + 3] = EncodeFixed(h)[3] /\ w[4 + 4] = EncodeFixed(h)[4]
    BY <2>1
  <2>3. QED
    BY <2>1, <2>2
<1>3. ASSUME IsCommand(h.stream_type) PROVE w[9] = Bits(h.target_sys_id, 0, 6)
  <2>1. Len(Target(h)) = 1 /\ Target(h)[1] = Bits(h.target_sys_id, 0, 6)
    BY <1>3, OptionalParts DEF TargetLen
  <2>2. w[8 + 1] = Target(h)[1]
    BY <2>1 DEF Laid
  <2>3. QED
    BY <2>1, <2>2
<1>4. ASSUME h.fragmented = 1
      PROVE  w[9 + TargetLen(h)] = h.frag_index /\ w[10 + TargetLen(h)] = h.frag_total
  <2>1. PICK t \in 0 .. 1 : t = TargetLen(h) /\ t = Len(Target(h))
    BY OptionalParts
  <2>2. /\ Len(Numbers(h)) = 2 /\ Numbers(h)[1] = h.frag_index
        /\ Numbers(h)[2] = h.frag_total
    BY <1>4, OptionalParts DEF FragLen
  <2>3. \A i \in 1 .. 2 : w[8 + t + i] = Numbers(h)[i]
    BY <2>1, <2>2 DEF Laid
  <2>4. w[8 + t + 1] = h.frag_index /\ w[8 + t + 2] = h.frag_total
    BY <2>2, <2>3
  <2>5. 8 + t + 1 = 9 + t /\ 8 + t + 2 = 10 + t
    OBVIOUS
  <2>6. QED
    BY <2>1, <2>4, <2>5
<1>5. ASSUME h.encrypted = 1, NEW i \in 1 .. 8
      PROVE  w[8 + TargetLen(h) + FragLen(h) + i] = h.nonce[i]
  <2>1. Nonce(h) = h.nonce /\ Len(Nonce(h)) = 8
    BY <1>5, HeaderFields DEF Nonce
  <2>2. Len(Target(h)) = TargetLen(h) /\ Len(Numbers(h)) = FragLen(h)
    BY OptionalParts
  <2>3. QED
    BY <1>5, <2>1, <2>2 DEF Laid
<1>6. QED
  BY <1>1, <1>2, <1>3, <1>4, <1>5, BaseBytes, FixedBytes DEF Encoded

LEMMA LaidRight ==
    ASSUME NEW a \in Seq(Byte), NEW f \in Seq(Byte), NEW t \in Seq(Byte), NEW g \in Seq(Byte),
           NEW n \in Seq(Byte), Len(a) = 4, Len(f) = 4
    PROVE  Laid(a \o (f \o t \o g \o n), a, f, t, g, n)
<1>1. PICK lt \in Nat, lg \in Nat, ln \in Nat : lt = Len(t) /\ lg = Len(g) /\ ln = Len(n)
  BY LenProperties
<1>2. PICK x : x = f \o t
  OBVIOUS
<1>3. PICK y : y = x \o g
  OBVIOUS
<1>4. PICK z : z = y \o n
  OBVIOUS
<1>5. PICK w : w = a \o z
  OBVIOUS
<1>6. /\ x \in Seq(Byte) /\ Len(x) = 4 + lt
      /\ \A i \in 1 .. 4 : x[i] = f[i]
      /\ \A i \in 1 .. lt : x[4 + i] = t[i]
  <2>1. /\ (f \o t) \in Seq(Byte) /\ Len(f \o t) = Len(f) + Len(t)
        /\ \A i \in 1 .. Len(f) : (f \o t)[i] = f[i]
        /\ \A i \in 1 .. Len(t) : (f \o t)[Len(f) + i] = t[i]
    BY Joined
  <2>2. QED
    BY <1>2, <1>1, <2>1
<1>7. /\ y \in Seq(Byte) /\ Len(y) = 4 + lt + lg
      /\ \A i \in 1 .. 4 + lt : y[i] = x[i]
      /\ \A i \in 1 .. lg : y[4 + lt + i] = g[i]
  <2>1. /\ (x \o g) \in Seq(Byte) /\ Len(x \o g) = Len(x) + Len(g)
        /\ \A i \in 1 .. Len(x) : (x \o g)[i] = x[i]
        /\ \A i \in 1 .. Len(g) : (x \o g)[Len(x) + i] = g[i]
    BY <1>6, Joined
  <2>2. QED
    BY <1>3, <1>1, <1>6, <2>1
<1>8. /\ z \in Seq(Byte) /\ Len(z) = 4 + lt + lg + ln
      /\ \A i \in 1 .. 4 + lt + lg : z[i] = y[i]
      /\ \A i \in 1 .. ln : z[4 + lt + lg + i] = n[i]
  <2>1. /\ (y \o n) \in Seq(Byte) /\ Len(y \o n) = Len(y) + Len(n)
        /\ \A i \in 1 .. Len(y) : (y \o n)[i] = y[i]
        /\ \A i \in 1 .. Len(n) : (y \o n)[Len(y) + i] = n[i]
    BY <1>7, Joined
  <2>2. QED
    BY <1>4, <1>1, <1>7, <2>1
<1>9. /\ w \in Seq(Byte) /\ Len(w) = 4 + (4 + lt + lg + ln)
      /\ \A i \in 1 .. 4 : w[i] = a[i]
      /\ \A i \in 1 .. 4 + lt + lg + ln : w[4 + i] = z[i]
  <2>1. /\ (a \o z) \in Seq(Byte) /\ Len(a \o z) = Len(a) + Len(z)
        /\ \A i \in 1 .. Len(a) : (a \o z)[i] = a[i]
        /\ \A i \in 1 .. Len(z) : (a \o z)[Len(a) + i] = z[i]
    BY <1>8, Joined
  <2>2. QED
    BY <1>5, <1>1, <1>8, <2>1
<1>10. ASSUME NEW i \in 1 .. 4 PROVE w[4 + i] = f[i]
  <2>1. i \in 1 .. 4 + lt /\ i \in 1 .. 4 + lt + lg /\ i \in 1 .. 4 + lt + lg + ln
    OBVIOUS
  <2>2. w[4 + i] = z[i]
    BY <1>9, <2>1
  <2>3. z[i] = y[i]
    BY <1>8, <2>1
  <2>4. y[i] = x[i]
    BY <1>7, <2>1
  <2>5. x[i] = f[i]
    BY <1>6
  <2>6. QED
    BY <2>2, <2>3, <2>4, <2>5
<1>11. ASSUME NEW i \in 1 .. lt PROVE w[8 + i] = t[i]
  <2>1. PICK k \in Nat : k = 4 + i
    OBVIOUS
  <2>2. /\ k \in 1 .. 4 + lt /\ k \in 1 .. 4 + lt + lg /\ k \in 1 .. 4 + lt + lg + ln
        /\ 8 + i = 4 + k
    BY <2>1
  <2>3. w[4 + k] = x[k]
    BY <1>7, <1>8, <1>9, <2>2
  <2>4. QED
    BY <1>6, <2>1, <2>2, <2>3
<1>12. ASSUME NEW i \in 1 .. lg PROVE w[8 + lt + i] = g[i]
  <2>1. PICK k \in Nat : k = 4 + lt + i
    OBVIOUS
  <2>2. /\ k \in 1 .. 4 + lt + lg /\ k \in 1 .. 4 + lt + lg + ln
        /\ 8 + lt + i = 4 + k
    BY <2>1
  <2>3. w[4 + k] = y[k]
    BY <1>8, <1>9, <2>2
  <2>4. QED
    BY <1>7, <2>1, <2>2, <2>3
<1>13. ASSUME NEW i \in 1 .. ln PROVE w[8 + lt + lg + i] = n[i]
  <2>1. PICK k \in Nat : k = 4 + lt + lg + i
    OBVIOUS
  <2>2. k \in 1 .. 4 + lt + lg + ln /\ 8 + lt + lg + i = 4 + k
    BY <2>1
  <2>3. w[4 + k] = z[k]
    BY <1>9, <2>2
  <2>4. QED
    BY <1>8, <2>1, <2>2, <2>3
<1>14. Len(w) = 8 + lt + lg + ln
  BY <1>9
<1>15. Laid(w, a, f, t, g, n)
  BY <1>1, <1>9, <1>10, <1>11, <1>12, <1>13, <1>14 DEF Laid
<1>16. QED
  BY <1>2, <1>3, <1>4, <1>5, <1>15

(* The tools build their packets from the left, and know no fragments and  *)
(* no nonce.                                                               *)
LEMMA LaidLeft ==
    ASSUME NEW a \in Seq(Byte), NEW f \in Seq(Byte), NEW t \in Seq(Byte),
           Len(a) = 4, Len(f) = 4
    PROVE  Laid(a \o f \o t, a, f, t, <<>>, <<>>)
<1>1. PICK lt \in Nat : lt = Len(t)
  BY LenProperties
<1>2. PICK x : x = a \o f
  OBVIOUS
<1>3. PICK w : w = x \o t
  OBVIOUS
<1>4. /\ x \in Seq(Byte) /\ Len(x) = 8
      /\ \A i \in 1 .. 4 : x[i] = a[i] /\ x[4 + i] = f[i]
  BY <1>2, FixedPart
<1>5. /\ w \in Seq(Byte) /\ Len(w) = 8 + lt
      /\ \A i \in 1 .. 8 : w[i] = x[i]
      /\ \A i \in 1 .. lt : w[8 + i] = t[i]
  <2>1. /\ (x \o t) \in Seq(Byte) /\ Len(x \o t) = Len(x) + Len(t)
        /\ \A i \in 1 .. Len(x) : (x \o t)[i] = x[i]
        /\ \A i \in 1 .. Len(t) : (x \o t)[Len(x) + i] = t[i]
    BY <1>4, Joined
  <2>2. QED
    BY <1>3, <1>1, <1>4, <2>1
<1>6. ASSUME NEW i \in 1 .. 4 PROVE w[i] = a[i] /\ w[4 + i] = f[i]
  <2>1. i \in 1 .. 8 /\ 4 + i \in 1 .. 8
    OBVIOUS
  <2>2. QED
    BY <1>4, <1>5, <2>1
<1>7. Len(<<>>) = 0 /\ 1 .. 0 = {}
  OBVIOUS
<1>8. Laid(w, a, f, t, <<>>, <<>>)
  BY <1>1, <1>5, <1>6, <1>7 DEF Laid
<1>9. QED
  BY <1>2, <1>3, <1>8

LEMMA SentEncoded ==
    ASSUME NEW p \in Packets, Fitting(p),
           NEW w, w = CASE p.sender = "gcs" -> GcsEncode(p.header)
                        [] p.sender = "gcs_sender" -> SenderEncode(p.header)
                        [] p.sender = "kestrel" -> EncodeBase(p.header) \o EncodeExt(p.header)
    PROVE  Encoded(p.header, w)
<1>1. PICK h \in Header : h = p.header
  BY WireAssumption
<1>2. p.sender \in {"kestrel", "gcs", "gcs_sender"}
  BY WireAssumption
<1>3. PICK a \in Seq(Byte), f \in Seq(Byte) :
        a = EncodeBase(h) /\ f = EncodeFixed(h) /\ Len(a) = 4 /\ Len(f) = 4
  BY BaseBytes, FixedBytes
<1>4. CASE p.sender = "kestrel"
  <2>1. w = a \o (f \o Target(h) \o Numbers(h) \o Nonce(h))
    BY <1>1, <1>3, <1>4 DEF EncodeExt, Target, Numbers, Nonce
  <2>2. Target(h) \in Seq(Byte) /\ Numbers(h) \in Seq(Byte) /\ Nonce(h) \in Seq(Byte)
    BY OptionalParts
  <2>3. /\ a \in Seq(Byte) /\ f \in Seq(Byte) /\ Len(a) = 4 /\ Len(f) = 4
    BY <1>3
  <2>4. Laid(a \o (f \o Target(h) \o Numbers(h) \o Nonce(h)), a, f, Target(h), Numbers(h),
             Nonce(h))
    BY <2>2, <2>3, LaidRight
  <2>5. Laid(w, a, f, Target(h), Numbers(h), Nonce(h))
    BY <2>1, <2>4
  <2>6. QED
    BY <1>1, <1>3, <2>5, LaidIsEncoded
<1>5. CASE p.sender # "kestrel"
  <2>1. h.encrypted = 0 /\ h.compressed = 0 /\ h.fragmented = 0
    BY <1>1, <1>5 DEF Fitting
  <2>2. Numbers(h) = <<>> /\ Nonce(h) = <<>>
    BY <2>1 DEF Numbers, Nonce
  <2>3. Target(h) \in Seq(Byte)
    BY OptionalParts
  <2>4. Laid(a \o f \o Target(h), a, f, Target(h), Numbers(h), Nonce(h))
    BY <1>3, <2>2, <2>3, LaidLeft
  <2>5. Encoded(h, a \o f \o Target(h))
    BY <1>3, <2>4, LaidIsEncoded
  <2>6. PICK r \in 0 .. 3, q \in 0 .. 3 :
          r = Bits(h.payload_len, 0, 2) /\ q = Bits(h.sequence, 10, 2)
    BY HeaderBits
  <2>7. a = << KS_SOF,
               Bits(h.payload_len, 8, 4) * 16 + Bits(h.priority, 0, 2) * 4
                   + Bits(h.stream_type, 2, 2),
               Bits(h.stream_type, 0, 2) * 64 + Bits(h.payload_len, 2, 6),
               r * 64 + q >>
    <3>1. r * 64 + h.compressed * 16 + h.encrypted * 8 + h.fragmented * 4 + q = r * 64 + q
      BY <2>1
    <3>2. QED
      BY <1>3, <2>6, <3>1 DEF EncodeBase
  <2>8. CASE p.sender = "gcs"
    <3>1. w = GcsEncode(h)
      BY <1>1, <2>8
    <3>2. r * 64 + h.encrypted * 32 + q = r * 64 + q
      BY <2>1
    <3>3. Target(h) = IF IsCommand(h.stream_type) THEN <<1>> ELSE <<>>
      <4>1. Bits(1, 0, 6) = 1
        BY Powers DEF Bits
      <4>2. IsCommand(h.stream_type) => h.target_sys_id = 1
        BY <1>1, <2>8 DEF Fitting
      <4>3. QED
        BY <4>1, <4>2 DEF Target
    <3>4. w = a \o f \o Target(h) \o <<>>
      <4>1. a = << KS_SOF,
                   Bits(h.payload_len, 8, 4) * 16 + Bits(h.priority, 0, 2) * 4
                       + Bits(h.stream_type, 2, 2),
                   Bits(h.stream_type, 0, 2) * 64 + Bits(h.payload_len, 2, 6),
                   Bits(h.payload_len, 0, 2) * 64 + h.encrypted * 32
                       + Bits(h.sequence, 10, 2) >>
        BY <2>6, <2>7, <3>2
      <4>2. <<>> = IF h.encrypted = 1 THEN h.nonce ELSE <<>>
        BY <2>1
      <4>3. GcsEncode(h) = a \o EncodeFixed(h) \o Target(h) \o <<>>
        BY <3>3, <4>1, <4>2 DEF GcsEncode
      <4>4. QED
        BY <1>3, <3>1, <4>3
    <3>5. a \o f \in Seq(Byte) /\ a \o f \o Target(h) \in Seq(Byte)
      BY <2>3, Joined
    <3>6. w = a \o f \o Target(h)
      BY <3>4, <3>5, ConcatEmptySeq
    <3>7. QED
      BY <1>1, <2>5, <3>6
  <2>9. CASE p.sender = "gcs_sender"
    <3>1. w = SenderEncode(h) /\ Target(h) = <<>>
      BY <1>1, <2>9 DEF Fitting, Target
    <3>2. w = a \o f
      BY <1>3, <2>6, <2>7, <3>1 DEF SenderEncode
    <3>3. a \o f \in Seq(Byte)
      BY Joined
    <3>4. w = a \o f \o Target(h)
      BY <3>1, <3>2, <3>3, ConcatEmptySeq
    <3>5. QED
      BY <1>1, <2>5, <3>4
  <2>10. QED
    BY <1>2, <1>5, <2>8, <2>9
<1>6. QED
  BY <1>4, <1>5

(* The decoders' bits of a packet are the fields it was made of.           *)
LEMMA ReadBack ==
    ASSUME NEW h \in Header, h.stream_type < 16, NEW w, Encoded(h, w)
    PROVE  /\ Bits(w[2], 4, 4) * 256 + Bits(w[3], 0, 6) * 4 + Bits(w[4], 6, 2)
                = h.payload_len % 4096
           /\ Bits(w[2], 2, 2) = h.priority % 4
           /\ Bits(w[2], 0, 2) * 4 + Bits(w[3], 6, 2) = h.stream_type
           /\ Bits(w[4], 4, 1) = h.compressed /\ Bits(w[4], 3, 1) = h.encrypted
           /\ Bits(w[4], 2, 1) = h.fragmented
           /\ Bits(w[4], 0, 2) \in 0 .. 3
           /\ Bits(w[4], 0, 2) * 1024 + w[5] * 4 + Bits(w[6], 6, 2) = h.sequence % 4096
           /\ Bits(w[6], 0, 6) = h.sys_id % 64 /\ Bits(w[7], 4, 4) = h.comp_id % 16
           /\ Bits(w[7], 0, 4) * 256 + w[8] = h.msg_id % 4096
<1>1. PICK a \in 0 .. 15 : a = Bits(h.payload_len, 8, 4)
  BY HeaderBits
<1>2. PICK m \in 0 .. 63 : m = Bits(h.payload_len, 2, 6)
  BY HeaderBits
<1>3. PICK r \in 0 .. 3 : r = Bits(h.payload_len, 0, 2)
  BY HeaderBits
<1>4. PICK p \in 0 .. 3 : p = Bits(h.priority, 0, 2)
  BY HeaderBits
<1>5. PICK s \in 0 .. 3 : s = Bits(h.stream_type, 2, 2)
  BY HeaderBits
<1>6. PICK t \in 0 .. 3 : t = Bits(h.stream_type, 0, 2)
  BY HeaderBits
<1>7. PICK c \in 0 .. 1, e \in 0 .. 1, g \in 0 .. 1 :
        c = h.compressed /\ e = h.encrypted /\ g = h.fragmented
  BY HeaderFields
<1>8. PICK q \in 0 .. 3 : q = Bits(h.sequence, 10, 2)
  BY HeaderBits
<1>9. PICK b5 \in 0 .. 255 : b5 = Bits(h.sequence, 2, 8)
  BY HeaderBits
<1>10. PICK l \in 0 .. 3 : l = Bits(h.sequence, 0, 2)
  BY HeaderBits
<1>11. PICK y \in 0 .. 63 : y = Bits(h.sys_id, 0, 6)
  BY HeaderBits
<1>12. PICK d \in 0 .. 15 : d = Bits(h.comp_id, 0, 4)
  BY HeaderBits
<1>13. PICK k \in 0 .. 15 : k = Bits(h.msg_id, 8, 4)
  BY HeaderBits
<1>14. PICK b8 \in 0 .. 255 : b8 = Bits(h.msg_id, 0, 8)
  BY HeaderBits
<1>15. /\ w[2] = a * 16 + p * 4 + s /\ w[3] = t * 64 + m
      /\ w[4] = r * 64 + c * 16 + e * 8 + g * 4 + q
      /\ w[5] = b5 /\ w[6] = l * 64 + y /\ w[7] = d * 16 + k /\ w[8] = b8
  BY <1>1, <1>2, <1>3, <1>4, <1>5, <1>6, <1>7, <1>8, <1>9, <1>10, <1>11, <1>12, <1>13,
     <1>14 DEF Encoded
<1>16. Bits(w[2], 4, 4) = a /\ Bits(w[2], 2, 2) = p /\ Bits(w[2], 0, 2) = s
  <2>1. PICK b \in Int : b = w[2] /\ b = a * 16 + p * 4 + s
    BY <1>15
  <2>2. QED
    BY <2>1, SecondByte
<1>17. Bits(w[3], 6, 2) = t /\ Bits(w[3], 0, 6) = m
  <2>1. PICK b \in Int : b = w[3] /\ b = t * 64 + m
    BY <1>15
  <2>2. QED
    BY <2>1, ThirdByte
<1>18. /\ Bits(w[4], 6, 2) = r /\ Bits(w[4], 4, 1) = c /\ Bits(w[4], 3, 1) = e
      /\ Bits(w[4], 2, 1) = g /\ Bits(w[4], 0, 2) = q
  <2>1. PICK b \in Int : b = w[4] /\ b = r * 64 + c * 16 + e * 8 + g * 4 + q
    BY <1>15
  <2>2. QED
    BY <2>1, FourthByte
<1>19. Bits(w[6], 6, 2) = l /\ Bits(w[6], 0, 6) = y
  <2>1. PICK b \in Int : b = w[6] /\ b = l * 64 + y
    BY <1>15
  <2>2. QED
    BY <2>1, ThirdByte
<1>20. Bits(w[7], 4, 4) = d /\ Bits(w[7], 0, 4) = k
  <2>1. PICK b \in Int : b = w[7] /\ b = d * 16 + k
    BY <1>15
  <2>2. QED
    BY <2>1, SeventhByte
<1>21. a * 256 + m * 4 + r = h.payload_len % 4096
  <2>1. PICK v \in Nat : v = h.payload_len
    BY HeaderFields
  <2>2. a = (v \div 256) % 16 /\ m = (v \div 4) % 64 /\ r = v % 4
    BY <1>1, <1>2, <1>3, <2>1, Powers DEF Bits
  <2>3. PICK cut \in Int : cut = v % 4096
    OBVIOUS
  <2>4. a * 256 + m * 4 + r = cut
    BY <2>2, <2>3, LengthCut
  <2>5. QED
    BY <2>1, <2>3, <2>4
<1>22. s * 4 + t = h.stream_type
  <2>1. PICK v \in Nat : v = h.stream_type /\ v < 16
    BY HeaderFields
  <2>2. s = (v \div 4) % 4 /\ t = v % 4
    BY <1>5, <1>6, <2>1, Powers DEF Bits
  <2>3. v = v % 16 /\ v \in Int
    BY <2>1
  <2>4. s * 4 + t = v
    BY <2>2, <2>3, StreamCut
  <2>5. QED
    BY <2>1, <2>4
<1>23. q * 1024 + b5 * 4 + l = h.sequence % 4096
  <2>1. PICK v \in Nat : v = h.sequence
    BY HeaderFields
  <2>2. q = (v \div 1024) % 4 /\ b5 = (v \div 4) % 256 /\ l = v % 4
    BY <1>8, <1>9, <1>10, <2>1, Powers DEF Bits
  <2>3. PICK cut \in Int : cut = v % 4096
    OBVIOUS
  <2>4. q * 1024 + b5 * 4 + l = cut
    BY <2>2, <2>3, SequenceCut
  <2>5. QED
    BY <2>1, <2>3, <2>4
<1>24. k * 256 + b8 = h.msg_id % 4096
  <2>1. PICK v \in Nat : v = h.msg_id
    BY HeaderFields
  <2>2. k = (v \div 256) % 16 /\ b8 = v % 256
    BY <1>13, <1>14, <2>1, Powers DEF Bits
  <2>3. PICK cut \in Int : cut = v % 4096
    OBVIOUS
  <2>4. k * 256 + b8 = cut
    BY <2>2, <2>3, MessageCut
  <2>5. QED
    BY <2>1, <2>3, <2>4
<1>25. p = h.priority % 4 /\ y = h.sys_id % 64 /\ d = h.comp_id % 16
  <2>1. PICK v \in Nat, x \in Nat, z \in Nat :
          v = h.priority /\ x = h.sys_id /\ z = h.comp_id
    BY HeaderFields
  <2>2. p = v % 4 /\ y = x % 64 /\ d = z % 16
    BY <1>4, <1>11, <1>12, <2>1, Powers DEF Bits
  <2>3. QED
    BY <2>1, <2>2
<1>26. /\ Bits(w[2], 4, 4) * 256 + Bits(w[3], 0, 6) * 4 + Bits(w[4], 6, 2)
             = h.payload_len % 4096
       /\ Bits(w[2], 0, 2) * 4 + Bits(w[3], 6, 2) = h.stream_type
  BY <1>16, <1>17, <1>18, <1>21, <1>22
<1>27. Bits(w[4], 0, 2) * 1024 + w[5] * 4 + Bits(w[6], 6, 2) = h.sequence % 4096
  BY <1>9, <1>15, <1>18, <1>19, <1>23
<1>28. Bits(w[7], 0, 4) * 256 + w[8] = h.msg_id % 4096
  BY <1>15, <1>20, <1>24
<1>29. /\ Bits(w[2], 2, 2) = h.priority % 4
       /\ Bits(w[6], 0, 6) = h.sys_id % 64 /\ Bits(w[7], 4, 4) = h.comp_id % 16
  BY <1>16, <1>19, <1>20, <1>25
<1>30. /\ Bits(w[4], 4, 1) = h.compressed /\ Bits(w[4], 3, 1) = h.encrypted
       /\ Bits(w[4], 2, 1) = h.fragmented /\ Bits(w[4], 0, 2) \in 0 .. 3
  BY <1>7, <1>18
<1>31. QED
  BY <1>26, <1>27, <1>28, <1>29, <1>30

(* What the receiver has read of the packet, in terms of its bytes and of  *)
(* what was sent.                                                          *)
BaseRead(h, w) ==
    /\ h.payload_len = Bits(w[2], 4, 4) * 256 + Bits(w[3], 0, 6) * 4 + Bits(w[4], 6, 2)
    /\ h.priority = Bits(w[2], 2, 2)
    /\ h.stream_type = Bits(w[2], 0, 2) * 4 + Bits(w[3], 6, 2)
    /\ h.compressed = Bits(w[4], 4, 1) /\ h.encrypted = Bits(w[4], 3, 1)
    /\ h.fragmented = Bits(w[4], 2, 1)

ExtRead(h, w) ==
    /\ h.sequence = Bits(w[4], 0, 2) * 1024 + w[5] * 4 + Bits(w[6], 6, 2)
    /\ h.sys_id = Bits(w[6], 0, 6) /\ h.comp_id = Bits(w[7], 4, 4)
    /\ h.msg_id = Bits(w[7], 0, 4) * 256 + w[8]

Optional(h, g) ==
    /\ h.target_sys_id = IF IsCommand(g.stream_type) THEN g.target_sys_id % 64 ELSE 0
    /\ g.fragmented = 1 => h.frag_index = g.frag_index /\ h.frag_total = g.frag_total
    /\ g.encrypted = 1 => h.nonce = g.nonce

WireInv ==
    /\ sent \in Header /\ header \in Header /\ wire \in Seq(Byte)
    /\ stage \in {"idle", "coming", "base", "done"}
    /\ stage # "idle" => sent.stream_type < 16 /\ Encoded(sent, wire)
    /\ stage \in {"base", "done"} => BaseRead(header, wire)
    /\ stage = "base" => header.sequence = Bits(wire[4], 0, 2) * 1024
    /\ stage = "done" => ExtRead(header, wire) /\ Optional(header, sent)

LEMMA BlankHeader == Blank \in Header
<1>1. PICK none : none = [i \in 1 .. 8 |-> 0]
  OBVIOUS
<1>2. 0 \in Word /\ 0 \in Byte /\ 0 \in 0 .. 1
  BY WordTop DEF Word, Byte
<1>3. none \in [1 .. 8 -> Byte]
  BY <1>1, <1>2
<1>4. QED
  BY <1>1, <1>2, <1>3 DEF Blank, Header

LEMMA WireStart == WireInit => WireInv
BY BlankHeader, EmptySeq DEF WireInit, WireInv

LEMMA SendPacket ==
    ASSUME WireInv, NEW p \in Packets, Fitting(p), Send(p) PROVE WireInv'
<1>1. /\ sent' = p.header /\ header' = header /\ stage' = "coming"
      /\ wire' = CASE p.sender = "gcs" -> GcsEncode(p.header)
                   [] p.sender = "gcs_sender" -> SenderEncode(p.header)
                   [] p.sender = "kestrel" -> EncodeBase(p.header) \o EncodeExt(p.header)
  BY DEF Send
<1>2. Encoded(sent', wire')
  BY <1>1, SentEncoded
<1>3. sent' \in Header /\ sent'.stream_type < 16
  BY <1>1, WireAssumption DEF Fitting
<1>4. wire' \in Seq(Byte)
  BY <1>2 DEF Encoded
<1>5. QED
  BY <1>1, <1>2, <1>3, <1>4 DEF WireInv

LEMMA ReceiveBaseStep == ASSUME WireInv, ReceiveBase PROVE WireInv'
<1>1. PICK g \in Header, w \in Seq(Byte), h \in Header : g = sent /\ w = wire /\ h = header
  BY DEF WireInv
<1>2. g.stream_type < 16 /\ Encoded(g, w)
  BY <1>1 DEF WireInv, ReceiveBase
<1>3. PICK b : b = SubSeq(w, 1, 4)
  OBVIOUS
<1>4. b[2] = w[2] /\ b[3] = w[3] /\ b[4] = w[4]
  <2>1. Len(w) >= 8
    <3>1. PICK x \in Int, y \in Int, z \in Int :
            x = TargetLen(g) /\ y = FragLen(g) /\ z = NonceLen(g) /\ x >= 0 /\ y >= 0 /\ z >= 0
      BY OptionalParts
    <3>2. Len(w) = 4 + (4 + x + y + z)
      BY <1>2, <3>1 DEF Encoded, ExtLen
    <3>3. QED
      BY <3>1, <3>2
  <2>2. \A i \in 1 .. 4 : w[i] \in Byte
    BY <2>1, ElementOfSeq
  <2>3. \A i \in 1 .. 4 - 1 + 1 : SubSeq(w, 1, 4)[i] = w[1 + i - 1]
    BY <2>2, SubSeqProperties
  <2>4. SubSeq(w, 1, 4)[2] = w[1 + 2 - 1] /\ SubSeq(w, 1, 4)[3] = w[1 + 3 - 1]
        /\ SubSeq(w, 1, 4)[4] = w[1 + 4 - 1]
    BY <2>3
  <2>5. QED
    BY <1>3, <2>4
<1>5. PICK len \in Word :
        len = Bits(b[2], 4, 4) * 256 + Bits(b[3], 0, 6) * 4 + Bits(b[4], 6, 2)
  <2>1. PICK v \in Nat : v = g.payload_len
    BY HeaderFields
  <2>2. PICK cut \in 0 .. 4095 : cut = v % 4096
    OBVIOUS
  <2>3. cut \in Word
    BY <2>2, WordTop DEF Word
  <2>4. g.payload_len % 4096 \in Word
    BY <2>1, <2>2, <2>3
  <2>5. QED
    BY <1>2, <1>4, <2>4, ReadBack
<1>6. PICK p \in Byte, s \in Byte :
        p = Bits(b[2], 2, 2) /\ s = Bits(b[2], 0, 2) * 4 + Bits(b[3], 6, 2)
  <2>1. g.priority % 4 \in Byte
    <3>1. PICK v \in Nat : v = g.priority
      BY HeaderFields
    <3>2. PICK cut \in 0 .. 63 : cut = v % 4
      OBVIOUS
    <3>3. cut \in Byte
      BY <3>2 DEF Byte
    <3>4. QED
      BY <3>1, <3>2, <3>3
  <2>2. g.stream_type \in Byte
    BY DEF Header
  <2>3. QED
    BY <1>2, <1>4, <2>1, <2>2, ReadBack
<1>7. PICK c \in 0 .. 1, e \in 0 .. 1, f \in 0 .. 1 :
        c = Bits(b[4], 4, 1) /\ e = Bits(b[4], 3, 1) /\ f = Bits(b[4], 2, 1)
  <2>1. /\ Bits(w[4], 4, 1) = g.compressed /\ Bits(w[4], 3, 1) = g.encrypted
        /\ Bits(w[4], 2, 1) = g.fragmented
    BY <1>2, ReadBack
  <2>2. /\ g.compressed \in 0 .. 1 /\ g.encrypted \in 0 .. 1 /\ g.fragmented \in 0 .. 1
    BY HeaderFields
  <2>3. QED
    BY <1>4, <2>1, <2>2
<1>8. PICK q \in Word : q = Bits(b[4], 0, 2) * 1024
  <2>1. PICK x \in 0 .. 3 : x = Bits(b[4], 0, 2)
    <3>1. Bits(w[4], 0, 2) \in 0 .. 3
      BY <1>2, ReadBack
    <3>2. QED
      BY <1>4, <3>1
  <2>2. PICK y \in 0 .. 4095 : y = x * 1024
    OBVIOUS
  <2>3. y \in Word
    BY <2>2, WordTop DEF Word
  <2>4. QED
    BY <2>1, <2>2, <2>3
<1>9. PICK r : r = DecodeBase(h, b)
  OBVIOUS
<1>10. r = [h EXCEPT !.payload_len = len, !.priority = p, !.stream_type = s,
               !.compressed = c, !.encrypted = e, !.fragmented = f, !.sequence = q]
  BY <1>5, <1>6, <1>7, <1>8, <1>9 DEF DecodeBase
<1>11. /\ r \in Header /\ r.payload_len = len /\ r.priority = p /\ r.stream_type = s
       /\ r.compressed = c /\ r.encrypted = e /\ r.fragmented = f /\ r.sequence = q
  BY <1>10 DEF Header
<1>12. header' = r /\ stage' = "base" /\ UNCHANGED <<sent, wire>>
  BY <1>1, <1>3, <1>9 DEF ReceiveBase
<1>13. BaseRead(r, w) /\ r.sequence = Bits(w[4], 0, 2) * 1024
  BY <1>4, <1>5, <1>6, <1>7, <1>8, <1>11 DEF BaseRead
<1>14. QED
  BY <1>1, <1>2, <1>11, <1>12, <1>13 DEF WireInv

LEMMA Zeros == [i \in 1 .. 11 |-> 0] \in Seq(Byte)
<1>1. 0 \in Byte
  BY DEF Byte
<1>2. [i \in 1 .. 11 |-> 0] \in [1 .. 11 -> Byte]
  BY <1>1
<1>3. QED
  BY <1>2, SeqDef

(* What the receiver takes for the extended header is the packet's, and    *)
(* what stands behind it.                                                  *)
LEMMA ExtBytes ==
    ASSUME NEW w \in Seq(Byte), NEW n \in Nat, Len(w) = 4 + n,
           NEW z \in Seq(Byte), NEW s, s = SubSeq(w, 5, Len(w))
    PROVE  /\ s \o z \in Seq(Byte) /\ Len(s \o z) \in Nat /\ Len(s \o z) >= n
           /\ \A i \in 1 .. n : (s \o z)[i] = w[4 + i]
<1>1. s \in Seq(Byte) /\ Len(s) = n /\ \A i \in 1 .. n : s[i] = w[4 + i]
  <2>1. PICK c \in Nat : c = 5
    OBVIOUS
  <2>2. PICK e \in Nat : e = 4 + n /\ e = Len(w)
    OBVIOUS
  <2>3. \A i \in c .. e : w[i] \in Byte
    <3>1. ASSUME NEW i \in c .. e PROVE w[i] \in Byte
      <4>1. i \in 1 .. Len(w)
        BY <2>1, <2>2, <3>1
      <4>2. QED
        BY <4>1, ElementOfSeq
    <3>2. QED
      BY <3>1
  <2>4. s = SubSeq(w, c, e)
    BY <2>1, <2>2
  <2>5. /\ SubSeq(w, c, e) \in Seq(Byte)
        /\ Len(SubSeq(w, c, e)) = IF c =< e THEN e - c + 1 ELSE 0
        /\ \A i \in 1 .. e - c + 1 : SubSeq(w, c, e)[i] = w[c + i - 1]
    BY <2>3, SubSeqProperties
  <2>6. Len(s) = n
    BY <2>1, <2>2, <2>4, <2>5
  <2>7. ASSUME NEW i \in 1 .. n PROVE s[i] = w[4 + i]
    <3>1. i \in 1 .. e - c + 1 /\ c + i - 1 = 4 + i
      BY <2>1, <2>2, <2>7
    <3>2. QED
      BY <2>4, <2>5, <3>1
  <2>8. QED
    BY <2>4, <2>5, <2>6, <2>7
<1>2. PICK b : b = s \o z
  OBVIOUS
<1>3. /\ s \o z \in Seq(Byte) /\ Len(s) \in Nat /\ Len(z) \in Nat
      /\ Len(s \o z) = Len(s) + Len(z)
      /\ \A i \in 1 .. Len(s) : (s \o z)[i] = s[i]
  BY <1>1, Joined
<1>4. \A i \in 1 .. n : b[i] = w[4 + i]
  BY <1>1, <1>2, <1>3
<1>5. b \in Seq(Byte) /\ Len(b) \in Nat /\ Len(b) >= n
  <2>1. PICK k \in Nat : k = Len(z)
    BY <1>3
  <2>2. Len(b) = n + k
    BY <1>1, <1>2, <1>3, <2>1
  <2>3. n + k \in Nat /\ n + k >= n
    OBVIOUS
  <2>4. QED
    BY <1>2, <1>3, <2>2, <2>3
<1>6. QED
  BY <1>2, <1>4, <1>5

(* The nonce, byte for byte.                                               *)
LEMMA NonceRead ==
    ASSUME NEW s \in Seq(Byte), Len(s) = 8, NEW o \in [1 .. 8 -> Byte],
           \A i \in 1 .. 8 : s[i] = o[i]
    PROVE  s = o
<1>1. DOMAIN s = 1 .. 8 /\ s \in [1 .. 8 -> Byte]
  BY LenProperties
<1>2. QED
  BY <1>1

LEMMA SequenceStart ==
    ASSUME NEW k \in 0 .. 3, NEW v \in Int, v = k * 1024 PROVE Bits(v, 10, 6) = k
BY Powers DEF Bits

LEMMA TargetStart ==
    ASSUME NEW v \in Nat, NEW x \in 0 .. 63, x = Bits(v, 0, 6)
    PROVE  x \in Byte /\ Bits(x, 0, 6) = v % 64
BY Powers DEF Bits, Byte

LEMMA ReceiveExtStep == ASSUME WireInv, ReceiveExt PROVE WireInv'
<1>1. PICK g \in Header, w \in Seq(Byte), h \in Header : g = sent /\ w = wire /\ h = header
  BY DEF WireInv
<1>2. /\ g.stream_type < 16 /\ Encoded(g, w) /\ BaseRead(h, w)
      /\ h.sequence = Bits(w[4], 0, 2) * 1024
  BY <1>1 DEF WireInv, ReceiveExt
<1>3. PICK b : b = SubSeq(w, 5, Len(w)) \o [i \in 1 .. 11 |-> 0]
  OBVIOUS
<1>4. PICK T \in 0 .. 1, F \in {0, 2}, N \in {0, 8} :
        T = TargetLen(g) /\ F = FragLen(g) /\ N = NonceLen(g)
  BY OptionalParts
<1>5. /\ b \in Seq(Byte) /\ Len(b) \in Nat /\ Len(b) >= 4 + T + F + N
      /\ \A i \in 1 .. 4 + T + F + N : b[i] = w[4 + i]
  <2>1. PICK n \in Nat : n = 4 + T + F + N
    OBVIOUS
  <2>2. Len(w) = 4 + n
    BY <1>2, <1>4, <2>1 DEF Encoded, ExtLen
  <2>3. PICK z \in Seq(Byte) : z = [i \in 1 .. 11 |-> 0]
    BY Zeros
  <2>4. PICK s : s = SubSeq(w, 5, Len(w))
    OBVIOUS
  <2>5. b = s \o z
    BY <1>3, <2>3, <2>4
  <2>6. /\ s \o z \in Seq(Byte) /\ Len(s \o z) \in Nat /\ Len(s \o z) >= n
        /\ \A i \in 1 .. n : (s \o z)[i] = w[4 + i]
    BY <2>2, <2>4, ExtBytes
  <2>7. QED
    BY <2>1, <2>5, <2>6
<1>6. b[1] = w[5] /\ b[2] = w[6] /\ b[3] = w[7] /\ b[4] = w[8]
  <2>1. 1 \in 1 .. 4 + T + F + N /\ 2 \in 1 .. 4 + T + F + N
        /\ 3 \in 1 .. 4 + T + F + N /\ 4 \in 1 .. 4 + T + F + N
    OBVIOUS
  <2>2. b[1] = w[4 + 1] /\ b[2] = w[4 + 2] /\ b[3] = w[4 + 3] /\ b[4] = w[4 + 4]
    BY <1>5, <2>1
  <2>3. QED
    BY <2>2
<1>7. /\ h.stream_type = g.stream_type /\ h.encrypted = g.encrypted
      /\ h.fragmented = g.fragmented
  BY <1>2, ReadBack DEF BaseRead
<1>8. TargetLen(h) = T /\ FragLen(h) = F /\ NonceLen(h) = N
  BY <1>4, <1>7 DEF TargetLen, FragLen, NonceLen
<1>9. PICK q \in Word : /\ q = Bits(h.sequence, 10, 6) * 1024 + b[1] * 4 + Bits(b[2], 6, 2)
                        /\ q = Bits(w[4], 0, 2) * 1024 + w[5] * 4 + Bits(w[6], 6, 2)
  <2>1. PICK k \in 0 .. 3 : k = Bits(w[4], 0, 2)
    BY <1>2, ReadBack
  <2>2. PICK v \in Int : v = k * 1024 /\ v = h.sequence
    BY <1>2, <2>1
  <2>3. Bits(h.sequence, 10, 6) = k
    BY <2>2, SequenceStart
  <2>4. PICK x \in Nat : x = g.sequence
    BY HeaderFields
  <2>5. PICK cut \in 0 .. 4095 : cut = x % 4096
    OBVIOUS
  <2>6. cut \in Word
    BY <2>5, WordTop DEF Word
  <2>7. g.sequence % 4096 \in Word
    BY <2>4, <2>5, <2>6
  <2>8. Bits(w[4], 0, 2) * 1024 + w[5] * 4 + Bits(w[6], 6, 2) = g.sequence % 4096
    BY <1>2, ReadBack
  <2>9. Bits(h.sequence, 10, 6) = Bits(w[4], 0, 2)
    BY <2>1, <2>3
  <2>10. Bits(h.sequence, 10, 6) * 1024 + b[1] * 4 + Bits(b[2], 6, 2)
           = Bits(w[4], 0, 2) * 1024 + w[5] * 4 + Bits(w[6], 6, 2)
    BY <1>6, <2>9
  <2>11. QED
    BY <2>7, <2>8, <2>10
<1>10. PICK y \in Byte, d \in Byte :
         y = Bits(b[2], 0, 6) /\ d = Bits(b[3], 4, 4)
  <2>1. PICK v \in Nat, x \in Nat : v = g.sys_id /\ x = g.comp_id
    BY HeaderFields
  <2>2. PICK i \in 0 .. 63, j \in 0 .. 15 : i = v % 64 /\ j = x % 16
    OBVIOUS
  <2>3. i \in Byte /\ j \in Byte
    BY <2>2 DEF Byte
  <2>4. i = Bits(w[6], 0, 6) /\ j = Bits(w[7], 4, 4)
    BY <1>2, <2>1, <2>2, ReadBack
  <2>5. QED
    BY <1>6, <2>3, <2>4
<1>11. PICK m \in Word : m = Bits(b[3], 0, 4) * 256 + b[4]
  <2>1. PICK x \in Nat : x = g.msg_id
    BY HeaderFields
  <2>2. PICK cut \in 0 .. 4095 : cut = x % 4096
    OBVIOUS
  <2>3. cut \in Word
    BY <2>2, WordTop DEF Word
  <2>4. g.msg_id % 4096 \in Word
    <3>1. g.msg_id % 4096 = cut
      BY <2>1, <2>2
    <3>2. QED
      BY <2>3, <3>1
  <2>5. Bits(w[7], 0, 4) * 256 + w[8] = g.msg_id % 4096
    BY <1>2, ReadBack
  <2>6. QED
    BY <1>6, <2>4, <2>5
<1>12. PICK t \in Byte :
         /\ t = IF IsCommand(h.stream_type) THEN Bits(b[5], 0, 6) ELSE 0
         /\ t = IF IsCommand(g.stream_type) THEN g.target_sys_id % 64 ELSE 0
  <2>1. CASE IsCommand(g.stream_type)
    <3>1. PICK v \in Nat : v = g.target_sys_id
      BY HeaderFields
    <3>2. PICK x \in 0 .. 63 : x = Bits(v, 0, 6)
      <4>1. Bits(g.target_sys_id, 0, 6) \in 0 .. 63
        BY HeaderBits
      <4>2. QED
        BY <3>1, <4>1
    <3>3. T = 1 /\ w[9] = x
      BY <1>2, <1>4, <2>1, <3>1, <3>2 DEF Encoded, TargetLen
    <3>4. 5 \in 1 .. 4 + T + F + N /\ 4 + 5 = 9
      BY <3>3
    <3>5. b[5] = x
      BY <1>5, <3>3, <3>4
    <3>6. x \in Byte /\ Bits(x, 0, 6) = v % 64
      BY <3>2, TargetStart
    <3>7. PICK c \in 0 .. 63 : c = v % 64
      OBVIOUS
    <3>8. c \in Byte
      BY <3>7 DEF Byte
    <3>9. QED
      BY <1>7, <2>1, <3>1, <3>5, <3>6, <3>7, <3>8
  <2>2. CASE ~IsCommand(g.stream_type)
    <3>1. 0 \in Byte
      BY DEF Byte
    <3>2. QED
      BY <1>7, <2>2, <3>1
  <2>3. QED
    BY <2>1, <2>2
<1>13. PICK i \in Byte, n \in Byte :
         /\ i = IF h.fragmented = 1 THEN b[4 + T + 1] ELSE h.frag_index
         /\ n = IF h.fragmented = 1 THEN b[4 + T + 2] ELSE h.frag_total
         /\ g.fragmented = 1 => i = g.frag_index /\ n = g.frag_total
  <2>1. CASE g.fragmented = 1
    <3>1. F = 2
      BY <1>4, <2>1 DEF FragLen
    <3>2. 4 + T + 1 \in 1 .. 4 + T + F + N /\ 4 + T + 2 \in 1 .. 4 + T + F + N
      BY <3>1
    <3>3. b[4 + T + 1] = w[4 + (4 + T + 1)] /\ b[4 + T + 2] = w[4 + (4 + T + 2)]
      BY <1>5, <3>2
    <3>4. 4 + (4 + T + 1) = 9 + T /\ 4 + (4 + T + 2) = 10 + T
      OBVIOUS
    <3>5. b[4 + T + 1] = g.frag_index /\ b[4 + T + 2] = g.frag_total
      BY <1>2, <1>4, <2>1, <3>3, <3>4 DEF Encoded
    <3>6. g.frag_index \in Byte /\ g.frag_total \in Byte
      BY HeaderFields
    <3>7. QED
      BY <1>7, <2>1, <3>5, <3>6
  <2>2. CASE g.fragmented # 1
    <3>1. h.frag_index \in Byte /\ h.frag_total \in Byte
      BY HeaderFields
    <3>2. QED
      BY <1>7, <2>2, <3>1
  <2>3. QED
    BY <2>1, <2>2
<1>14. PICK o \in [1 .. 8 -> Byte] :
         /\ o = IF h.encrypted = 1 THEN SubSeq(b, 4 + T + F + 1, 4 + T + F + 8) ELSE h.nonce
         /\ g.encrypted = 1 => o = g.nonce
  <2>1. CASE g.encrypted = 1
    <3>1. N = 8
      BY <1>4, <2>1 DEF NonceLen
    <3>2. PICK lo \in Nat, hi \in Nat : lo = 4 + T + F + 1 /\ hi = 4 + T + F + 8
      OBVIOUS
    <3>3. ASSUME NEW j \in lo .. hi PROVE b[j] \in Byte
      <4>1. j \in 1 .. Len(b)
        BY <1>5, <3>1, <3>2, <3>3
      <4>2. QED
        BY <1>5, <4>1, ElementOfSeq
    <3>4. /\ SubSeq(b, lo, hi) \in Seq(Byte)
          /\ Len(SubSeq(b, lo, hi)) = IF lo =< hi THEN hi - lo + 1 ELSE 0
          /\ \A j \in 1 .. hi - lo + 1 : SubSeq(b, lo, hi)[j] = b[lo + j - 1]
      BY <3>3, SubSeqProperties
    <3>5. PICK s \in Seq(Byte) : s = SubSeq(b, lo, hi)
      BY <3>4
    <3>6. Len(s) = 8
      BY <3>2, <3>4, <3>5
    <3>7. ASSUME NEW j \in 1 .. 8 PROVE s[j] = g.nonce[j]
      <4>1. j \in 1 .. hi - lo + 1 /\ lo + j - 1 = 4 + T + F + j
        BY <3>2, <3>7
      <4>2. 4 + T + F + j \in 1 .. 4 + T + F + N
        BY <3>1, <3>7
      <4>3. s[j] = b[4 + T + F + j]
        BY <3>4, <3>5, <4>1
      <4>4. b[4 + T + F + j] = w[4 + (4 + T + F + j)]
        BY <1>5, <4>2
      <4>5. 4 + (4 + T + F + j) = 8 + T + F + j
        BY <3>7
      <4>6. w[8 + T + F + j] = g.nonce[j]
        <5>1. \A k \in 1 .. 8 : w[8 + TargetLen(g) + FragLen(g) + k] = g.nonce[k]
          BY <1>2, <2>1 DEF Encoded
        <5>2. QED
          BY <1>4, <3>7, <5>1
      <4>7. QED
        BY <4>3, <4>4, <4>5, <4>6
    <3>8. g.nonce \in [1 .. 8 -> Byte]
      BY DEF Header
    <3>9. s = g.nonce
      BY <3>6, <3>7, <3>8, NonceRead
    <3>10. QED
      BY <1>7, <2>1, <3>2, <3>5, <3>8, <3>9
  <2>2. CASE g.encrypted # 1
    <3>1. h.nonce \in [1 .. 8 -> Byte]
      BY DEF Header
    <3>2. QED
      BY <1>7, <2>2, <3>1
  <2>3. QED
    BY <2>1, <2>2
<1>15. PICK r : r = DecodeExt(h, b)
  OBVIOUS
<1>16. r = [h EXCEPT !.sequence = q, !.sys_id = y, !.comp_id = d, !.msg_id = m,
               !.target_sys_id = t, !.frag_index = i, !.frag_total = n, !.nonce = o]
  BY <1>8, <1>9, <1>10, <1>11, <1>12, <1>13, <1>14, <1>15 DEF DecodeExt
<1>17. /\ r \in Header /\ r.sequence = q /\ r.sys_id = y /\ r.comp_id = d /\ r.msg_id = m
       /\ r.target_sys_id = t /\ r.frag_index = i /\ r.frag_total = n /\ r.nonce = o
       /\ r.payload_len = h.payload_len /\ r.priority = h.priority
       /\ r.stream_type = h.stream_type /\ r.compressed = h.compressed
       /\ r.encrypted = h.encrypted /\ r.fragmented = h.fragmented
  BY <1>16 DEF Header
<1>18. header' = r /\ stage' = "done" /\ UNCHANGED <<sent, wire>>
  BY <1>1, <1>3, <1>15 DEF ReceiveExt
<1>19. BaseRead(r, w)
  BY <1>2, <1>17 DEF BaseRead
<1>20. ExtRead(r, w)
  BY <1>6, <1>9, <1>10, <1>11, <1>17 DEF ExtRead
<1>21. Optional(r, g)
  BY <1>12, <1>13, <1>14, <1>17 DEF Optional
<1>22. QED
  BY <1>1, <1>2, <1>17, <1>18, <1>19, <1>20, <1>21 DEF WireInv

LEMMA WireStep ==
    ASSUME WireInv, [WireNext]_wire_vars
    PROVE  WireInv'
<1>1. CASE \E p \in Packets : Send(p)
  BY <1>1, SenderAssumption, SendPacket
<1>2. CASE ReceiveBase
  BY <1>2, ReceiveBaseStep
<1>3. CASE ReceiveExt
  BY <1>3, ReceiveExtStep
<1>4. CASE UNCHANGED wire_vars
  BY <1>4 DEF wire_vars, WireInv, BaseRead, ExtRead, Optional
<1>5. QED
  BY <1>1, <1>2, <1>3, <1>4 DEF WireNext

LEMMA WireKept == WireSpec => []WireInv
<1>1. WireInv /\ [WireNext]_wire_vars => WireInv'
  BY WireStep
<1>2. QED
  BY <1>1, WireStart, PTL DEF WireSpec

(* The header a parser holds is the encoder's where it says what else      *)
(* stands on the line.                                                     *)
LEMMA SameParts ==
    ASSUME NEW g \in Header, g.stream_type < 16, NEW w, Encoded(g, w),
           NEW h \in Header, BaseRead(h, w)
    PROVE  /\ h.stream_type = g.stream_type /\ h.encrypted = g.encrypted
           /\ h.fragmented = g.fragmented /\ ExtLen(h) = ExtLen(g)
<1>1. /\ h.stream_type = g.stream_type /\ h.encrypted = g.encrypted
      /\ h.fragmented = g.fragmented
  BY ReadBack DEF BaseRead
<1>2. QED
  BY <1>1 DEF ExtLen, TargetLen, FragLen, NonceLen

LEMMA Arrives == WireInv => HeaderArrives
<1>1. SUFFICES ASSUME WireInv PROVE HeaderArrives
  OBVIOUS
<1>2. PICK g \in Header, w \in Seq(Byte), h \in Header : g = sent /\ w = wire /\ h = header
  BY <1>1 DEF WireInv
<1>3. ASSUME stage = "base" PROVE 4 + ExtLen(h) = Len(w)
  <2>1. g.stream_type < 16 /\ Encoded(g, w) /\ BaseRead(h, w)
    BY <1>1, <1>2, <1>3 DEF WireInv
  <2>2. ExtLen(h) = ExtLen(g)
    BY <2>1, SameParts
  <2>3. Len(w) = 4 + ExtLen(g)
    BY <2>1 DEF Encoded
  <2>4. QED
    BY <2>2, <2>3
<1>4. ASSUME stage = "done"
      PROVE  /\ h.payload_len = g.payload_len % 4096 /\ h.priority = g.priority % 4
             /\ h.stream_type = g.stream_type % 16 /\ h.encrypted = g.encrypted
             /\ h.compressed = g.compressed /\ h.fragmented = g.fragmented
             /\ h.sequence = g.sequence % 4096 /\ h.sys_id = g.sys_id % 64
             /\ h.comp_id = g.comp_id % 16 /\ h.msg_id = g.msg_id % 4096
             /\ h.target_sys_id =
                   IF IsCommand(g.stream_type) THEN g.target_sys_id % 64 ELSE 0
             /\ g.fragmented = 1 => h.frag_index = g.frag_index /\ h.frag_total = g.frag_total
             /\ g.encrypted = 1 => h.nonce = g.nonce
  <2>1. /\ g.stream_type < 16 /\ Encoded(g, w) /\ BaseRead(h, w) /\ ExtRead(h, w)
        /\ Optional(h, g)
    BY <1>1, <1>2, <1>4 DEF WireInv
  <2>2. h.stream_type = g.stream_type % 16
    <3>1. PICK v \in Nat : v = g.stream_type /\ v < 16
      BY <2>1, HeaderFields
    <3>2. v % 16 = v
      BY <3>1
    <3>3. QED
      BY <2>1, <3>1, <3>2, SameParts
  <2>3. /\ h.payload_len = g.payload_len % 4096 /\ h.priority = g.priority % 4
        /\ h.encrypted = g.encrypted /\ h.compressed = g.compressed
        /\ h.fragmented = g.fragmented
    BY <2>1, ReadBack DEF BaseRead
  <2>4. /\ h.sequence = g.sequence % 4096 /\ h.sys_id = g.sys_id % 64
        /\ h.comp_id = g.comp_id % 16 /\ h.msg_id = g.msg_id % 4096
    BY <2>1, ReadBack DEF ExtRead
  <2>5. QED
    BY <2>1, <2>2, <2>3, <2>4 DEF Optional
<1>5. QED
  BY <1>2, <1>3, <1>4 DEF HeaderArrives

LEMMA Mirrors == WireInv => ToolsMirror
<1>1. SUFFICES ASSUME WireInv, stage = "done"
               PROVE  LET gcs == GcsDecode(wire)
                          listener == ListenerDecode(wire)
                      IN  /\ \A field \in DOMAIN gcs : gcs[field] = header[field]
                          /\ \A field \in DOMAIN listener : listener[field] = header[field]
                          /\ ListenerOffset(listener) = 4 + ExtLen(header)
  BY DEF ToolsMirror
<1>2. PICK g \in Header, w \in Seq(Byte), h \in Header : g = sent /\ w = wire /\ h = header
  BY <1>1 DEF WireInv
<1>3. g.stream_type < 16 /\ Encoded(g, w) /\ BaseRead(h, w) /\ ExtRead(h, w)
  BY <1>1, <1>2 DEF WireInv
<1>4. \A field \in DOMAIN GcsDecode(w) : GcsDecode(w)[field] = h[field]
  BY <1>3 DEF GcsDecode, BaseRead, ExtRead
<1>5. PICK l : l = ListenerDecode(w)
  OBVIOUS
<1>6. /\ l = [payload_len |-> h.payload_len, priority |-> h.priority,
              stream_type |-> h.stream_type, encrypted |-> h.encrypted,
              fragmented |-> h.fragmented, sequence |-> h.sequence,
              sys_id |-> h.sys_id, comp_id |-> h.comp_id, msg_id |-> h.msg_id]
  BY <1>3, <1>5 DEF ListenerDecode, BaseRead, ExtRead
<1>7. \A field \in DOMAIN l : l[field] = h[field]
  BY <1>6
<1>8. ListenerOffset(l) = 4 + ExtLen(h)
  <2>1. PICK e \in 0 .. 1, f \in 0 .. 1 : e = h.encrypted /\ f = h.fragmented
    BY HeaderFields
  <2>2. l.stream_type = h.stream_type /\ l.encrypted = e /\ l.fragmented = f
    BY <1>6, <2>1
  <2>3. PICK t \in 0 .. 1 : t = TargetLen(h)
    BY OptionalParts
  <2>4. t = IF IsCommand(l.stream_type) THEN 1 ELSE 0
    BY <2>2, <2>3 DEF TargetLen
  <2>5. FragLen(h) = 2 * f /\ NonceLen(h) = 8 * e
    BY <2>1 DEF FragLen, NonceLen
  <2>6. ListenerOffset(l) = 8 + t + 2 * f + 8 * e
    BY <2>2, <2>4 DEF ListenerOffset
  <2>7. ExtLen(h) = 4 + t + 2 * f + 8 * e
    BY <2>3, <2>5 DEF ExtLen
  <2>8. QED
    BY <2>6, <2>7
<1>9. QED
  BY <1>2, <1>4, <1>5, <1>7, <1>8

(* Whatever a header holds, every field the decoder writes fits its width  *)
(* and every byte on the line is one (kestrel.c:140-273).                  *)
THEOREM WireTypes == WireSpec => []WireTypeOK
<1>1. WireInv => WireTypeOK
  BY DEF WireInv, WireTypeOK
<1>2. QED
  BY <1>1, WireKept, PTL

(* For every header on a stream of the code, ks_decode_base_header and     *)
(* ks_decode_ext_header read what ks_encode_base_header and                *)
(* ks_encode_ext_header (or a tool's build_packet) wrote, cut to the widths*)
(* of the fields, take nothing over from the packet before, and the length *)
(* computed from the base header alone is the length that follows          *)
(* (kestrel.c:140-273).                                                    *)
THEOREM HeaderAlwaysArrives == WireSpec => []HeaderArrives
BY Arrives, WireKept, PTL

(* For every such header the parsers of kestrel_gcs_usb.py and             *)
(* serial_listener.py read the fields ks_parse_char does, and the latter   *)
(* finds the payload where the decoder does (kestrel_gcs_usb.py:207).      *)
THEOREM ToolsAlwaysMirror == WireSpec => []ToolsMirror
BY Mirrors, WireKept, PTL
====
