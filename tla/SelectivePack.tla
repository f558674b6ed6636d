---- MODULE SelectivePack ----
(***************************************************************************)
(* The sending side of kestrel.c: the table of encryption policies with    *)
(* its runtime overrides, one session, the crypto context cache and the    *)
(* four pack functions.  A packet is reduced to what it discloses: the     *)
(* messages inside it, whether they are encrypted, and under which key and *)
(* counter.  A call passes the session or NULL, and a payload that fits    *)
(* the buffer or not.  A build is made with its cryptography or, with      *)
(* KS_CRYPTO_DISABLED (the AVR and generic boards of kestrel_arduino.h),   *)
(* without.                                                                *)
(***************************************************************************)
EXTENDS KsSession, Sequences, FiniteSetsExt

CONSTANTS
    MsgIds,         \* message ids, KS_MSG_BATCH among them
    Batch,          \* KS_MSG_BATCH
    NeverEncrypted, \* the switch of ks_get_encrypt_policy: its cases
    AlwaysEncrypted,
    OverrideMax,    \* KS_ENCRYPT_OVERRIDE_MAX
    MaxBatch,       \* KS_BATCH_MAX_MESSAGES
    CryptoDisabled, \* the builds: KS_CRYPTO_DISABLED defined, or not
    MaxPackets      \* bound: counters one session issues

Policies == {"NEVER", "OPTIONAL", "ALWAYS"}

ASSUME PackAssumption ==
    /\ Batch \in MsgIds /\ NeverEncrypted \cup AlwaysEncrypted \subseteq MsgIds
    /\ NeverEncrypted \cap AlwaysEncrypted = {}
    /\ OverrideMax \in Nat /\ MaxBatch \in Nat /\ CryptoDisabled \subseteq BOOLEAN
    /\ MaxPackets \in Nat /\ MaxPackets < M

VARIABLES
    disabled,   \* KS_CRYPTO_DISABLED is defined in this build
    overrides,  \* g_encrypt_overrides up to g_encrypt_override_count
    session,    \* the application's ks_session_t
    cache,      \* its ks_crypto_ctx_t
    packet,     \* what the last pack call returned and put on the wire
    requested,  \* history: the last policy ks_set_encrypt_policy was given
    used        \* history: the counters issued since ks_session_init

vars == <<disabled, overrides, session, cache, packet, requested, used>>

Nothing(ret) == [ret |-> ret, by |-> "none", inside |-> {}, encrypted |-> FALSE,
                 key |-> NoKey, session |-> FALSE]

Init ==
    /\ disabled \in CryptoDisabled
    /\ overrides = <<>>
    /\ session = Wiped
    /\ cache = [valid |-> FALSE, last_key |-> NoKey]
    /\ packet = Nothing("none")
    /\ requested = [id \in MsgIds |-> "none"]
    /\ used = <<>>

Entries(id) == {i \in 1 .. Len(overrides) : overrides[i].msg_id = id}

Default == [id \in MsgIds |-> CASE id \in NeverEncrypted -> "NEVER"
                                [] id \in AlwaysEncrypted -> "ALWAYS"
                                [] OTHER -> "OPTIONAL"]

(* ks_get_encrypt_policy.                                                  *)
Policy(id) ==
    IF Entries(id) # {} THEN overrides[Min(Entries(id))].policy ELSE Default[id]

SetPolicyAppends(id, policy) ==    \* mutant: an existing entry is not updated
    /\ requested' = [requested EXCEPT ![id] = policy]
    /\ overrides' = IF Len(overrides) < OverrideMax
                    THEN Append(overrides, [msg_id |-> id, policy |-> policy])
                    ELSE overrides
    /\ packet' = Nothing("none")
    /\ UNCHANGED <<disabled, session, cache, used>>

(* ks_set_encrypt_policy returns nothing, whether it stored the policy or  *)
(* found the table full.                                                   *)
SetPolicy(id, policy) ==
    /\ requested' = [requested EXCEPT ![id] = policy]
    /\ \/ /\ Entries(id) # {}
          /\ overrides' = [overrides EXCEPT ![Min(Entries(id))].policy = policy]
       \/ /\ Entries(id) = {}
          /\ Len(overrides) < OverrideMax
          /\ overrides' = Append(overrides, [msg_id |-> id, policy |-> policy])
       \/ /\ Entries(id) = {}
          /\ Len(overrides) = OverrideMax
          /\ UNCHANGED overrides
    /\ packet' = Nothing("none")
    /\ UNCHANGED <<disabled, session, cache, used>>

StartSession(k, seed) ==
    /\ session' = SessionInit(k, seed)
    /\ used' = <<>>
    /\ packet' = Nothing("none")
    /\ UNCHANGED <<disabled, overrides, cache, requested>>

StartSessionFails(k) ==
    /\ session' = SessionInitFailed(k)
    /\ used' = <<>>
    /\ packet' = Nothing("none")
    /\ UNCHANGED <<disabled, overrides, cache, requested>>

DestroySession ==
    /\ session' = SessionDestroy(session)
    /\ packet' = Nothing("none")
    /\ UNCHANGED <<disabled, overrides, cache, requested, used>>

Clear(by, inside, given) ==
    [ret |-> "sent", by |-> by, inside |-> inside, encrypted |-> FALSE,
     key |-> NoKey, session |-> given]

Sealed(by, inside, given) ==
    [ret |-> "sent", by |-> by, inside |-> inside, encrypted |-> TRUE,
     key |-> session.key, session |-> given]

EmitFallsBack(by, inside, given, keyed, fits) ==   \* mutant: no session, no error
    LET opened == keyed /\ session.initialized
    IN  /\ packet' = IF ~fits THEN Nothing("OVERFLOW")
                     ELSE IF opened /\ ~disabled THEN Sealed(by, inside, given)
                                                ELSE Clear(by, inside, given)
        /\ IF opened
           THEN session' = Generated(session) /\ used' = Append(used, Issued(session))
           ELSE UNCHANGED <<session, used>>

(* kestrel_pack_with_nonce, called with the session (keyed) or NULL, for a *)
(* caller that was given a session or not.  The nonce is spent before the  *)
(* payload's length is checked; a build without cryptography spends it and *)
(* falls back to a packet in clear.                                        *)
Emit(by, inside, given, keyed, fits) ==
    \/ /\ keyed /\ ~session.initialized
       /\ packet' = Nothing("INVALID_HEADER")
       /\ UNCHANGED <<session, used>>
    \/ /\ keyed /\ session.initialized
       /\ Len(used) < MaxPackets
       /\ session' = Generated(session)
       /\ used' = Append(used, Issued(session))
       /\ packet' = IF ~fits THEN Nothing("OVERFLOW")
                    ELSE IF disabled THEN Clear(by, inside, given)
                                     ELSE Sealed(by, inside, given)
    \/ /\ ~keyed
       /\ packet' = IF fits THEN Clear(by, inside, given) ELSE Nothing("OVERFLOW")
       /\ UNCHANGED <<session, used>>

PackWithNonce(id, given, fits) ==
    /\ Emit("with_nonce", {id}, given, given, fits)
    /\ UNCHANGED <<disabled, overrides, cache, requested>>

(* The body of kestrel_pack_selective for a packet of message id.          *)
Select(by, id, inside, given, fits) ==
    \/ Policy(id) = "NEVER" /\ Emit(by, inside, given, FALSE, fits)
    \/ Policy(id) = "OPTIONAL" /\ Emit(by, inside, given, given, fits)
    \/ Policy(id) = "ALWAYS" /\ given /\ Emit(by, inside, given, TRUE, fits)
    \/ /\ Policy(id) = "ALWAYS" /\ ~given
       /\ packet' = Nothing("NO_KEY")
       /\ UNCHANGED <<session, used>>

PackSelective(id, given, fits) ==
    /\ Select("selective", id, {id}, given, fits)
    /\ UNCHANGED <<disabled, overrides, cache, requested>>

(* The key is copied when the cache holds another one or none; nothing in  *)
(* kestrel.c reads the cache again.                                        *)
PackCached(id, given, fits) ==
    /\ \/ /\ given /\ session.initialized
          /\ ~cache.valid \/ cache.last_key # session.key
          /\ cache' = [valid |-> TRUE, last_key |-> session.key]
       \/ /\ given /\ session.initialized
          /\ cache.valid /\ cache.last_key = session.key
          /\ UNCHANGED cache
       \/ /\ ~(given /\ session.initialized)
          /\ cache' = [cache EXCEPT !.valid = FALSE]
    /\ Select("cached", id, {id}, given, fits)
    /\ UNCHANGED <<disabled, overrides, requested>>

(* A batch of the messages ids; the checks of its lengths come first.      *)
PackBatch(ids, given, fits) ==
    /\ \/ /\ ids = {} \/ Cardinality(ids) > MaxBatch
          /\ packet' = Nothing("INVALID_HEADER")
          /\ UNCHANGED <<session, used>>
       \/ /\ ids # {} /\ Cardinality(ids) =< MaxBatch
          /\ ~fits
          /\ packet' = Nothing("OVERFLOW")
          /\ UNCHANGED <<session, used>>
       \/ /\ ids # {} /\ Cardinality(ids) =< MaxBatch
          /\ fits
          /\ Select("batch", Batch, ids, given, TRUE)
    /\ UNCHANGED <<disabled, overrides, cache, requested>>

Next ==
    \/ \E id \in MsgIds, policy \in Policies : SetPolicy(id, policy)
    \/ \E k \in Key, seed \in Counters : StartSession(k, seed)
    \/ \E k \in Key : StartSessionFails(k)
    \/ DestroySession
    \/ \E given, fits \in BOOLEAN :
          \/ \E id \in MsgIds :
                \/ PackWithNonce(id, given, fits)
                \/ PackSelective(id, given, fits)
                \/ PackCached(id, given, fits)
          \/ \E ids \in SUBSET (MsgIds \ {Batch}) : PackBatch(ids, given, fits)

Spec == Init /\ [][Next]_vars
----
Packet == [ret : {"none", "sent", "NO_KEY", "INVALID_HEADER", "OVERFLOW"},
           by : {"none", "with_nonce", "selective", "cached", "batch"},
           inside : SUBSET MsgIds, encrypted : BOOLEAN,
           key : Key \cup {NoKey}, session : BOOLEAN]

(* Table, session, cache and packet have their types.                      *)
TypeOK ==
    /\ disabled \in BOOLEAN
    /\ overrides \in Seq([msg_id : MsgIds, policy : Policies])
    /\ Len(overrides) =< OverrideMax
    /\ session \in Session
    /\ cache \in [valid : BOOLEAN, last_key : Key \cup {NoKey}]
    /\ packet \in Packet
    /\ requested \in [MsgIds -> Policies \cup {"none"}]
    /\ used \in Seq(Counters)

(* Of the policies set for a message the last one counts, once the message *)
(* has an override; without one the default does (kestrel.c:1952-2028).    *)
LastRequestCounts ==
    \A id \in MsgIds :
        Policy(id) = IF Entries(id) # {} THEN requested[id] ELSE Default[id]

(* A message whose policy is ALWAYS is sent for a caller with a session or *)
(* not at all.  In a build with cryptography it is then sealed, and no     *)
(* caller who passes a session is answered with a clear packet unless the  *)
(* policy is NEVER: an unusable session is an error (kestrel.c:1919-1930   *)
(* and 2038-2056).  A build without cryptography sends it in clear         *)
(* (kestrel.c:1580-1588, see AlwaysEncrypts); a batch goes by the policy   *)
(* of KS_MSG_BATCH alone (see AlwaysMeansAlways).                          *)
NoSilentDowngrade ==
    packet.ret = "sent" =>
        /\ packet.by \in {"selective", "cached"} /\ ~packet.session =>
              \A id \in packet.inside : Policy(id) # "ALWAYS"
        /\ ~disabled /\ ~packet.encrypted /\ packet.session =>
              /\ packet.by # "with_nonce"
              /\ \/ packet.by = "batch" /\ Policy(Batch) = "NEVER"
                 \/ packet.by # "batch" /\ \A id \in packet.inside : Policy(id) = "NEVER"

(* Key material lives exactly as long as the session: a destroyed session  *)
(* and one whose initialisation failed hold no key, and no packet is ever  *)
(* sealed with the zeroed key (kestrel.c:1515-1541).                       *)
KeyMatchesLifetime ==
    /\ session.initialized <=> session.key # NoKey
    /\ packet.encrypted => packet.key \in Key

(* A session never puts one counter under its key twice before it has used *)
(* all values of the counter, failed pack calls and the rollover included. *)
NonceFresh ==
    \A i, j \in 1 .. Len(used) : i # j => used[i] # used[j]

(* ks_set_encrypt_policy "can override defaults" (kestrel_core.h:863):     *)
(* a policy that was set is in force.                                      *)
PolicyInForce ==
    \A id \in MsgIds : requested[id] # "none" => Policy(id) = requested[id]

(* "Always encrypt (security-critical commands)" (kestrel_core.h:218):     *)
(* no packet made under the policies carries such a message in clear, in a *)
(* batch as on its own.                                                    *)
AlwaysMeansAlways ==
    ~disabled /\ packet.by \in {"selective", "cached", "batch"} /\ ~packet.encrypted =>
        \A id \in packet.inside : Policy(id) # "ALWAYS"

(* The same of messages packed on their own, whatever the build.           *)
AlwaysEncrypts ==
    packet.by \in {"selective", "cached"} /\ ~packet.encrypted =>
        \A id \in packet.inside : Policy(id) # "ALWAYS"
====
