---- MODULE Pixhawk_proofs ----
(***************************************************************************)
(* Proofs about the two programs that talk MAVLink to the autopilot.       *)
(* ConfigurePixhawk, for every number of parameters, attempts, losses and  *)
(* systems on the line: what the script reports is true of the parameters  *)
(* that the autopilot stores and that nobody tells unasked.  PixhawkBridge, for every period, clock *)
(* and set of messages: what the autopilot says is relayed faithfully, and *)
(* nothing is ever said to it.                                             *)
(***************************************************************************)
EXTENDS ConfigurePixhawk, PixhawkBridge, SequenceTheorems, TLAPS

ScriptCommand == [kind : {"set"}, to : Systems \cup {0}, name : Names]
           \cup [kind : {"reboot"}, to : Systems \cup {0}, name : {0}]

(* Only commands of the script are on their way.                           *)
Commanded == sent \in Seq(ScriptCommand)

(* The names a PARAM_VALUE may carry, and the parameters it may carry      *)
(* though they are not stored.                                             *)
Told == 0 .. Params
Unstored == Fixed \cup Unasked

(* A name that may still be heard, however late, is one that was stored,   *)
(* or one the autopilot answers for without storing it, or one that is     *)
(* told unasked.                                                           *)
HeardIsStored == \A i \in 1 .. Len(heard) : heard[i] \in stored \cup Unstored

(* What lies behind the loop is settled.                                   *)
BehindIsSettled ==
    /\ \A n \in Names : n < param => n \in stored \cup Unstored \cup warned
    /\ at \in {"reboot", "done"} => Names \subseteq stored \cup Unstored \cup warned

(* What the script reports is true, but for these parameters.              *)
SettledWhenDone == at = "done" => Names \subseteq stored \cup Unstored \cup warned

IInv == TypeOK /\ Commanded /\ HeardIsStored /\ BehindIsSettled

(* Commands go to the system heard first.                                  *)
ToTarget ==
    /\ \A i \in 1 .. Len(sent) : sent[i].to = target
    /\ at = "connect" => sent = <<>> /\ target = 0

(* Only the autopilot answers; with another target everything else that is *)
(* confirmed was told unasked, and the rest is reported.                   *)
AllUnasked(q) == \A i \in 1 .. Len(q) : q[i] \in Unasked

OnlyAutopilotAnswers ==
    target # Autopilot =>
        /\ AllUnasked(heard)
        /\ \A n \in Names : n < param => n \in Unasked \cup warned
        /\ at \in {"reboot", "done"} => Names \subseteq Unasked \cup warned

(* The reboot is the last command of all.                                  *)
RebootIsLast ==
    \A i \in 1 .. Len(sent) : sent[i].kind = "reboot" => at = "done" /\ i = Len(sent)

RebootLost == \E i \in 1 .. Len(lost) : lost[i] = "reboot"

(* What the autopilot runs with, but for these parameters.                 *)
InEffect == Names \subseteq active \cup Unstored \cup warned

(* The reboot is under way, was lost, or has taken effect.                 *)
RebootWorks ==
    at = "done" =>
        \/ sent # <<>> /\ sent[Len(sent)].kind = "reboot"
        \/ RebootLost
        \/ InEffect

LossesKept == lost \in Seq({"set", "reboot", "answer"})

EffectInv == /\ ToTarget /\ OnlyAutopilotAnswers /\ RebootIsLast /\ RebootWorks
             /\ LossesKept

(* Once every command has arrived or is lost, the parameters that were not *)
(* reported are in effect, unless it was the reboot that was lost.         *)
EffectWhenSettled == at = "done" /\ sent = <<>> => InEffect \/ RebootLost

----
LEMMA Consts ==
    /\ Params \in Nat /\ Params > 0 /\ Attempts \in Nat /\ Attempts > 0
    /\ Wait \in Nat /\ Boot \in Nat /\ MaxLost \in Nat
    /\ Systems \subseteq Nat /\ Autopilot \in Systems /\ Fixed \subseteq Names
    /\ Names = 1 .. Params /\ Names \subseteq Told /\ Unasked \subseteq Told
BY ConfigureAssumption DEF Names, Told

(* The times the script waits for.                                         *)
Longest == IF Wait > Boot THEN Wait ELSE Boot

LEMMA LongestLemma == Longest \in Nat /\ Wait =< Longest /\ Boot =< Longest
BY Consts DEF Longest

(* Elements of a queue after its head has left it.                         *)
LEMMA TailLemma ==
    ASSUME NEW S, NEW q \in Seq(S), q # <<>>
    PROVE  /\ Head(q) \in S /\ Head(q) = q[1] /\ 1 \in 1 .. Len(q)
           /\ Tail(q) \in Seq(S) /\ Len(q) \in Nat /\ Len(Tail(q)) = Len(q) - 1
           /\ \A i \in 1 .. Len(Tail(q)) : i + 1 \in 1 .. Len(q) /\ Tail(q)[i] = q[i + 1]
BY HeadTailProperties

LEMMA AppendLemma ==
    ASSUME NEW S, NEW q \in Seq(S), NEW e \in S
    PROVE  /\ Append(q, e) \in Seq(S) /\ Append(q, e) # <<>>
           /\ Len(q) \in Nat /\ Len(Append(q, e)) = Len(q) + 1
           /\ Append(q, e)[Len(q) + 1] = e
           /\ \A i \in 1 .. Len(q) : Append(q, e)[i] = q[i]
           /\ \A i \in 1 .. Len(Append(q, e)) :
                 Append(q, e)[i] = e \/ (i \in 1 .. Len(q) /\ Append(q, e)[i] = q[i])
BY AppendProperties

(* A parameter that is settled when the script leaves it.                  *)
LEMMA NextParamLemma ==
    ASSUME IInv, at = "wait", NextParam, param \in stored' \cup Unstored \cup warned',
           stored \subseteq stored', warned \subseteq warned'
    PROVE  /\ at' \in {"set", "reboot"} /\ param' \in Names /\ attempt' \in 1 .. Attempts
           /\ BehindIsSettled'
<1>1. param \in Nat /\ 1 =< param /\ param =< Params
  BY Consts DEF IInv, TypeOK
<1>2. \A n \in Names : n < param + 1 => n \in stored' \cup Unstored \cup warned'
  <2>1. SUFFICES ASSUME NEW n \in Names, n < param + 1
                 PROVE  n \in stored' \cup Unstored \cup warned'
    OBVIOUS
  <2>2. n = param \/ n < param
    BY <1>1, <2>1, Consts
  <2>3. QED
    BY <2>2 DEF IInv, BehindIsSettled
<1>3. CASE param = Params
  <2>1. \A n \in Names : n < param + 1
    BY <1>3, Consts
  <2>2. at' = "reboot" /\ param' = param /\ attempt' = 1
    BY <1>3 DEF NextParam
  <2>3. QED
    BY <1>1, <1>2, <2>1, <2>2, Consts DEF BehindIsSettled
<1>4. CASE param # Params
  <2>1. at' = "set" /\ param' = param + 1 /\ attempt' = 1
    BY <1>4 DEF NextParam
  <2>2. QED
    BY <1>1, <1>2, <1>4, <2>1, Consts DEF BehindIsSettled
<1>5. QED
  BY <1>3, <1>4

LEMMA IInvInit == Init => IInv
<1> SUFFICES ASSUME Init PROVE IInv
  OBVIOUS
<1>1. TypeOK
  <2>1. left \in 0 .. Longest
    BY LongestLemma, Consts DEF Init
  <2>2. QED
    BY <2>1, Consts DEF Init, TypeOK, Longest
<1>2. Commanded /\ HeardIsStored
  BY DEF Init, Commanded, HeardIsStored
<1>3. BehindIsSettled
  BY Consts DEF Init, BehindIsSettled
<1>4. QED
  BY <1>1, <1>2, <1>3 DEF IInv

(* A message leaves the queue, read or lost, or none does.                 *)
LEMMA HeardKept ==
    ASSUME IInv, heard' = heard \/ (heard # <<>> /\ heard' = Tail(heard))
    PROVE  /\ heard' \in Seq(Told)
           /\ stored' = stored => HeardIsStored'
           /\ AllUnasked(heard) => AllUnasked(heard')
<1>1. heard \in Seq(Told) /\ HeardIsStored
  BY DEF IInv, TypeOK, Told
<1>2. CASE heard' = heard
  BY <1>1, <1>2 DEF HeardIsStored, AllUnasked
<1>3. CASE heard # <<>> /\ heard' = Tail(heard)
  BY <1>1, <1>3, TailLemma DEF HeardIsStored, AllUnasked
<1>4. QED
  BY <1>2, <1>3

(* The script's steps that neither set nor leave a parameter.              *)
LEMMA WaitingStep ==
    ASSUME IInv,
           \/ \E id \in Systems : HeartbeatHeard(id)
           \/ NoHeartbeat \/ Retry \/ Tick
    PROVE  IInv'
<1> DEFINE Waited == /\ UNCHANGED <<param, warned, stored, active, sent>>
                     /\ heard' = heard \/ (heard # <<>> /\ heard' = Tail(heard))
                     /\ target' \in Systems \cup {0} /\ attempt' \in 1 .. Attempts
                     /\ left' \in 0 .. Longest
                     /\ at' \in {"connect", "set", "wait", "failed"}
<1>1. Waited
  <2>1. /\ target \in Systems \cup {0} /\ attempt \in 1 .. Attempts
        /\ left \in 0 .. Longest
    BY DEF IInv, TypeOK, Longest
  <2>2. ASSUME NEW id \in Systems, HeartbeatHeard(id) PROVE Waited
    BY <2>1, <2>2 DEF HeartbeatHeard, autopilot
  <2>3. CASE NoHeartbeat
    BY <2>1, <2>3 DEF NoHeartbeat, autopilot
  <2>4. CASE Retry
    BY <2>1, <2>4, Consts DEF Retry, TimeUp, autopilot
  <2>5. CASE Tick
    BY <2>1, <2>5, LongestLemma DEF Tick, autopilot
  <2>6. QED
    BY <2>2, <2>3, <2>4, <2>5
<1>2. heard' \in Seq(Told) /\ HeardIsStored'
  BY <1>1, HeardKept
<1>3. TypeOK'
  BY <1>1, <1>2 DEF IInv, TypeOK, Told, Longest, autopilot
<1>4. Commanded' /\ BehindIsSettled'
  BY <1>1 DEF IInv, Commanded, BehindIsSettled, autopilot
<1>5. QED
  BY <1>2, <1>3, <1>4 DEF IInv

LEMMA SendStep ==
    ASSUME IInv, SetParam \/ Reboot
    PROVE  IInv'
<1>1. target \in Systems \cup {0} /\ param \in Names /\ sent \in Seq(ScriptCommand)
  BY DEF IInv, TypeOK, Commanded
<1>2. CASE SetParam
  <2>1. [kind |-> "set", to |-> target, name |-> param] \in ScriptCommand
    BY <1>1 DEF ScriptCommand
  <2>2. Commanded'
    BY <1>1, <1>2, <2>1, AppendLemma DEF SetParam, Commanded
  <2>3. TypeOK'
    <3>1. left' \in 0 .. Longest
      BY <1>2, LongestLemma, Consts DEF SetParam
    <3>2. QED
      BY <1>2, <3>1 DEF SetParam, IInv, TypeOK, Longest, autopilot
  <2>4. HeardIsStored' /\ BehindIsSettled'
    BY <1>2 DEF SetParam, IInv, HeardIsStored, BehindIsSettled, autopilot
  <2>5. QED
    BY <2>2, <2>3, <2>4 DEF IInv
<1>3. CASE Reboot
  <2>1. [kind |-> "reboot", to |-> target, name |-> 0] \in ScriptCommand
    BY <1>1 DEF ScriptCommand
  <2>2. Commanded'
    BY <1>1, <1>3, <2>1, AppendLemma DEF Reboot, Commanded
  <2>3. TypeOK'
    BY <1>3 DEF Reboot, IInv, TypeOK, autopilot
  <2>4. HeardIsStored' /\ BehindIsSettled'
    BY <1>3 DEF Reboot, IInv, HeardIsStored, BehindIsSettled, autopilot
  <2>5. QED
    BY <2>2, <2>3, <2>4 DEF IInv
<1>4. QED
  BY <1>2, <1>3

LEMMA ConfirmStep ==
    ASSUME IInv, Confirm
    PROVE  IInv'
<1>1. heard # <<>> /\ Head(heard) = param /\ heard' = Tail(heard) /\ at = "wait"
  BY DEF Confirm, Answers
<1>2. UNCHANGED <<target, left, warned, stored, active, sent>> /\ NextParam
  BY DEF Confirm, autopilot
<1>3. param \in stored \cup Unstored
  <2>1. heard \in Seq(Told)
    BY DEF IInv, TypeOK, Told
  <2>2. Head(heard) = heard[1] /\ 1 \in 1 .. Len(heard)
    BY <1>1, <2>1, TailLemma
  <2>3. QED
    BY <1>1, <2>2 DEF IInv, HeardIsStored
<1>4. heard' \in Seq(Told) /\ HeardIsStored'
  BY <1>1, <1>2, HeardKept
<1>5. /\ at' \in {"set", "reboot"} /\ param' \in Names /\ attempt' \in 1 .. Attempts
      /\ BehindIsSettled'
  BY <1>1, <1>2, <1>3, NextParamLemma
<1>6. TypeOK' /\ Commanded'
  BY <1>2, <1>4, <1>5 DEF IInv, TypeOK, Told, Commanded
<1>7. QED
  BY <1>4, <1>5, <1>6 DEF IInv

LEMMA GiveUpStep ==
    ASSUME IInv, GiveUp
    PROVE  IInv'
<1>1. /\ at = "wait" /\ warned' = warned \cup {param} /\ NextParam
      /\ UNCHANGED <<target, left, stored, active, sent>>
      /\ heard' = heard \/ (heard # <<>> /\ heard' = Tail(heard))
  BY DEF GiveUp, TimeUp, autopilot
<1>2. /\ at' \in {"set", "reboot"} /\ param' \in Names /\ attempt' \in 1 .. Attempts
      /\ BehindIsSettled'
  BY <1>1, NextParamLemma
<1>3. heard' \in Seq(Told) /\ HeardIsStored'
  BY <1>1, HeardKept
<1>4. TypeOK' /\ Commanded'
  BY <1>1, <1>2, <1>3 DEF IInv, TypeOK, Told, Commanded
<1>5. QED
  BY <1>2, <1>3, <1>4 DEF IInv

LEMMA AnswerGone ==
    ASSUME IInv, Ignore \/ LoseAnswer
    PROVE  IInv'
<1>1. /\ heard # <<>> /\ heard' = Tail(heard)
      /\ UNCHANGED <<at, target, param, attempt, left, warned, stored, active, sent>>
  BY DEF Ignore, LoseAnswer, script, autopilot
<1>2. heard' \in Seq(Told) /\ HeardIsStored'
  BY <1>1, HeardKept
<1>3. QED
  BY <1>1, <1>2 DEF IInv, TypeOK, Told, Commanded, BehindIsSettled

(* A message comes unasked.                                                *)
LEMMA AnnounceStep ==
    ASSUME IInv, NEW name \in Unasked, Announce(name)
    PROVE  IInv'
<1>1. /\ heard' = Append(heard, name) /\ name \in Told
      /\ UNCHANGED <<at, target, param, attempt, left, warned, stored, active, sent>>
  BY Consts DEF Announce, script, autopilot
<1>2. /\ heard \in Seq(Told) /\ heard' \in Seq(Told)
      /\ \A i \in 1 .. Len(heard') :
            heard'[i] = name \/ (i \in 1 .. Len(heard) /\ heard'[i] = heard[i])
  BY <1>1, AppendLemma DEF IInv, TypeOK, Told
<1>3. HeardIsStored'
  BY <1>1, <1>2 DEF IInv, HeardIsStored, Unstored
<1>4. QED
  BY <1>1, <1>2, <1>3 DEF IInv, TypeOK, Told, Commanded, BehindIsSettled

LEMMA CommandGone ==
    ASSUME IInv, LoseCommand
    PROVE  IInv'
<1>1. /\ sent # <<>> /\ sent' = Tail(sent)
      /\ UNCHANGED <<at, target, param, attempt, left, warned, stored, active, heard>>
  BY DEF LoseCommand, script, autopilot
<1>2. Commanded'
  BY <1>1, TailLemma DEF IInv, Commanded
<1>3. QED
  BY <1>1, <1>2 DEF IInv, TypeOK, HeardIsStored, BehindIsSettled

(* The autopilot stores before it answers.                                 *)
LEMMA AutopilotStep ==
    ASSUME IInv, AutopilotActs
    PROVE  IInv'
<1> DEFINE command == Head(sent)
<1>1. command \in ScriptCommand /\ Tail(sent) \in Seq(ScriptCommand) /\ heard \in Seq(Told)
  BY TailLemma DEF AutopilotActs, IInv, TypeOK, Told, Commanded
<1>2. /\ UNCHANGED <<at, target, param, attempt, left, warned>>
      /\ sent' = Tail(sent)
  BY DEF AutopilotActs, script
<1>3. active' \in {active, stored}
  BY DEF AutopilotActs
<1>4. CASE command.to = Autopilot /\ command.kind = "set"
  <2>1. command.name \in Names
    BY <1>1, <1>4 DEF ScriptCommand
  <2>2. stored' = stored \cup ({command.name} \ Fixed) /\ heard' = Append(heard, command.name)
    BY <1>4 DEF AutopilotActs
  <2>3. heard' \in Seq(Told)
    BY <1>1, <2>1, <2>2, AppendLemma, Consts
  <2>4. HeardIsStored'
    <3>1. ASSUME NEW i \in 1 .. Len(heard')
          PROVE  heard'[i] \in stored' \cup Unstored
      <4>1. heard'[i] = command.name \/ (i \in 1 .. Len(heard) /\ heard'[i] = heard[i])
        BY <1>1, <2>1, <2>2, <3>1, AppendLemma, Consts
      <4>2. QED
        BY <2>2, <4>1 DEF IInv, HeardIsStored, Unstored
    <3>2. QED
      BY <3>1 DEF HeardIsStored
  <2>5. TypeOK' /\ Commanded' /\ BehindIsSettled'
    BY <1>1, <1>2, <1>3, <2>1, <2>2, <2>3 DEF IInv, TypeOK, Told, Commanded, BehindIsSettled
  <2>6. QED
    BY <2>4, <2>5 DEF IInv
<1>5. CASE ~(command.to = Autopilot /\ command.kind = "set")
  <2>1. stored' = stored /\ heard' = heard
    BY <1>5 DEF AutopilotActs
  <2>2. QED
    BY <1>1, <1>2, <1>3, <2>1 DEF IInv, TypeOK, Commanded, HeardIsStored, BehindIsSettled
<1>6. QED
  BY <1>4, <1>5

THEOREM Invariance == Spec => []IInv
<1>1. IInv /\ [Next]_vars => IInv'
  <2> SUFFICES ASSUME IInv, [Next]_vars PROVE IInv'
    OBVIOUS
  <2>1. CASE UNCHANGED vars
    BY <2>1 DEF vars, script, autopilot, IInv, TypeOK, Commanded, HeardIsStored, BehindIsSettled
  <2>2. QED
    BY <2>1, WaitingStep, SendStep, ConfirmStep, GiveUpStep, AnswerGone, CommandGone,
       AutopilotStep, AnnounceStep DEF Next, Script
<1>2. QED
  BY IInvInit, <1>1, PTL DEF Spec

(* Script, autopilot and queues keep their types, for every number of      *)
(* parameters and attempts and every system whose heartbeat may be heard   *)
(* first.                                                                  *)
THEOREM TypeCorrect == Spec => []TypeOK
<1>1. IInv => TypeOK
  BY DEF IInv
<1>2. QED
  BY <1>1, Invariance, PTL

(* "Pixhawk configured!" is true, whatever is lost or late                 *)
(* (configure_pixhawk.py:54-73): every parameter was stored as asked or    *)
(* reported, but for those the autopilot answers for and keeps as they are *)
(* and those told by a PARAM_VALUE that no command asked for.              *)
THEOREM DoneIsSettled == Spec => []SettledWhenDone
<1>1. IInv => SettledWhenDone
  BY DEF IInv, BehindIsSettled, SettledWhenDone
<1>2. QED
  BY <1>1, Invariance, PTL

(* With an autopilot that stores what it is told, and none of the          *)
(* parameters told unasked, the script's report is true: an answer that    *)
(* comes late, or to an earlier attempt, confirms a parameter only if it   *)
(* is stored.                                                              *)
THEOREM ReportTrue == Fixed = {} /\ Unasked \cap Names = {} /\ Spec => []ReportIsTrue
<1> SUFFICES ASSUME Fixed = {}, Unasked \cap Names = {} PROVE Spec => []ReportIsTrue
  OBVIOUS
<1>1. SettledWhenDone => ReportIsTrue
  BY DEF SettledWhenDone, ReportIsTrue, Unstored
<1>2. QED
  BY <1>1, DoneIsSettled, PTL

(* Whatever the autopilot keeps as it is: with none of the parameters told *)
(* unasked, "confirmed" stands for an answer to the script.                *)
THEOREM AnswersConfirm == Unasked \cap Names = {} /\ Spec => []ConfirmedByAnswer
<1> SUFFICES ASSUME Unasked \cap Names = {} PROVE Spec => []ConfirmedByAnswer
  OBVIOUS
<1>1. SettledWhenDone => ConfirmedByAnswer
  BY DEF SettledWhenDone, ConfirmedByAnswer, Unstored
<1>2. QED
  BY <1>1, DoneIsSettled, PTL
----
LEMMA EffectInit == Init => EffectInv
BY Consts DEF Init, EffectInv, ToTarget, OnlyAutopilotAnswers, AllUnasked, RebootIsLast,
              RebootWorks, LossesKept

(* What is lost stays lost.                                                *)
LEMMA LossesGrow ==
    ASSUME LossesKept, NEW kind \in {"set", "reboot", "answer"}, lost' = Append(lost, kind)
    PROVE  LossesKept' /\ (RebootLost \/ kind = "reboot" => RebootLost')
<1>1. /\ lost' \in Seq({"set", "reboot", "answer"}) /\ Len(lost) \in Nat
      /\ Len(lost') = Len(lost) + 1 /\ lost'[Len(lost) + 1] = kind
      /\ \A i \in 1 .. Len(lost) : lost'[i] = lost[i]
  BY AppendLemma DEF LossesKept
<1>2. QED
  BY <1>1 DEF LossesKept, RebootLost

(* A command leaves the queue, and it is not the reboot.                   *)
LEMMA QueueMoves ==
    ASSUME Commanded, ToTarget, RebootIsLast, sent # <<>>, sent' = Tail(sent),
           at' = at, target' = target
    PROVE  /\ Head(sent) \in ScriptCommand /\ Head(sent).to = target
           /\ ToTarget' /\ RebootIsLast'
           /\ Head(sent).kind = "reboot" => at = "done"
           /\ Head(sent).kind # "reboot" /\ sent[Len(sent)].kind = "reboot" =>
                 sent' # <<>> /\ sent'[Len(sent')].kind = "reboot"
<1>1. /\ sent \in Seq(ScriptCommand) /\ Head(sent) \in ScriptCommand /\ Head(sent) = sent[1]
      /\ 1 \in 1 .. Len(sent) /\ Len(sent) \in Nat
      /\ sent' \in Seq(ScriptCommand) /\ Len(sent') = Len(sent) - 1
      /\ \A i \in 1 .. Len(sent') : i + 1 \in 1 .. Len(sent) /\ sent'[i] = sent[i + 1]
  BY TailLemma DEF Commanded
<1>2. ToTarget'
  BY <1>1 DEF ToTarget
<1>3. RebootIsLast'
  <2>1. SUFFICES ASSUME NEW i \in 1 .. Len(sent'), sent'[i].kind = "reboot"
                 PROVE  at' = "done" /\ i = Len(sent')
    BY DEF RebootIsLast
  <2>2. i + 1 \in 1 .. Len(sent) /\ sent[i + 1].kind = "reboot"
    BY <1>1, <2>1
  <2>3. at = "done" /\ i + 1 = Len(sent)
    BY <2>2 DEF RebootIsLast
  <2>4. i \in Int
    BY <2>1
  <2>5. Len(sent) \in Int /\ Len(sent') = Len(sent) - 1
    BY <1>1
  <2>6. i = Len(sent')
    BY <2>3, <2>4, <2>5
  <2>7. QED
    BY <2>3, <2>6
<1>4. ASSUME Head(sent).kind # "reboot", sent[Len(sent)].kind = "reboot"
      PROVE  sent' # <<>> /\ sent'[Len(sent')].kind = "reboot"
  <2>1. Len(sent) # 1
    BY <1>1, <1>4
  <2>2. Len(sent') \in 1 .. Len(sent')
    BY <1>1, <2>1
  <2>3. sent'[Len(sent')] = sent[Len(sent)]
    BY <1>1, <2>2
  <2>4. QED
    BY <1>4, <2>2, <2>3
<1>5. Head(sent).to = target /\ (Head(sent).kind = "reboot" => at = "done")
  BY <1>1 DEF ToTarget, RebootIsLast
<1>6. QED
  BY <1>1, <1>2, <1>3, <1>4, <1>5

LEMMA EffectOfWaiting ==
    ASSUME IInv, EffectInv,
           \/ \E id \in Systems : HeartbeatHeard(id)
           \/ NoHeartbeat \/ Retry \/ Tick
    PROVE  EffectInv'
<1>1. /\ UNCHANGED <<param, warned, stored, active, sent, lost>>
      /\ heard' = heard \/ (heard # <<>> /\ heard' = Tail(heard))
  BY DEF HeartbeatHeard, NoHeartbeat, Retry, TimeUp, Tick, autopilot
<1>heard. AllUnasked(heard) => AllUnasked(heard')
  BY <1>1, HeardKept
<1>2. LossesKept'
  BY <1>1 DEF EffectInv, LossesKept
<1>3. CASE target' = target /\ at' # "done" /\ at' # "reboot"
           /\ (at' = "connect" => at = "connect") /\ at # "done"
  BY <1>1, <1>heard, <1>2, <1>3
     DEF EffectInv, ToTarget, OnlyAutopilotAnswers, RebootIsLast, RebootWorks
<1>4. ASSUME NEW id \in Systems, HeartbeatHeard(id) PROVE EffectInv'
  <2>1. at = "connect" /\ at' = "set" /\ target = 0 /\ sent = <<>>
    BY <1>4 DEF HeartbeatHeard, EffectInv, ToTarget
  <2>2. target # Autopilot
    BY <2>1, ConfigureAssumption
  <2>3. QED
    BY <1>1, <1>heard, <1>2, <2>1, <2>2
       DEF EffectInv, ToTarget, OnlyAutopilotAnswers, RebootIsLast, RebootWorks
<1>5. NoHeartbeat \/ Retry \/ Tick =>
        /\ target' = target /\ at' # "done" /\ at' # "reboot"
        /\ (at' = "connect" => at = "connect") /\ at # "done"
  BY DEF NoHeartbeat, Retry, TimeUp, Tick
<1>6. QED
  BY <1>3, <1>4, <1>5

LEMMA EffectOfSending ==
    ASSUME IInv, EffectInv, SetParam \/ Reboot
    PROVE  EffectInv'
<1>1. PICK command \in ScriptCommand :
        /\ sent' = Append(sent, command) /\ command.to = target
        /\ command.kind = "reboot" <=> at' = "done"
        /\ \/ at = "set" /\ at' = "wait"
           \/ at = "reboot" /\ at' = "done"
        /\ UNCHANGED <<target, param, warned, stored, active, heard, lost>>
  <2>1. CASE SetParam
    <3>1. [kind |-> "set", to |-> target, name |-> param] \in ScriptCommand
      BY DEF IInv, TypeOK, ScriptCommand
    <3>2. QED
      BY <2>1, <3>1 DEF SetParam, autopilot
  <2>2. CASE Reboot
    <3>1. [kind |-> "reboot", to |-> target, name |-> 0] \in ScriptCommand
      BY DEF IInv, TypeOK, ScriptCommand
    <3>2. QED
      BY <2>2, <3>1 DEF Reboot, autopilot
  <2>3. QED
    BY <2>1, <2>2
<1>2. /\ sent \in Seq(ScriptCommand) /\ Len(sent) \in Nat
      /\ sent' \in Seq(ScriptCommand) /\ sent' # <<>>
      /\ Len(sent') = Len(sent) + 1 /\ sent'[Len(sent')] = command
      /\ \A i \in 1 .. Len(sent) : sent'[i] = sent[i]
  BY <1>1, AppendLemma DEF IInv, Commanded
<1>3. ToTarget'
  BY <1>1, <1>2 DEF EffectInv, ToTarget
<1>4. RebootIsLast'
  <2>1. ASSUME NEW i \in 1 .. Len(sent), sent'[i].kind = "reboot" PROVE FALSE
    BY <1>1, <1>2, <2>1 DEF EffectInv, RebootIsLast
  <2>2. \A i \in 1 .. Len(sent') : i \in 1 .. Len(sent) \/ i = Len(sent')
    BY <1>2
  <2>3. QED
    BY <1>1, <1>2, <2>1, <2>2 DEF RebootIsLast
<1>5. OnlyAutopilotAnswers' /\ LossesKept'
  BY <1>1 DEF EffectInv, OnlyAutopilotAnswers, LossesKept
<1>6. RebootWorks'
  BY <1>1, <1>2 DEF RebootWorks
<1>7. QED
  BY <1>3, <1>4, <1>5, <1>6 DEF EffectInv

(* With another target, a parameter left behind is reported, or was told   *)
(* unasked.                                                                *)
LEMMA OtherTargetStep ==
    ASSUME IInv, OnlyAutopilotAnswers, target # Autopilot, NextParam,
           param \in Unasked \cup warned', warned \subseteq warned'
    PROVE  /\ \A n \in Names : n < param' => n \in Unasked \cup warned'
           /\ at' = "reboot" => Names \subseteq Unasked \cup warned'
<1>1. param \in Names /\ \A n \in Names : n < param => n \in Unasked \cup warned
  BY DEF IInv, TypeOK, OnlyAutopilotAnswers
<1>2. \A n \in Names : n < param + 1 => n \in Unasked \cup warned'
  <2>1. \A n \in Names : n < param + 1 => n = param \/ n < param
    BY <1>1, Consts
  <2>2. QED
    BY <1>1, <2>1
<1>3. CASE param = Params
  <2>1. \A n \in Names : n < param + 1
    BY <1>3, Consts
  <2>2. param' = param
    BY <1>3 DEF NextParam
  <2>3. QED
    BY <1>1, <1>2, <2>1, <2>2
<1>4. CASE param # Params
  BY <1>2, <1>4 DEF NextParam
<1>5. QED
  BY <1>3, <1>4

(* An answer can only come from the autopilot itself; the rest is unasked. *)
LEMMA EffectOfAnswers ==
    ASSUME IInv, EffectInv, Confirm \/ Ignore \/ LoseAnswer
    PROVE  EffectInv'
<1>1. /\ heard # <<>> /\ heard' = Tail(heard)
      /\ UNCHANGED <<target, warned, stored, active, sent>>
  BY DEF Confirm, Ignore, LoseAnswer, Answers, script, autopilot
<1>2. LossesKept' /\ (RebootLost => RebootLost')
  <2>1. lost' = lost \/ lost' = Append(lost, "answer")
    BY DEF Confirm, Ignore, LoseAnswer
  <2>2. QED
    BY <2>1, LossesGrow DEF EffectInv, LossesKept, RebootLost
<1>3. at' = at \/ (at = "wait" /\ at' \in {"reboot", "set"})
  BY DEF Confirm, Ignore, LoseAnswer, NextParam, script
<1>4. ToTarget' /\ RebootIsLast'
  BY <1>1, <1>3 DEF EffectInv, ToTarget, RebootIsLast
<1>5. RebootWorks'
  BY <1>1, <1>2, <1>3 DEF EffectInv, RebootWorks, InEffect
<1>6. ASSUME target # Autopilot
      PROVE  /\ AllUnasked(heard')
             /\ \A n \in Names : n < param' => n \in Unasked \cup warned'
             /\ at' \in {"reboot", "done"} => Names \subseteq Unasked \cup warned'
  <2>1. AllUnasked(heard) /\ AllUnasked(heard')
    BY <1>1, <1>6, HeardKept DEF EffectInv, OnlyAutopilotAnswers
  <2>2. CASE Confirm
    <3>1. Head(heard) = heard[1] /\ 1 \in 1 .. Len(heard)
      BY <1>1, TailLemma DEF IInv, TypeOK
    <3>2. param \in Unasked
      BY <2>1, <2>2, <3>1 DEF Confirm, Answers, AllUnasked
    <3>3. NextParam /\ at' \in {"reboot", "set"}
      BY <2>2 DEF Confirm, NextParam
    <3>4. QED
      BY <1>1, <1>6, <2>1, <3>2, <3>3, OtherTargetStep DEF EffectInv
  <2>3. CASE Ignore \/ LoseAnswer
    BY <1>1, <1>6, <2>1, <2>3 DEF Ignore, LoseAnswer, script, EffectInv, OnlyAutopilotAnswers
  <2>4. QED
    BY <2>2, <2>3
<1>7. OnlyAutopilotAnswers'
  BY <1>1, <1>6 DEF OnlyAutopilotAnswers
<1>8. QED
  BY <1>2, <1>4, <1>5, <1>7 DEF EffectInv

LEMMA EffectOfAnnouncing ==
    ASSUME IInv, EffectInv, NEW name \in Unasked, Announce(name)
    PROVE  EffectInv'
<1>1. /\ heard' = Append(heard, name) /\ name \in Told
      /\ UNCHANGED <<at, target, param, warned, stored, active, sent, lost>>
  BY Consts DEF Announce, script, autopilot
<1>2. \A i \in 1 .. Len(heard') :
         heard'[i] = name \/ (i \in 1 .. Len(heard) /\ heard'[i] = heard[i])
  BY <1>1, AppendLemma DEF IInv, TypeOK, Told
<1>3. OnlyAutopilotAnswers'
  BY <1>1, <1>2 DEF EffectInv, OnlyAutopilotAnswers, AllUnasked
<1>4. QED
  BY <1>1, <1>3 DEF EffectInv, ToTarget, RebootIsLast, RebootWorks, RebootLost, InEffect,
                    LossesKept

LEMMA EffectOfGivingUp ==
    ASSUME IInv, EffectInv, GiveUp
    PROVE  EffectInv'
<1>1. /\ at = "wait" /\ warned' = warned \cup {param} /\ NextParam
      /\ UNCHANGED <<target, stored, active, sent, lost>>
      /\ heard' = heard \/ (heard # <<>> /\ heard' = Tail(heard))
  BY DEF GiveUp, TimeUp, autopilot
<1>2. at' \in {"reboot", "set"}
  BY <1>1 DEF NextParam
<1>3. ToTarget' /\ RebootIsLast' /\ RebootWorks' /\ LossesKept'
  BY <1>1, <1>2 DEF EffectInv, ToTarget, RebootIsLast, RebootWorks, LossesKept
<1>4. ASSUME target # Autopilot
      PROVE  /\ \A n \in Names : n < param' => n \in Unasked \cup warned'
             /\ at' = "reboot" => Names \subseteq Unasked \cup warned'
  BY <1>1, <1>4, OtherTargetStep DEF EffectInv
<1>5. OnlyAutopilotAnswers'
  BY <1>1, <1>2, <1>4, HeardKept DEF EffectInv, OnlyAutopilotAnswers
<1>6. QED
  BY <1>3, <1>5 DEF EffectInv

LEMMA EffectOfLosing ==
    ASSUME IInv, EffectInv, LoseCommand
    PROVE  EffectInv'
<1>1. /\ sent # <<>> /\ sent' = Tail(sent) /\ lost' = Append(lost, Head(sent).kind)
      /\ UNCHANGED <<at, target, param, warned, stored, active, heard>>
  BY DEF LoseCommand, script, autopilot
<1>2. /\ Head(sent) \in ScriptCommand /\ ToTarget' /\ RebootIsLast'
      /\ Head(sent).kind # "reboot" /\ sent[Len(sent)].kind = "reboot" =>
            sent' # <<>> /\ sent'[Len(sent')].kind = "reboot"
  BY <1>1, QueueMoves DEF IInv, EffectInv
<1>3. Head(sent).kind \in {"set", "reboot", "answer"}
  BY <1>2 DEF ScriptCommand
<1>4. LossesKept' /\ (RebootLost \/ Head(sent).kind = "reboot" => RebootLost')
  BY <1>1, <1>3, LossesGrow DEF EffectInv
<1>5. RebootWorks' /\ OnlyAutopilotAnswers'
  BY <1>1, <1>2, <1>4 DEF EffectInv, RebootWorks, InEffect, OnlyAutopilotAnswers
<1>6. QED
  BY <1>2, <1>4, <1>5 DEF EffectInv

(* The reboot finds every parameter set before it stored or reported.      *)
LEMMA EffectOfActing ==
    ASSUME IInv, EffectInv, AutopilotActs
    PROVE  EffectInv'
<1> DEFINE command == Head(sent)
<1>1. /\ sent # <<>> /\ sent' = Tail(sent)
      /\ UNCHANGED <<at, target, param, warned, lost>>
  BY DEF AutopilotActs, script
<1>2. /\ command \in ScriptCommand /\ command.to = target /\ ToTarget' /\ RebootIsLast'
      /\ command.kind = "reboot" => at = "done"
      /\ command.kind # "reboot" /\ sent[Len(sent)].kind = "reboot" =>
            sent' # <<>> /\ sent'[Len(sent')].kind = "reboot"
  BY <1>1, QueueMoves DEF IInv, EffectInv
<1>3. target # Autopilot => heard' = heard
  BY <1>2 DEF AutopilotActs
<1>4. OnlyAutopilotAnswers' /\ LossesKept'
  BY <1>1, <1>3 DEF EffectInv, OnlyAutopilotAnswers, LossesKept
<1>5. RebootWorks'
  <2>1. CASE command.kind = "reboot" /\ target = Autopilot
    <3>1. active' = stored
      BY <1>2, <2>1 DEF AutopilotActs
    <3>2. Names \subseteq stored \cup Unstored \cup warned
      BY <1>2, <2>1 DEF IInv, BehindIsSettled
    <3>3. QED
      BY <1>1, <3>1, <3>2 DEF RebootWorks, InEffect
  <2>2. CASE command.kind = "reboot" /\ target # Autopilot
    <3>1. Names \subseteq Unasked \cup warned
      BY <1>2, <2>2 DEF EffectInv, OnlyAutopilotAnswers
    <3>2. QED
      BY <1>1, <3>1 DEF RebootWorks, InEffect, Unstored
  <2>3. CASE command.kind # "reboot"
    <3>1. active' = active
      BY <2>3 DEF AutopilotActs
    <3>2. QED
      BY <1>1, <1>2, <2>3, <3>1 DEF EffectInv, RebootWorks, InEffect, RebootLost
  <2>4. QED
    BY <2>1, <2>2, <2>3
<1>6. QED
  BY <1>2, <1>4, <1>5 DEF EffectInv

(* What the script did not warn about takes effect (configure_pixhawk.py:  *)
(* 54-80): once no command is under way, either the reboot was lost or the *)
(* autopilot runs with every parameter that was neither reported, nor one  *)
(* it keeps as it is, nor told unasked; also when another system was heard *)
(* first and configured in its place.                                      *)
THEOREM Effective == Spec => []EffectWhenSettled
<1>1. IInv /\ EffectInv /\ [Next]_vars => EffectInv'
  <2> SUFFICES ASSUME IInv, EffectInv, [Next]_vars PROVE EffectInv'
    OBVIOUS
  <2>1. CASE UNCHANGED vars
    BY <2>1 DEF vars, script, autopilot, EffectInv, ToTarget, OnlyAutopilotAnswers,
                AllUnasked, RebootIsLast, RebootWorks, RebootLost, InEffect, LossesKept
  <2>2. QED
    BY <2>1, EffectOfWaiting, EffectOfSending, EffectOfAnswers, EffectOfGivingUp,
       EffectOfLosing, EffectOfActing, EffectOfAnnouncing DEF Next, Script
<1>2. EffectInv => EffectWhenSettled
  BY DEF EffectInv, RebootWorks, EffectWhenSettled
<1>3. QED
  BY EffectInit, Invariance, <1>1, <1>2, PTL DEF Spec
----
(* The bridge.                                                             *)

Message == [kind : Kinds \cup OtherKinds, system : Senders]
Packed(m) == KestrelSend(m.kind, m.system)
Packet == {Packed(m) : m \in Message}

(* Messages in the receive queue are the last ones that arrived.           *)
QueueIsRest ==
    /\ arrived \in Seq(Message) /\ from_pixhawk \in Seq(Message)
    /\ relayed \in Seq(Packet)
    /\ Len(from_pixhawk) =< Len(arrived)
    /\ \A i \in 1 .. Len(from_pixhawk) :
          from_pixhawk[i] = arrived[Len(arrived) - Len(from_pixhawk) + i]

Wanted == {n \in 1 .. Len(arrived) : arrived[n].kind \in Kinds}
Read == Len(arrived) - Len(from_pixhawk)

(* Where the relayed messages are among those that arrived.                *)
IsPlace(place) ==
    /\ place \in [1 .. Len(relayed) -> Wanted]
    /\ \A i \in 1 .. Len(relayed) : relayed[i] = Packed(arrived[place[i]])
    /\ \A i, j \in 1 .. Len(relayed) : i < j => place[i] < place[j]
    /\ \A n \in Wanted : n =< Read <=> \E i \in 1 .. Len(relayed) : place[i] = n

RelayInv == QueueIsRest /\ \E place : IsPlace(place)

LEMMA PlacesMeanFaithful == RelayedFaithfully <=> \E place : IsPlace(place)
BY DEF RelayedFaithfully, IsPlace, Wanted, Read, Packed

(* A message that arrives is behind all that were read.                    *)
LEMMA ArrivalStep ==
    ASSUME RelayInv, NEW kind \in Kinds \cup OtherKinds, NEW s \in Senders,
           PixhawkSends(kind, s)
    PROVE  RelayInv'
<1>1. PICK m : m = [kind |-> kind, system |-> s]
  OBVIOUS
<1>2. m \in Message
  BY <1>1 DEF Message
<1>3. /\ arrived' = Append(arrived, m) /\ from_pixhawk' = Append(from_pixhawk, m)
      /\ relayed' = relayed
  BY <1>1 DEF PixhawkSends
<1>4. QueueIsRest'
  <2>1. /\ arrived \in Seq(Message) /\ from_pixhawk \in Seq(Message)
        /\ relayed \in Seq(Packet) /\ Len(from_pixhawk) =< Len(arrived)
        /\ Len(arrived) \in Nat /\ Len(from_pixhawk) \in Nat
    BY LenProperties DEF RelayInv, QueueIsRest
  <2>2. /\ arrived' \in Seq(Message) /\ Len(arrived') = Len(arrived) + 1
        /\ arrived'[Len(arrived) + 1] = m
        /\ \A i \in 1 .. Len(arrived) : arrived'[i] = arrived[i]
    BY <1>2, <1>3, <2>1, AppendLemma
  <2>3. /\ from_pixhawk' \in Seq(Message) /\ Len(from_pixhawk') = Len(from_pixhawk) + 1
        /\ from_pixhawk'[Len(from_pixhawk) + 1] = m
        /\ \A i \in 1 .. Len(from_pixhawk) : from_pixhawk'[i] = from_pixhawk[i]
    BY <1>2, <1>3, <2>1, AppendLemma
  <2>4. ASSUME NEW i \in 1 .. Len(from_pixhawk')
        PROVE  from_pixhawk'[i] = arrived'[Len(arrived') - Len(from_pixhawk') + i]
    <3>1. CASE i = Len(from_pixhawk) + 1
      <4>1. Len(arrived') - Len(from_pixhawk') + i = Len(arrived) + 1
        BY <2>1, <2>2, <2>3, <3>1
      <4>2. QED
        BY <2>2, <2>3, <3>1, <4>1
    <3>2. CASE i # Len(from_pixhawk) + 1
      <4>1. i \in 1 .. Len(from_pixhawk)
        BY <2>1, <2>3, <2>4, <3>2
      <4>2. /\ Len(arrived') - Len(from_pixhawk') + i = Len(arrived) - Len(from_pixhawk) + i
            /\ Len(arrived) - Len(from_pixhawk) + i \in 1 .. Len(arrived)
        BY <2>1, <2>2, <2>3, <4>1
      <4>3. from_pixhawk[i] = arrived[Len(arrived) - Len(from_pixhawk) + i]
        BY <4>1 DEF RelayInv, QueueIsRest
      <4>4. QED
        BY <2>2, <2>3, <4>1, <4>2, <4>3
    <3>3. QED
      BY <3>1, <3>2
  <2>5. relayed' \in Seq(Packet) /\ Len(from_pixhawk') =< Len(arrived')
    BY <1>3, <2>1, <2>2, <2>3
  <2>6. QED
    BY <2>2, <2>3, <2>4, <2>5 DEF QueueIsRest
<1>5. PICK place : IsPlace(place)
  BY DEF RelayInv
<1>6. /\ Read' = Read /\ Read \in Nat /\ Read =< Len(arrived)
      /\ Len(arrived) \in Nat /\ Len(arrived') = Len(arrived) + 1
      /\ \A n \in 1 .. Len(arrived) : arrived'[n] = arrived[n]
  BY <1>2, <1>3, AppendLemma DEF RelayInv, QueueIsRest, Read
<1>7. /\ Wanted \subseteq Wanted'
      /\ \A n \in Wanted' : n \in Wanted \/ (n = Len(arrived) + 1)
      /\ \A n \in Wanted : n \in 1 .. Len(arrived)
  BY <1>6 DEF Wanted
<1>8. IsPlace(place)'
  <2>1. place \in [1 .. Len(relayed') -> Wanted']
    BY <1>3, <1>5, <1>7 DEF IsPlace
  <2>2. \A i \in 1 .. Len(relayed') : relayed'[i] = Packed(arrived'[place[i]])
    BY <1>3, <1>5, <1>6, <1>7 DEF IsPlace
  <2>3. \A n \in Wanted' : n =< Read' <=> \E i \in 1 .. Len(relayed') : place[i] = n
    <3>1. SUFFICES ASSUME NEW n \in Wanted'
                   PROVE  n =< Read <=> \E i \in 1 .. Len(relayed) : place[i] = n
      BY <1>3, <1>6
    <3>2. CASE n \in Wanted
      BY <1>5, <3>2 DEF IsPlace
    <3>3. CASE n = Len(arrived) + 1
      <4>1. ~(n =< Read)
        BY <1>6, <3>3
      <4>2. \A i \in 1 .. Len(relayed) : place[i] \in 1 .. Len(arrived)
        BY <1>5, <1>7 DEF IsPlace
      <4>3. \A i \in 1 .. Len(relayed) : place[i] # n
        BY <1>6, <3>3, <4>2
      <4>4. QED
        BY <4>1, <4>3
    <3>4. QED
      BY <1>7, <3>2, <3>3
  <2>4. QED
    BY <1>3, <1>5, <2>1, <2>2, <2>3 DEF IsPlace
<1>9. QED
  BY <1>4, <1>8 DEF RelayInv

(* The message read is relayed behind the others, or is not wanted.        *)
LEMMA TranslateStep ==
    ASSUME RelayInv, Translate PROVE RelayInv'
<1>1. PICK m : m = Head(from_pixhawk)
  OBVIOUS
<1>2. /\ from_pixhawk # <<>> /\ from_pixhawk' = Tail(from_pixhawk) /\ arrived' = arrived
      /\ relayed' = IF m.kind \in Kinds THEN Append(relayed, Packed(m)) ELSE relayed
  BY <1>1 DEF Translate, Packed
<1>3. /\ m \in Message /\ m = from_pixhawk[1] /\ 1 \in 1 .. Len(from_pixhawk)
      /\ from_pixhawk' \in Seq(Message) /\ Len(from_pixhawk) \in Nat
      /\ Len(from_pixhawk') = Len(from_pixhawk) - 1
      /\ \A i \in 1 .. Len(from_pixhawk') :
            i + 1 \in 1 .. Len(from_pixhawk) /\ from_pixhawk'[i] = from_pixhawk[i + 1]
  BY <1>1, <1>2, TailLemma DEF RelayInv, QueueIsRest
<1>4. /\ arrived \in Seq(Message) /\ relayed \in Seq(Packet)
      /\ Len(arrived) \in Nat /\ Len(relayed) \in Nat
  BY LenProperties DEF RelayInv, QueueIsRest
<1>5. /\ Read \in Nat /\ Read' = Read + 1 /\ Read + 1 =< Len(arrived)
      /\ m = arrived[Read + 1] /\ Wanted' = Wanted
  BY <1>2, <1>3, <1>4 DEF RelayInv, QueueIsRest, Read, Wanted
<1>6. QueueIsRest'
  <2>1. relayed' \in Seq(Packet)
    <3>1. Packed(m) \in Packet
      BY <1>3 DEF Packet
    <3>2. QED
      BY <1>2, <1>4, <3>1, AppendLemma
  <2>2. \A i \in 1 .. Len(from_pixhawk') :
           from_pixhawk'[i] = arrived'[Len(arrived') - Len(from_pixhawk') + i]
    <3>1. SUFFICES ASSUME NEW i \in 1 .. Len(from_pixhawk')
                   PROVE  from_pixhawk'[i] = arrived[Len(arrived) - Len(from_pixhawk') + i]
      BY <1>2
    <3>2. from_pixhawk[i + 1] = arrived[Len(arrived) - Len(from_pixhawk) + (i + 1)]
      BY <1>3, <3>1 DEF RelayInv, QueueIsRest
    <3>3. Len(arrived) - Len(from_pixhawk) + (i + 1) = Len(arrived) - Len(from_pixhawk') + i
      BY <1>3, <1>4, <3>1
    <3>4. QED
      BY <1>3, <3>1, <3>2, <3>3
  <2>3. QED
    BY <1>2, <1>3, <1>4, <2>1, <2>2 DEF RelayInv, QueueIsRest
<1>7. PICK place : IsPlace(place)
  BY DEF RelayInv
<1>8. CASE m.kind \in Kinds
  <2>1. PICK k : k = Len(relayed) + 1
    OBVIOUS
  <2>2. /\ k \in Nat /\ k \in 1 .. k /\ Len(relayed') = k /\ relayed'[k] = Packed(m)
        /\ \A i \in 1 .. k - 1 : relayed'[i] = relayed[i] /\ i \in 1 .. Len(relayed)
        /\ 1 .. Len(relayed) = 1 .. k - 1
    <3>1. Packed(m) \in Packet
      BY <1>3 DEF Packet
    <3>2. QED
      BY <1>2, <1>4, <1>8, <2>1, <3>1, AppendLemma
  <2>3. Read + 1 \in Wanted
    BY <1>4, <1>5, <1>8 DEF Wanted
  <2>4. PICK next : next = [i \in 1 .. k |-> IF i = k THEN Read + 1 ELSE place[i]]
    OBVIOUS
  <2>5. /\ next[k] = Read + 1
        /\ \A i \in 1 .. k - 1 : next[i] = place[i] /\ place[i] \in Wanted
    <3>1. \A i \in 1 .. k - 1 : i \in 1 .. k /\ i # k
      BY <2>2
    <3>2. \A i \in 1 .. k - 1 : place[i] \in Wanted
      BY <1>7, <2>2 DEF IsPlace
    <3>3. QED
      BY <2>2, <2>4, <3>1, <3>2
  <2>6. \A i \in 1 .. k : i = k \/ i \in 1 .. k - 1
    BY <2>2
  <2>7. next \in [1 .. k -> Wanted]
    <3>1. \A i \in 1 .. k : next[i] \in Wanted
      BY <2>3, <2>5, <2>6
    <3>2. QED
      BY <2>4, <3>1
  <2>8. \A i \in 1 .. k - 1 : place[i] =< Read /\ place[i] \in Nat
    <3>1. \A i \in 1 .. k - 1 : place[i] =< Read
      BY <1>7, <2>2, <2>5 DEF IsPlace
    <3>2. \A n \in Wanted : n \in Nat
      BY <1>4 DEF Wanted
    <3>3. QED
      BY <2>5, <3>1, <3>2
  <2>9. \A i \in 1 .. k : relayed'[i] = Packed(arrived[next[i]])
    BY <1>5, <1>7, <2>2, <2>5, <2>6 DEF IsPlace
  <2>10. \A i, j \in 1 .. k : i < j => next[i] < next[j]
    <3>1. SUFFICES ASSUME NEW i \in 1 .. k, NEW j \in 1 .. k, i < j PROVE next[i] < next[j]
      OBVIOUS
    <3>2. i \in 1 .. k - 1
      BY <2>2, <3>1
    <3>3. CASE j = k
      BY <1>5, <2>5, <2>8, <3>2, <3>3
    <3>4. CASE j \in 1 .. k - 1
      BY <1>7, <2>2, <2>5, <3>1, <3>2, <3>4 DEF IsPlace
    <3>5. QED
      BY <2>6, <3>1, <3>3, <3>4
  <2>11. \A n \in Wanted : n =< Read + 1 <=> \E i \in 1 .. k : next[i] = n
    <3>1. SUFFICES ASSUME NEW n \in Wanted
                   PROVE  n =< Read + 1 <=> \E i \in 1 .. k : next[i] = n
      OBVIOUS
    <3>2. n \in Nat /\ k \in 1 .. k
      <4>1. n \in 1 .. Len(arrived)
        BY <3>1 DEF Wanted
      <4>2. QED
        BY <1>4, <2>2, <4>1
    <3>3. n =< Read <=> \E i \in 1 .. k - 1 : place[i] = n
      BY <1>7, <2>2, <3>1 DEF IsPlace
    <3>4. (\E i \in 1 .. k : next[i] = n) <=> (n = Read + 1 \/ \E i \in 1 .. k - 1 : place[i] = n)
      <4>1. next[k] = Read + 1 /\ \A i \in 1 .. k - 1 : i \in 1 .. k /\ next[i] = place[i]
        BY <2>2, <2>5
      <4>2. QED
        BY <2>6, <3>2, <4>1
    <3>5. QED
      BY <1>5, <3>2, <3>3, <3>4
  <2>12. IsPlace(next)'
    BY <1>2, <1>5, <2>2, <2>7, <2>9, <2>10, <2>11 DEF IsPlace
  <2>13. QED
    BY <1>6, <2>12 DEF RelayInv
<1>9. CASE m.kind \notin Kinds
  <2>1. relayed' = relayed /\ Read + 1 \notin Wanted
    BY <1>2, <1>5, <1>9 DEF Wanted
  <2>2. \A n \in Wanted : n =< Read + 1 <=> n =< Read
    BY <1>5, <2>1 DEF Wanted
  <2>3. IsPlace(place)'
    BY <1>2, <1>5, <1>7, <2>1, <2>2 DEF IsPlace
  <2>4. QED
    BY <1>6, <2>3 DEF RelayInv
<1>10. QED
  BY <1>8, <1>9

LEMMA RelayInit == BridgeInit => RelayInv
<1>1. SUFFICES ASSUME BridgeInit PROVE RelayInv
  OBVIOUS
<1>2. arrived = <<>> /\ from_pixhawk = <<>> /\ relayed = <<>>
  BY <1>1 DEF BridgeInit
<1>3. QueueIsRest
  BY <1>2 DEF QueueIsRest
<1>4. Wanted = {} /\ 1 .. Len(relayed) = {}
  BY <1>2 DEF Wanted
<1>5. PICK place : place = [i \in 1 .. Len(relayed) |-> 0]
  OBVIOUS
<1>6. IsPlace(place)
  BY <1>4, <1>5 DEF IsPlace
<1>7. QED
  BY <1>3, <1>6 DEF RelayInv

LEMMA RelayStep == RelayInv /\ [BridgeNext]_bridge_vars => RelayInv'
<1>1. SUFFICES ASSUME RelayInv, [BridgeNext]_bridge_vars PROVE RelayInv'
  OBVIOUS
<1>2. ASSUME UNCHANGED <<arrived, from_pixhawk, relayed>> PROVE RelayInv'
  BY <1>1, <1>2 DEF RelayInv, QueueIsRest, IsPlace, Wanted, Read
<1>3. CASE Beat \/ PixhawkDrained \/ Command \/ PcDrained
  BY <1>2, <1>3 DEF Beat, PixhawkDrained, Command, PcDrained
<1>4. CASE ClockTicks \/ (\E command \in Commands : PcSends(command))
  BY <1>2, <1>4 DEF ClockTicks, PcSends
<1>5. CASE UNCHANGED bridge_vars
  BY <1>2, <1>5 DEF bridge_vars
<1>6. QED
  BY <1>1, <1>3, <1>4, <1>5, ArrivalStep, TranslateStep DEF BridgeNext, Loop

(* kestrel_send gets every message of the autopilot it can translate once, *)
(* in order, and packs it under the ids of its own sender, of which the    *)
(* header keeps six and four bits (kestrel.c:206 and 210); what it has not *)
(* got waits in the port's queue (KestrelPixhawkBridge_USB.ino:154-205):   *)
(* whatever arrives while the loop is in whichever section.                *)
THEOREM RelayedInOrder == BridgeSpec => []RelayedFaithfully
<1>1. RelayInv => RelayedFaithfully
  BY PlacesMeanFaithful DEF RelayInv
<1>2. QED
  BY <1>1, RelayInit, RelayStep, PTL DEF BridgeSpec

(* The types of the queue and of the rest.                                 *)
QueueOfCommands == from_pc \in Seq(Commands)

BridgeInv == RelayInv /\ QueueOfCommands /\ BridgeTypeOK

LEMMA BridgeStarts == BridgeInit => BridgeInv
<1>1. SUFFICES ASSUME BridgeInit PROVE BridgeInv
  OBVIOUS
<1>2. system \in (0 .. 255) \X (0 .. 255)
  BY <1>1 DEF BridgeInit
<1>3. BridgeTypeOK
  BY <1>1, <1>2, BridgeAssumption DEF BridgeInit, BridgeTypeOK
<1>4. QED
  BY <1>1, <1>3, RelayInit DEF BridgeInv, QueueOfCommands, BridgeInit

LEMMA BridgeStep ==
    ASSUME BridgeInv, [BridgeNext]_bridge_vars
    PROVE  BridgeInv'
<1>1. RelayInv'
  BY RelayStep DEF BridgeInv
<1>2. ASSUME QueueOfCommands',
             /\ section' \in {"beat", "pixhawk", "pc"}
             /\ clock' \in 0 .. TimeMod - 1 /\ last_hb_time' \in 0 .. TimeMod - 1
             /\ spent' \in 0 .. LoopTime
             /\ system' \in (0 .. 255) \X (0 .. 255)
             /\ to_pixhawk' \in {"none", "heartbeat", "arm", "disarm"}
      PROVE  BridgeInv'
  <2>1. \A i \in 1 .. Len(from_pc') : from_pc'[i] \in Commands
    BY <1>2 DEF QueueOfCommands
  <2>2. QED
    BY <1>1, <1>2, <2>1 DEF BridgeInv, BridgeTypeOK
<1>3. /\ QueueOfCommands
      /\ section \in {"beat", "pixhawk", "pc"}
      /\ clock \in 0 .. TimeMod - 1 /\ last_hb_time \in 0 .. TimeMod - 1
      /\ spent \in 0 .. LoopTime /\ system \in (0 .. 255) \X (0 .. 255)
      /\ to_pixhawk \in {"none", "heartbeat", "arm", "disarm"}
      /\ TimeMod \in Nat \ {0} /\ LoopTime \in Nat
  BY BridgeAssumption DEF BridgeInv, BridgeTypeOK
<1>4. CASE Beat
  BY <1>2, <1>3, <1>4 DEF Beat, QueueOfCommands
<1>5. CASE Translate
  <2>1. Head(from_pixhawk).system \in (0 .. 255) \X (0 .. 255)
    <3>1. from_pixhawk \in Seq(Message) /\ from_pixhawk # <<>>
      BY <1>5 DEF BridgeInv, RelayInv, QueueIsRest, Translate
    <3>2. Head(from_pixhawk) \in Message
      BY <3>1, TailLemma
    <3>3. Head(from_pixhawk).system \in Senders
      BY <3>2 DEF Message
    <3>4. QED
      BY <3>3, BridgeAssumption DEF Senders
  <2>2. QED
    BY <1>2, <1>3, <1>5, <2>1 DEF Translate, QueueOfCommands
<1>6. CASE PixhawkDrained \/ PcDrained \/ UNCHANGED bridge_vars
  BY <1>2, <1>3, <1>6 DEF PixhawkDrained, PcDrained, bridge_vars, QueueOfCommands
<1>7. CASE Command
  <2>1. QueueOfCommands'
    BY <1>3, <1>7, TailLemma DEF QueueOfCommands, Command
  <2>2. to_pixhawk' \in {"none", "heartbeat", "arm", "disarm"}
    BY <1>3, <1>7 DEF Command, Commands, Translation
  <2>3. QED
    BY <1>2, <1>3, <1>7, <2>1, <2>2 DEF Command
<1>8. CASE ClockTicks
  <2>1. (clock + 1) % TimeMod \in 0 .. TimeMod - 1
    BY <1>3
  <2>2. spent + 1 \in 0 .. LoopTime
    BY <1>3, <1>8 DEF ClockTicks
  <2>3. QED
    BY <1>2, <1>3, <1>8, <2>1, <2>2 DEF ClockTicks, QueueOfCommands
<1>9. ASSUME NEW kind \in Kinds \cup OtherKinds, NEW s \in Senders,
             PixhawkSends(kind, s)
      PROVE  BridgeInv'
  BY <1>2, <1>3, <1>9 DEF PixhawkSends, QueueOfCommands
<1>10. ASSUME NEW command \in Commands, PcSends(command) PROVE BridgeInv'
  <2>1. QueueOfCommands'
    BY <1>3, <1>10, AppendLemma DEF QueueOfCommands, PcSends
  <2>2. QED
    BY <1>2, <1>3, <1>10, <2>1 DEF PcSends
<1>11. QED
  BY <1>4, <1>5, <1>6, <1>7, <1>8, <1>9, <1>10 DEF BridgeNext, Loop

(* Clock, queues and packets of the bridge have their types.               *)
THEOREM BridgeTypes == BridgeSpec => []BridgeTypeOK
<1>1. BridgeInv => BridgeTypeOK
  BY DEF BridgeInv
<1>2. QED
  BY <1>1, BridgeStarts, BridgeStep, PTL DEF BridgeSpec

(* Neither the second timer nor a command ever writes to the autopilot.    *)
PixhawkHearsNothing == to_pixhawk = "none"

(* The second timer finds last_hb_time just set, or not due like the first.*)
LEMMA SecondTimerNeverDue ==
    ASSUME BridgeTypeOK, Beat
    PROVE  to_pixhawk' = "none"
<1>1. clock \in Nat /\ TimeMod \in Nat \ {0} /\ Interval \in Nat
  BY BridgeAssumption DEF BridgeTypeOK
<1>2. (clock - clock) % TimeMod = 0
  BY <1>1
<1>3. ~Due(clock)
  BY <1>1, <1>2 DEF Due
<1>4. ~Due(last_hb_time')
  BY <1>3 DEF Beat
<1>5. QED
  BY <1>4 DEF Beat

(* The bridge never writes to the autopilot's port, for any periods and    *)
(* commands: the heartbeat of KestrelPixhawkBridge_USB.ino:132 is never due*)
(* and the command read at line 217 is never one it knows.                 *)
THEOREM AutopilotNeverTold == BridgeSpec => []PixhawkHearsNothing
<1>1. BridgeInit => PixhawkHearsNothing
  BY DEF BridgeInit, PixhawkHearsNothing
<1>2. ASSUME BridgeTypeOK, PixhawkHearsNothing, [BridgeNext]_bridge_vars
      PROVE  PixhawkHearsNothing'
  <2>1. ASSUME UNCHANGED to_pixhawk PROVE PixhawkHearsNothing'
    BY <1>2, <2>1 DEF PixhawkHearsNothing
  <2>2. CASE Beat
    BY <1>2, <2>2, SecondTimerNeverDue DEF PixhawkHearsNothing
  <2>3. CASE Command
    <3>1. \A command : CommandRead(command) \notin Commands
      BY DEF CommandRead, Commands, KS_SOF, KS_CMD_ARM,
             KS_CMD_DISARM
    <3>2. QED
      BY <2>1, <2>3, <3>1 DEF Command
  <2>4. CASE Translate \/ PixhawkDrained \/ PcDrained \/ ClockTicks
    BY <2>1, <2>4 DEF Translate, PixhawkDrained, PcDrained, ClockTicks
  <2>5. CASE \/ \E kind \in Kinds \cup OtherKinds, s \in Senders : PixhawkSends(kind, s)
             \/ \E command \in Commands : PcSends(command)
    BY <2>1, <2>5 DEF PixhawkSends, PcSends
  <2>6. CASE UNCHANGED bridge_vars
    BY <2>1, <2>6 DEF bridge_vars
  <2>7. QED
    BY <1>2, <2>2, <2>3, <2>4, <2>5, <2>6 DEF BridgeNext, Loop
<1>3. QED
  BY <1>1, <1>2, BridgeTypes, PTL DEF BridgeSpec
====
