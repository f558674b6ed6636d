---- MODULE ConfigurePixhawk ----
(***************************************************************************)
(* configure_pixhawk.py and the autopilot it configures over MAVLink: wait *)
(* for a heartbeat, set one parameter after the other with three attempts  *)
(* each, reboot.  Commands and answers are in two queues that lose         *)
(* messages; the autopilot takes its time, so that an answer may come      *)
(* after the script has repeated its command, or has gone on to the next   *)
(* parameter; others on the line, and the autopilot unasked, send          *)
(* PARAM_VALUE messages of their own.  A value is reduced to whether it is *)
(* the one asked for.                                                      *)
(***************************************************************************)
EXTENDS Integers, Sequences

CONSTANTS
    Params,         \* length of params_to_set, set in the order of the dict
    Attempts,       \* 3
    Wait,           \* 3 s for an answer
    Boot,           \* 30 s for a heartbeat
    Systems,        \* MAVLink ids whose heartbeats are heard, 0 the bootloader
    Autopilot,      \* the id of the autopilot
    Fixed,          \* parameters it answers for but keeps as they are
    Unasked,        \* parameters told unasked, 0 for any other name
    MaxHeard,       \* bound: messages under way when one comes unasked
    MaxLost         \* bound: messages lost

ASSUME ConfigureAssumption ==
    /\ Params \in Nat \ {0} /\ Attempts \in Nat \ {0}
    /\ Wait \in Nat /\ Boot \in Nat /\ MaxHeard \in Nat /\ MaxLost \in Nat
    /\ Systems \subseteq Nat /\ Autopilot \in Systems \ {0}
    /\ Fixed \subseteq 1 .. Params /\ Unasked \subseteq 0 .. Params

VARIABLES
    at,             \* the section of main() that runs next
    target,         \* master.target_system
    param,          \* param_name, as its place in params_to_set
    attempt,
    left,           \* time until deadline
    sent,           \* commands on their way to the autopilot
    heard,          \* PARAM_VALUE messages on their way to the script
    warned,         \* parameters reported as not confirmed
    stored,         \* parameters the autopilot has stored as asked
    active,         \* those it runs with since it last booted
    lost            \* history: the messages that were lost

script == <<at, target, param, attempt, left, warned>>
autopilot == <<stored, active>>
vars == <<script, autopilot, sent, heard, lost>>

Names == 1 .. Params

Init ==
    /\ at = "connect" /\ left = Boot
    /\ target = 0 /\ param = 1 /\ attempt = 1
    /\ sent = <<>> /\ heard = <<>> /\ warned = {} /\ lost = <<>>
    /\ stored \in SUBSET Names /\ active = stored

(* The first heartbeat with a system id of at least 1 names the target,    *)
(* whoever sent it.                                                        *)
HeartbeatHeard(system) ==
    /\ at = "connect" /\ system >= 1
    /\ target' = system /\ at' = "set"
    /\ UNCHANGED <<param, attempt, left, warned, autopilot, sent, heard, lost>>

NoHeartbeat ==
    /\ at = "connect" /\ left = 0
    /\ at' = "failed"
    /\ UNCHANGED <<target, param, attempt, left, warned, autopilot, sent, heard, lost>>

SetParam ==
    /\ at = "set"
    /\ sent' = Append(sent, [kind |-> "set", to |-> target, name |-> param])
    /\ left' = Wait /\ at' = "wait"
    /\ UNCHANGED <<target, param, attempt, warned, autopilot, heard, lost>>

NextParamEarly ==           \* mutant: the last parameter is left out
    /\ at' = IF param >= Params - 1 THEN "reboot" ELSE "set"
    /\ param' = IF param >= Params - 1 THEN param ELSE param + 1
    /\ attempt' = 1

(* On to the next parameter of the loop, or out of it.                     *)
NextParam ==
    /\ at' = IF param = Params THEN "reboot" ELSE "set"
    /\ param' = IF param = Params THEN param ELSE param + 1
    /\ attempt' = 1

AnswersAny == heard # <<>>  \* mutant: any PARAM_VALUE confirms

(* The message at the head of the queue carries the name waited for; who   *)
(* sent it is not asked, and its value is printed, not compared.           *)
Answers == heard # <<>> /\ Head(heard) = param

Confirm ==
    /\ at = "wait" /\ Answers
    /\ heard' = Tail(heard)
    /\ NextParam
    /\ UNCHANGED <<target, left, warned, autopilot, sent, lost>>

Ignore ==
    /\ at = "wait" /\ left > 0 /\ heard # <<>> /\ ~Answers
    /\ heard' = Tail(heard)
    /\ UNCHANGED <<script, autopilot, sent, lost>>

(* The time is up; the message read meanwhile, if any, was no answer.      *)
TimeUp ==
    /\ at = "wait" /\ left = 0
    /\ \/ UNCHANGED heard
       \/ heard # <<>> /\ ~Answers /\ heard' = Tail(heard)

Retry ==
    /\ TimeUp /\ attempt < Attempts
    /\ attempt' = attempt + 1 /\ at' = "set"
    /\ UNCHANGED <<target, param, left, warned, autopilot, sent, lost>>

GiveUpStays ==              \* mutant: the loop goes on waiting after the last attempt
    /\ TimeUp /\ attempt = Attempts
    /\ warned' = warned \cup {param}
    /\ UNCHANGED <<at, target, param, attempt, left, autopilot, sent, lost>>

GiveUp ==
    /\ TimeUp /\ attempt = Attempts
    /\ warned' = warned \cup {param}
    /\ NextParam
    /\ UNCHANGED <<target, left, autopilot, sent, lost>>

(* One command, no answer awaited; then "Pixhawk configured!".             *)
Reboot ==
    /\ at = "reboot"
    /\ sent' = Append(sent, [kind |-> "reboot", to |-> target, name |-> 0])
    /\ at' = "done"
    /\ UNCHANGED <<target, param, attempt, left, warned, autopilot, heard, lost>>

Tick ==
    /\ at \in {"connect", "wait"} /\ left > 0
    /\ left' = left - 1
    /\ UNCHANGED <<at, target, param, attempt, warned, autopilot, sent, heard, lost>>

Script == (\E system \in Systems : HeartbeatHeard(system)) \/ NoHeartbeat \/ SetParam
          \/ Confirm \/ Ignore \/ Retry \/ GiveUp \/ Reboot

(* A command for another system is not the autopilot's.  A PARAM_SET is    *)
(* answered with the value the parameter has then; a reboot makes what is  *)
(* stored take effect.                                                     *)
AutopilotActs ==
    /\ sent # <<>>
    /\ LET command == Head(sent)
           set == command.to = Autopilot /\ command.kind = "set"
           boot == command.to = Autopilot /\ command.kind = "reboot"
       IN  /\ stored' = IF set THEN stored \cup ({command.name} \ Fixed) ELSE stored
           /\ heard' = IF set THEN Append(heard, command.name) ELSE heard
           /\ active' = IF boot THEN stored ELSE active
    /\ sent' = Tail(sent)
    /\ UNCHANGED <<script, lost>>

(* A PARAM_VALUE nobody asked for: of another system, or of the autopilot  *)
(* when another ground station reads its parameters.  As long as the       *)
(* script waits for a heartbeat it drops them.                             *)
Announce(name) ==
    /\ at \in {"set", "wait"} /\ Len(heard) < MaxHeard
    /\ heard' = Append(heard, name)
    /\ UNCHANGED <<script, autopilot, sent, lost>>

LoseCommand ==
    /\ sent # <<>> /\ Len(lost) < MaxLost
    /\ lost' = Append(lost, Head(sent).kind)
    /\ sent' = Tail(sent)
    /\ UNCHANGED <<script, autopilot, heard>>

LoseAnswer ==
    /\ heard # <<>> /\ Len(lost) < MaxLost
    /\ lost' = Append(lost, "answer")
    /\ heard' = Tail(heard)
    /\ UNCHANGED <<script, autopilot, sent>>

Next ==
    \/ Script \/ Tick
    \/ AutopilotActs
    \/ \E name \in Unasked : Announce(name)
    \/ LoseCommand \/ LoseAnswer

(* The script runs, time passes, and the autopilot gets to its messages;   *)
(* what comes unasked may go on for ever.                                  *)
Spec == Init /\ [][Next]_vars /\ WF_vars(Script) /\ WF_vars(Tick) /\ WF_vars(AutopilotActs)
----
(* Script, autopilot and queues have their types.                          *)
TypeOK ==
    /\ at \in {"connect", "set", "wait", "reboot", "done", "failed"}
    /\ target \in Systems \cup {0}
    /\ param \in Names /\ attempt \in 1 .. Attempts
    /\ left \in 0 .. IF Wait > Boot THEN Wait ELSE Boot
    /\ warned \subseteq Names /\ stored \subseteq Names /\ active \subseteq Names
    /\ heard \in Seq(0 .. Params)

(* When the script says that it is done, every parameter is stored as      *)
(* asked or was reported as "Not confirmed" (configure_pixhawk.py:67, 73), *)
(* whatever was lost and however late an answer came.                      *)
ReportIsTrue == at = "done" => Names \subseteq stored \cup warned

(* The same of the parameters that the autopilot does store when told to:  *)
(* what is printed as "confirmed" (configure_pixhawk.py:67) was confirmed  *)
(* by an answer to the script.                                             *)
ConfirmedByAnswer == at = "done" => Names \subseteq stored \cup warned \cup Fixed

(* "Rebooting Pixhawk to apply changes" (configure_pixhawk.py:75): unless  *)
(* the reboot itself is lost, the autopilot ends up running with every     *)
(* parameter the script did not warn about.                                *)
TakesEffect ==
    at = "done" ~> (\/ Names \subseteq active \cup warned
                    \/ \E i \in 1 .. Len(lost) : lost[i] = "reboot")

(* The script comes to an end, whether or not anyone answers, and though   *)
(* messages of other parameters never cease to come.                       *)
Finishes == <>(at \in {"done", "failed"})
====
