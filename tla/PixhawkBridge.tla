---- MODULE PixhawkBridge ----
(***************************************************************************)
(* loop() of the KestrelPixhawkBridge_USB sketch: MAVLink messages of the  *)
(* autopilot become encrypted Kestrel packets for the PC, commands of the  *)
(* PC become MAVLink messages, and heartbeats go both ways on a timer.     *)
(* The two serial ports are queues of whole messages; millis() is a clock  *)
(* that wraps.  Arrivals and ticks interleave with the loop's sections.    *)
(***************************************************************************)
EXTENDS Integers, Sequences

CONSTANTS
    SysIds,         \* system and component ids on the MAVLink port
    CompIds,
    Kinds,          \* MAVLink messages that are translated
    OtherKinds,     \* those that are not
    Interval,       \* 1000 ms
    TimeMod,        \* values of millis()
    LoopTime,       \* longest time loop() takes
    MaxArrivals     \* bound: messages from autopilot and PC, each

ASSUME BridgeAssumption ==
    /\ SysIds \subseteq 0 .. 255 /\ CompIds \subseteq 0 .. 255
    /\ Kinds \cap OtherKinds = {}
    /\ Interval \in Nat /\ LoopTime \in Nat \ {0} /\ MaxArrivals \in Nat
    /\ TimeMod \in Nat /\ Interval + LoopTime < TimeMod

KS_SOF == 165
KS_CMD_ARM == 1
KS_CMD_DISARM == 2
Commands == {KS_CMD_ARM, KS_CMD_DISARM}

Senders == SysIds \X CompIds

VARIABLES
    section,        \* the section of loop() that runs next
    clock,          \* millis()
    spent,          \* ticks since loop() last read the clock, for LoopTime
    last_hb_time,
    system,         \* g_pixhawk_sysid and g_pixhawk_compid
    from_pixhawk,   \* SerialPixhawk's receive queue, messages with sender
    from_pc,        \* commands in Serial's receive queue
    to_pc,          \* the Kestrel packet sent last
    to_pixhawk,     \* the MAVLink message sent last
    arrived,        \* history: everything the autopilot sent
    relayed,        \* history: the packets made of messages, in order
    asked           \* history: commands the PC has sent

bridge_vars ==
    <<section, clock, spent, last_hb_time, system, from_pixhawk, from_pc,
      to_pc, to_pixhawk, arrived, relayed, asked>>

(* The ids a packet carries: ks_encode_ext_header has six bits for the     *)
(* system and four for the component.                                      *)
Cut(ids) == <<ids[1] % 64, ids[2] % 16>>

(* kestrel_send under the ids captured last.                               *)
KestrelSend(kind, ids) == [kind |-> kind, system |-> Cut(ids)]

Silent == KestrelSend("none", <<1, 1>>)

BridgeInit ==
    /\ section = "beat"
    /\ clock \in 0 .. TimeMod - 1
    /\ spent = 0
    /\ last_hb_time = 0
    /\ system = <<1, 1>>
    /\ from_pixhawk = <<>> /\ from_pc = <<>>
    /\ to_pc = Silent /\ to_pixhawk = "none"
    /\ arrived = <<>> /\ relayed = <<>> /\ asked = <<>>

Due(last) == (clock - last) % TimeMod > Interval

BeatUnsigned ==                \* mutant: "now > last_hb_time + 1000"
    LET due == clock > last_hb_time + Interval
    IN  /\ section = "beat"
        /\ last_hb_time' = IF due THEN clock ELSE last_hb_time
        /\ to_pc' = IF due THEN KestrelSend("selftest", system) ELSE Silent
        /\ to_pixhawk' = "none"
        /\ spent' = 0
        /\ section' = "pixhawk"
        /\ UNCHANGED <<clock, system, from_pixhawk, from_pc, arrived, relayed, asked>>

(* Both timers, one after the other, with one reading of the clock.        *)
Beat ==
    /\ section = "beat"
    /\ last_hb_time' = IF Due(last_hb_time) THEN clock ELSE last_hb_time
    /\ to_pc' = IF Due(last_hb_time) THEN KestrelSend("selftest", system) ELSE Silent
    /\ to_pixhawk' = IF Due(last_hb_time') THEN "heartbeat" ELSE "none"
    /\ spent' = 0
    /\ section' = "pixhawk"
    /\ UNCHANGED <<clock, system, from_pixhawk, from_pc, arrived, relayed, asked>>

TranslateLate ==               \* mutant: the ids are captured after the send
    /\ section = "pixhawk" /\ from_pixhawk # <<>>
    /\ LET msg == Head(from_pixhawk)
       IN  /\ system' = msg.system
           /\ to_pc' = IF msg.kind \in Kinds THEN KestrelSend(msg.kind, system) ELSE to_pc
           /\ relayed' = IF msg.kind \in Kinds
                         THEN Append(relayed, KestrelSend(msg.kind, system)) ELSE relayed
    /\ from_pixhawk' = Tail(from_pixhawk)
    /\ UNCHANGED <<section, clock, spent, last_hb_time, from_pc, to_pixhawk, arrived, asked>>

(* One message of the autopilot: its ids are captured, then kestrel_send   *)
(* puts them into the packet made of it.                                   *)
Translate ==
    /\ section = "pixhawk" /\ from_pixhawk # <<>>
    /\ LET msg == Head(from_pixhawk)
       IN  /\ system' = msg.system
           /\ to_pc' = IF msg.kind \in Kinds THEN KestrelSend(msg.kind, msg.system) ELSE to_pc
           /\ relayed' = IF msg.kind \in Kinds
                         THEN Append(relayed, KestrelSend(msg.kind, msg.system)) ELSE relayed
    /\ from_pixhawk' = Tail(from_pixhawk)
    /\ UNCHANGED <<section, clock, spent, last_hb_time, from_pc, to_pixhawk, arrived, asked>>

PixhawkDrained ==
    /\ section = "pixhawk" /\ from_pixhawk = <<>>
    /\ section' = "pc"
    /\ UNCHANGED <<clock, spent, last_hb_time, system, from_pixhawk, from_pc,
                   to_pc, to_pixhawk, arrived, relayed, asked>>

(* What handle_kestrel_cmd takes for the command: the call passes the      *)
(* parser's buffer, which starts with KS_SOF and the header's next byte    *)
(* (here priority 2, stream 3 and a short payload), not its payload.       *)
CommandRead(command) == KS_SOF + 256 * 8

(* The COMMAND_LONG that arms or disarms.                                  *)
Translation(cmd_id) ==
    CASE cmd_id = KS_CMD_ARM -> "arm" [] cmd_id = KS_CMD_DISARM -> "disarm"
      [] OTHER -> "unknown"

(* A packet KS_MSG_CMD that ks_parse_char accepted.  It is acknowledged as *)
(* soon as it is written to the autopilot's port.                          *)
Command ==
    /\ section = "pc" /\ from_pc # <<>>
    /\ LET cmd_id == CommandRead(Head(from_pc))
       IN  IF cmd_id \in Commands
           THEN /\ to_pixhawk' = Translation(cmd_id)
                /\ to_pc' = KestrelSend("ack", system)
           ELSE UNCHANGED <<to_pixhawk, to_pc>>
    /\ from_pc' = Tail(from_pc)
    /\ UNCHANGED <<section, clock, spent, last_hb_time, system, from_pixhawk, arrived, relayed, asked>>

PcDrained ==
    /\ section = "pc" /\ from_pc = <<>>
    /\ section' = "beat"
    /\ UNCHANGED <<clock, spent, last_hb_time, system, from_pixhawk, from_pc,
                   to_pc, to_pixhawk, arrived, relayed, asked>>

Loop == Beat \/ Translate \/ PixhawkDrained \/ Command \/ PcDrained

ClockTicks ==
    /\ spent < LoopTime
    /\ spent' = spent + 1
    /\ clock' = (clock + 1) % TimeMod
    /\ UNCHANGED <<section, last_hb_time, system, from_pixhawk, from_pc, to_pc,
                   to_pixhawk, arrived, relayed, asked>>

PixhawkSends(kind, s) ==
    /\ Len(arrived) < MaxArrivals
    /\ arrived' = Append(arrived, [kind |-> kind, system |-> s])
    /\ from_pixhawk' = Append(from_pixhawk, [kind |-> kind, system |-> s])
    /\ UNCHANGED <<section, clock, spent, last_hb_time, system, from_pc, to_pc,
                   to_pixhawk, relayed, asked>>

PcSends(command) ==
    /\ Len(asked) < MaxArrivals
    /\ asked' = Append(asked, command)
    /\ from_pc' = Append(from_pc, command)
    /\ UNCHANGED <<section, clock, spent, last_hb_time, system, from_pixhawk, to_pc,
                   to_pixhawk, arrived, relayed>>

BridgeNext ==
    \/ Loop
    \/ ClockTicks
    \/ \E kind \in Kinds \cup OtherKinds, s \in Senders : PixhawkSends(kind, s)
    \/ \E command \in Commands : PcSends(command)

(* The board runs loop() for ever and time passes.                         *)
BridgeSpec ==
    /\ BridgeInit /\ [][BridgeNext]_bridge_vars
    /\ WF_bridge_vars(Loop) /\ WF_bridge_vars(ClockTicks)
----
(* Clock, queues and packets have their types.                             *)
BridgeTypeOK ==
    /\ section \in {"beat", "pixhawk", "pc"}
    /\ clock \in 0 .. TimeMod - 1 /\ last_hb_time \in 0 .. TimeMod - 1
    /\ spent \in 0 .. LoopTime
    /\ system \in (0 .. 255) \X (0 .. 255)
    /\ \A i \in 1 .. Len(from_pc) : from_pc[i] \in Commands
    /\ to_pixhawk \in {"none", "heartbeat", "arm", "disarm"}

(* The PC gets the autopilot's messages in the order they were sent, each  *)
(* once, and never under the ids of another message: each packet has the   *)
(* ids of its own sender, cut to the width of the header's fields          *)
(* (KestrelPixhawkBridge_USB.ino:154-205; IdsTold below asks for the whole *)
(* ids).  Those it has not got are still in the receive queue: place[i] is *)
(* where the i-th relayed message is among those that arrived.             *)
RelayedFaithfully ==
    LET wanted == {n \in 1 .. Len(arrived) : arrived[n].kind \in Kinds}
        read == Len(arrived) - Len(from_pixhawk)
    IN  \E place \in [1 .. Len(relayed) -> wanted] :
            /\ \A i \in 1 .. Len(relayed) :
                  relayed[i] = KestrelSend(arrived[place[i]].kind, arrived[place[i]].system)
            /\ \A i, j \in 1 .. Len(relayed) : i < j => place[i] < place[j]
            /\ \A n \in wanted : n =< read <=> \E i \in 1 .. Len(relayed) : place[i] = n

(* The PC hears the bridge for ever, past every wrap of millis().          *)
SelfTestForever == []<>(to_pc.kind = "selftest")

(* "Capture system ID dynamically" (KestrelPixhawkBridge_USB.ino:156): the *)
(* PC is told which system and component a message came from.              *)
IdsTold ==
    \A i \in 1 .. Len(relayed) :
        \E n \in 1 .. Len(arrived) : relayed[i] = arrived[n]

(* "Send 1Hz MAVLink Heartbeat to wake up Pixhawk telemetry streams"       *)
(* (KestrelPixhawkBridge_USB.ino:131).                                     *)
PixhawkWoken == []<>(to_pixhawk = "heartbeat")

(* "Read encrypted Kestrel commands from PC, translate to MAVLink for      *)
(* Pixhawk" (KestrelPixhawkBridge_USB.ino:210).                            *)
CommandTranslated ==
    \A command \in Commands :
        (asked = <<command>>) ~> (to_pixhawk \in {"arm", "disarm"})
====
