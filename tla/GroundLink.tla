---- MODULE GroundLink ----
(***************************************************************************)
(* The USB drone (KestrelDroneESP32_USB.ino) and the ground station        *)
(* (kestrel_gcs_usb.py) with the serial line between them, packet by       *)
(* packet.  The drone's loop drains its port and then looks at three       *)
(* timers; the ground station's main thread sends heartbeats and what keys *)
(* ask for while its receiving thread reads.  Packets are lost, the drone  *)
(* is reset and the ground station restarted.                              *)
(*                                                                         *)
(* Nobody reads the sequence numbers of the drone's packets (KestrelParser *)
(* has no replay window): they are left out.                               *)
(***************************************************************************)
EXTENDS ReplayCheck, Sequences

CONSTANTS
    Encrypts,       \* the values of build_packet's argument encrypted: main()
                    \* leaves it at its default, TRUE
    Commands,       \* commands asked for; main() has keys for two of them
    Clock,          \* values of millis(): 2^32
    Heartbeat,      \* 1000 ms
    Attitude,       \* 200 ms
    Gps,            \* 500 ms
    BeatPeriod,     \* the ground station's second
    SeqWrap,        \* values of the sequence field: 2^12
    MaxLine,        \* packets the line holds in a direction before a write blocks
    LoopTime,       \* the longest time one loop() takes; delay(5) makes it take some
    MaxSent,        \* bound: packets the ground station sends
    MaxKeys,        \* bound: keys pressed
    MaxFaults,      \* bound: packets lost
    MaxStarts       \* bound: resets of the drone, restarts of the ground station

(* The periods of the three timers, in the order of loop().                *)
Periods == <<Heartbeat, Attitude, Gps>>

ASSUME GroundAssumption ==
    /\ Encrypts \subseteq BOOLEAN
    /\ Clock \in Nat /\ {Heartbeat, Attitude, Gps} \subseteq 1 .. Clock - 1
    /\ \A k \in 1 .. 3 : Periods[k] + LoopTime =< Clock
    /\ SeqWrap \in 1 .. 2 * H
    /\ {MaxLine, LoopTime, BeatPeriod} \subseteq Nat \ {0}
    /\ {MaxSent, MaxKeys, MaxFaults, MaxStarts} \subseteq Nat

VARIABLES
    at,         \* where loop() is: "now", "drain" or a timer
    now,        \* loop()'s reading of millis(), its only one
    last,       \* t_hb, t_att and t_gps
    armed,      \* g_armed
    g_parser,   \* g_parser's replay fields
    up,         \* packets on the way to the drone
    down,       \* packets on the way to the ground station
    sealed,     \* the argument encrypted of this ground station's packets
    gcs_seq,
    idle,       \* time since last_hb, as far as it matters
    view,       \* what the last heartbeat decoded said of the drone
    commands,   \* history: the commands sent
    deed,       \* history: which of them set g_armed since the drone's start, or 0
    acked,      \* history: the last one an acknowledgement was read for, or 0
    sent, faults, resets, relaunches    \* history, bounded

drone == <<at, now, last, armed, g_parser, deed, resets>>
station == <<sealed, gcs_seq, idle, view, commands, acked, sent, relaunches>>
line == <<up, down, faults>>
ground_vars == <<drone, station, line>>

Timers == <<"heartbeat", "attitude", "gps">>
Mode(b) == IF b THEN "armed" ELSE "disarmed"      \* base_mode & 0x08

GroundInit ==
    /\ at = "now" /\ now = 0
    /\ last = [k \in 1 .. 3 |-> 0]
    /\ armed = FALSE /\ g_parser = FreshReplay /\ deed = 0
    /\ up = <<>> /\ down = <<>>
    /\ sealed \in Encrypts
    /\ gcs_seq = 0 /\ idle = BeatPeriod /\ view = "unknown"
    /\ commands = <<>> /\ acked = 0
    /\ sent = 0 /\ faults = 0 /\ resets = 0 /\ relaunches = 0
----
(* The drone.                                                              *)

(* Packets of the drone remember its start and, for the history, its deed  *)
(* or the command they acknowledge.                                        *)
Ack(p) ==
    [kind |-> "ack", boot |-> resets, command |-> p.command, id |-> p.id,
     result |-> IF p.command \in {"ARM", "DISARM"} THEN 0 ELSE 3]

Telemetry(k) ==
    IF k = 1 THEN [kind |-> Timers[k], boot |-> resets, mode |-> Mode(armed), deed |-> deed]
             ELSE [kind |-> Timers[k], boot |-> resets]

(* Time passes up to loop()'s next reading of the clock, for both sides.   *)
ReadClock ==
    /\ at = "now"
    /\ at' = "drain"
    /\ \E d \in 1 .. LoopTime :
          /\ now' = (now + d) % Clock
          /\ idle' = IF idle + d < BeatPeriod THEN idle + d ELSE BeatPeriod
    /\ UNCHANGED <<last, armed, g_parser, deed, resets, line,
                   sealed, gcs_seq, view, commands, acked, sent, relaunches>>

(* ks_parse_char accepts p.  An encrypted packet of the ground station has *)
(* its flag in a bit the drone does not read: its CRC is looked for in the *)
(* wrong place and does not match.                                         *)
Heard(p) == ~p.sealed /\ ~Stale(g_parser, p.seq)

(* handle_command and send_cmd_ack, which waits for room on the line.      *)
Handle(p) ==
    /\ Len(down) < MaxLine
    /\ armed' = CASE p.command = "ARM" -> TRUE
                  [] p.command = "DISARM" -> FALSE
                  [] OTHER -> armed
    /\ deed' = IF p.command \in {"ARM", "DISARM"} THEN p.id ELSE deed
    /\ down' = Append(down, Ack(p))

(* drain_serial up to the next whole packet.                               *)
Drain ==
    /\ at = "drain" /\ up # <<>>
    /\ up' = Tail(up)
    /\ LET p == Head(up)
       IN  \/ /\ ~Heard(p)
              /\ UNCHANGED <<g_parser, armed, deed, down>>
           \/ /\ Heard(p) /\ p.kind = "heartbeat"
              /\ g_parser' = Accept(g_parser, p.seq)
              /\ UNCHANGED <<armed, deed, down>>
           \/ /\ Heard(p) /\ p.kind = "command"
              /\ g_parser' = Accept(g_parser, p.seq)
              /\ Handle(p)
    /\ UNCHANGED <<at, now, last, resets, station, faults>>

Drained ==
    /\ at = "drain" /\ up = <<>>
    /\ at' = Timers[1]
    /\ UNCHANGED <<now, last, armed, g_parser, deed, resets, station, line>>

DueUnsigned(k) == now >= last[k] + Periods[k]         \* mutant: does not survive the wrap

Due(k) == (now - last[k]) % Clock >= Periods[k]

(* A timer of loop() and the packet it sends.                              *)
Timer(k) ==
    /\ at = Timers[k]
    /\ \/ /\ ~Due(k)
          /\ UNCHANGED <<last, down>>
       \/ /\ Due(k) /\ Len(down) < MaxLine
          /\ last' = [last EXCEPT ![k] = now]
          /\ down' = Append(down, Telemetry(k))
    /\ at' = IF k = 3 THEN "now" ELSE Timers[k + 1]
    /\ UNCHANGED <<now, armed, g_parser, deed, resets, station, up, faults>>

Loop == ReadClock \/ Drain \/ Drained \/ \E k \in 1 .. 3 : Timer(k)

RebootKeepsArmed ==            \* mutant: g_armed survives
    /\ at' = "now" /\ now' = 0
    /\ last' = [k \in 1 .. 3 |-> 0]
    /\ g_parser' = FreshReplay /\ deed' = 0
    /\ up' = <<>>
    /\ resets' = resets + 1
    /\ UNCHANGED armed

(* The globals' initial values and setup(); what the port held is gone.    *)
Reboot ==
    /\ at' = "now" /\ now' = 0
    /\ last' = [k \in 1 .. 3 |-> 0]
    /\ armed' = FALSE /\ g_parser' = FreshReplay /\ deed' = 0
    /\ up' = <<>>
    /\ resets' = resets + 1

DroneReset ==
    /\ resets + relaunches < MaxStarts
    /\ Reboot
    /\ UNCHANGED <<station, down, faults>>
----
(* The ground station.                                                     *)

(* build_packet and ser.write, which blocks while the line is full.        *)
Send(kind, command) ==
    /\ sent < MaxSent /\ Len(up) < MaxLine
    /\ up' = Append(up, [kind |-> kind, command |-> command, sealed |-> sealed,
                         seq |-> gcs_seq % SeqWrap, id |-> Len(commands')])
    /\ gcs_seq' = gcs_seq + 1
    /\ sent' = sent + 1

Beat ==
    /\ idle = BeatPeriod
    /\ idle' = 0
    /\ UNCHANGED commands
    /\ Send("heartbeat", "none")
    /\ UNCHANGED <<drone, down, faults, sealed, view, acked, relaunches>>

Key(command) ==
    /\ Len(commands) < MaxKeys
    /\ commands' = Append(commands, command)
    /\ Send("command", command)
    /\ UNCHANGED <<drone, down, faults, sealed, idle, view, acked, relaunches>>

(* One packet in rx_thread.                                                *)
Receive ==
    /\ down # <<>>
    /\ down' = Tail(down)
    /\ LET p == Head(down)
       IN  /\ view' = IF p.kind = "heartbeat" THEN p.mode ELSE view
           /\ acked' = IF p.kind = "ack" THEN p.id ELSE acked
    /\ UNCHANGED <<drone, up, faults, sealed, gcs_seq, idle, commands, sent, relaunches>>

(* The user quits and starts the program again.  Opening the port drops    *)
(* what it held and may reset the board ("let ESP32 boot", line 420).      *)
Restart ==
    /\ resets + relaunches < MaxStarts
    /\ relaunches' = relaunches + 1
    /\ sealed' \in Encrypts
    /\ gcs_seq' = 0 /\ idle' = BeatPeriod /\ view' = "unknown"
    /\ down' = <<>>
    /\ \/ Reboot
       \/ UNCHANGED <<drone, up>>
    /\ UNCHANGED <<faults, commands, acked, sent>>
----
(* The line loses a packet, or garbles it so that its CRC fails.           *)
LoseUp ==
    /\ faults < MaxFaults /\ up # <<>>
    /\ up' = Tail(up)
    /\ faults' = faults + 1
    /\ UNCHANGED <<drone, station, down>>

LoseDown ==
    /\ faults < MaxFaults /\ down # <<>>
    /\ down' = Tail(down)
    /\ faults' = faults + 1
    /\ UNCHANGED <<drone, station, up>>

GroundNext ==
    \/ Loop \/ DroneReset
    \/ Beat \/ (\E command \in Commands : Key(command)) \/ Receive \/ Restart
    \/ LoseUp \/ LoseDown

(* loop() and rx_thread run for ever; keys need not be pressed, nothing    *)
(* need be lost.                                                           *)
GroundSpec ==
    /\ GroundInit /\ [][GroundNext]_ground_vars
    /\ WF_ground_vars(Loop) /\ WF_ground_vars(Receive)
----
(* Clocks, lines and counters stay in their ranges.                        *)
GroundTypeOK ==
    /\ at \in {"now", "drain", "heartbeat", "attitude", "gps"}
    /\ now \in 0 .. Clock - 1
    /\ last \in [1 .. 3 -> 0 .. Clock - 1]
    /\ armed \in BOOLEAN /\ g_parser \in Replay
    /\ Len(up) =< MaxLine /\ Len(down) =< MaxLine
    /\ view \in {"unknown", "armed", "disarmed"}
    /\ deed \in 0 .. Len(commands) /\ acked \in 0 .. Len(commands)

(* What the drone tells is what it did: acknowledgements come in the order *)
(* of the commands, one each, with the result of their command; a heartbeat*)
(* shows what the last command executed since the drone's start has made of*)
(* it (disarmed without one), and never less than an acknowledgement before*)
(* it has promised (handle_command sets g_armed before it acknowledges).   *)
ToldAsDone ==
    \A i \in 1 .. Len(down) :
        LET p == down[i]
        IN  /\ p.kind = "ack" =>
                  /\ p.id > acked
                  /\ p.command = commands[p.id]
                  /\ p.result = 0 <=> p.command \in {"ARM", "DISARM"}
            /\ p.kind = "heartbeat" =>
                  p.mode = Mode(p.deed # 0 /\ commands[p.deed] = "ARM")
            /\ p.kind = "ack" => \A j \in i + 1 .. Len(down) :
                  /\ down[j].kind = "ack" => down[j].id > p.id
                  /\ down[j].kind = "heartbeat" /\ down[j].boot = p.boot /\ p.result = 0
                        => down[j].deed >= p.id

(* Once no more keys are pressed and nothing is lost or restarted, the     *)
(* ground station shows the drone as it is, whatever was lost before: the  *)
(* heartbeat goes on for ever, past every wrap of millis().                *)
ViewConverges == <>[](view = Mode(armed))

(* Commands are sent "KS_MSG_CMD - ARM / DISARM from kestrel_gcs_usb.py"   *)
(* (KestrelDroneESP32_USB.ino:15): each is executed and its acknowledgement*)
(* read, unless something was lost or restarted.                           *)
Answered ==
    \A n \in 1 .. MaxKeys :
        (Len(commands) >= n) ~> (acked >= n \/ faults + resets + relaunches > 0)
====
