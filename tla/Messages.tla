---- MODULE Messages ----
(***************************************************************************)
(* The payloads of Kestrel messages: every ks_serialize_* and              *)
(* ks_deserialize_* function of kestrel.c as the table of the bytes it     *)
(* writes or reads and the length it returns.  A field's value is the      *)
(* sequence of its bytes in memory, the lowest first, so that copying it   *)
(* and packing it little-endian are the same; conversions that change the  *)
(* bytes are operators.                                                    *)
(*                                                                         *)
(* An application picks a message, serializes it into a buffer that holds  *)
(* anything (Junk), and the other side deserializes it.  Next to the       *)
(* library there are the Pixhawk bridge and the ground station's tools,    *)
(* which write and read payloads of their own.  The library reads from     *)
(* the parser's buffer and is not told how long the payload in it is, so   *)
(* that what lies behind it is Junk as well.                               *)
(*                                                                         *)
(* The line between them may damage a packet; a checksum over the packet   *)
(* and a seed that belongs to its message number is there to tell.         *)
(***************************************************************************)
EXTENDS Integers, Sequences, FiniteSetsExt

CONSTANTS
    Words,      \* four-byte samples that the values of fields are made of
    IntBits,    \* width of int: 32, and 16 on an AVR board
    Links,      \* who writes what for whom: <<writer, message, reader>>
    Exemplar,   \* the sample that messages damaged on the line are made of
    Bursts      \* places, from the first, of the bits that one fault inverts

ASSUME MessagesAssumption ==
    /\ Words \subseteq [1 .. 4 -> 0 .. 255]
    /\ IntBits \in {16, 32}
    /\ Exemplar \in Words
    /\ Bursts \subseteq SUBSET (0 .. 15)

Junk == 256                         \* a byte of the buffer nobody has written

(* A table's rows: size bytes at offset at belong to field.                *)
Row(at, field, size, as) == [at |-> at, field |-> field, size |-> size, as |-> as]

U8(at, field) == Row(at, field, 1, "bytes")
U16(at, field) == Row(at, field, 2, "bytes")
U32(at, field) == Row(at, field, 4, "bytes")
F32(at, field) == Row(at, field, 4, "bytes")
I32(at, field) == Row(at, field, 4, "int32")     \* read by unpack_int32
Half(at, field) == Row(at, field, 2, "half")
Mem(at, field, n) == Row(at, field, n, "bytes")
Zero(at) == Row(at, "zero", 1, "zero")           \* a byte that is set to 0

Codec(returns, rows) == [returns |-> returns, rows |-> rows]

----
(* Floats and halves.                                                      *)

Exponent(f) == 2 * (f[4] % 128) + f[3] \div 128
Mantissa(f) == 65536 * (f[3] % 128) + 256 * f[2] + f[1]
Sign(f) == f[4] \div 128
FloatOf(sign, e, m) ==
    <<m % 256, (m \div 256) % 256, 128 * (e % 2) + m \div 65536, 128 * sign + e \div 2>>

HalfOf(sign, bits) == <<bits % 256, 128 * sign + bits \div 256>>

float_to_half(f) ==
    LET e == Exponent(f) - 127 + 15
    IN  HalfOf(Sign(f), CASE e >= 31 -> 31744
                          [] e > 0 /\ e < 31 -> 1024 * e + Mantissa(f) \div 8192
                          [] e =< 0 -> 0)

(* Shifts of a subnormal mantissa until its leading one is in place.       *)
Leading(mantissa) == CHOOSE s \in 1 .. 10 : (mantissa * 2^s) \div 1024 = 1

half_to_float_shifted_twice(h) ==      \* mutant: the code before "BUG-04 FIX"
    LET sign == h[2] \div 128
        e == (h[2] % 128) \div 4
        m == 256 * (h[2] % 4) + h[1]
        shift == IF e = 0 /\ m # 0 THEN Leading(m) ELSE 0
    IN  CASE e = 0 -> FloatOf(sign, IF m = 0 THEN 0 ELSE 127 - 14 - shift,
                              (m * 2^(2 * shift)) % 1024 * 8192)
          [] e = 31 -> FloatOf(sign, 255, m * 8192)
          [] e \in 1 .. 30 -> FloatOf(sign, e - 15 + 127, m * 8192)

half_to_float(h) ==
    LET sign == h[2] \div 128
        e == (h[2] % 128) \div 4
        m == 256 * (h[2] % 4) + h[1]
    IN  CASE e = 0 /\ m # 0 -> FloatOf(sign, 127 - 14 - Leading(m),
                                   ((m * 2^Leading(m)) % 1024) * 8192)
          [] e = 0 /\ m = 0 -> FloatOf(sign, 0, 0)
          [] e = 31 -> FloatOf(sign, 255, m * 8192)
          [] e \in 1 .. 30 -> FloatOf(sign, e - 15 + 127, m * 8192)

(* b[0] | (b[1] << 8) | (b[2] << 16) | (b[3] << 24), computed in int.  In  *)
(* 16 bits the second term may be negative and fills the upper half when   *)
(* it is widened, and the last two shifts are undefined: upper is either.  *)
unpack_int32(b, upper) ==
    IF IntBits = 32 THEN b ELSE <<b[1], b[2], upper, upper>>

----
(* The tables.  Str reads n characters and ends them with a null.          *)
Str(at, field, n) == Row(at, field, n, "string")

ks_serialize_attitude == Codec(18,
    {F32(0, "roll"), F32(4, "pitch"), F32(8, "yaw"),
     Half(12, "rollspeed"), Half(14, "pitchspeed"), Half(16, "yawspeed")})
ks_deserialize_attitude == Codec(18,
    {F32(0, "roll"), F32(4, "pitch"), F32(8, "yaw"),
     Half(12, "rollspeed"), Half(14, "pitchspeed"), Half(16, "yawspeed")})

ks_serialize_heartbeat == Codec(10,
    {U32(0, "system_status"), U8(4, "system_type"), U8(5, "autopilot_type"),
     U8(6, "base_mode"), U8(7, "lost_link_action"), U16(8, "lost_link_timeout_s")})
ks_deserialize_heartbeat == Codec(10,
    {U32(0, "system_status"), U8(4, "system_type"), U8(5, "autopilot_type"),
     U8(6, "base_mode"), U8(7, "lost_link_action"), U16(8, "lost_link_timeout_s")})

ks_serialize_gps_raw == Codec(22,
    {I32(0, "lat"), I32(4, "lon"), I32(8, "alt"), U16(12, "eph"), U16(14, "epv"),
     U16(16, "vel"), U16(18, "cog"), U8(20, "fix_type"), U8(21, "satellites")})
ks_deserialize_gps_raw == Codec(22,
    {I32(0, "lat"), I32(4, "lon"), I32(8, "alt"), U16(12, "eph"), U16(14, "epv"),
     U16(16, "vel"), U16(18, "cog"), U8(20, "fix_type"), U8(21, "satellites")})

ks_serialize_battery == Codec(8,
    {U16(0, "voltage"), U16(2, "current"), U16(4, "remaining"),
     U8(6, "cell_count"), U8(7, "status")})
ks_deserialize_battery == Codec(8,
    {U16(0, "voltage"), U16(2, "current"), U16(4, "remaining"),
     U8(6, "cell_count"), U8(7, "status")})

\* Eight channels of two bytes each.
ks_serialize_rc_input == Codec(18,
    {Mem(0, "channels", 16), U8(16, "rssi"), U8(17, "quality")})
ks_deserialize_rc_input == Codec(18,
    {Mem(0, "channels", 16), U8(16, "rssi"), U8(17, "quality")})

ks_serialize_command == Codec(8,
    {U16(0, "command_id"), U16(2, "param1"), U16(4, "param2"), U16(6, "param3")})
ks_deserialize_command == Codec(8,
    {U16(0, "command_id"), U16(2, "param1"), U16(4, "param2"), U16(6, "param3")})

ks_serialize_key_exchange == Codec(97,
    {Mem(0, "public_key", 32), U8(32, "seq_num"), Mem(33, "signature", 64)})
ks_deserialize_key_exchange == Codec(97,
    {Mem(0, "public_key", 32), U8(32, "seq_num"), Mem(33, "signature", 64)})

ks_serialize_key_exchange_ack == Codec(2, {U8(0, "seq_num"), U8(1, "status")})
ks_deserialize_key_exchange_ack == Codec(2, {U8(0, "seq_num"), U8(1, "status")})

ks_serialize_command_ack == Codec(4,
    {U16(0, "command_id"), U8(2, "result"), U8(3, "progress")})
ks_deserialize_command_ack == Codec(4,
    {U16(0, "command_id"), U8(2, "result"), U8(3, "progress")})

ks_serialize_mode_change == Codec(2, {U8(0, "mode"), U8(1, "reserved")})
ks_deserialize_mode_change == Codec(2, {U8(0, "mode"), U8(1, "reserved")})

ks_serialize_mission_item == Codec(20,
    {U16(0, "seq"), U8(2, "frame"), U8(3, "command"), I32(4, "lat"), I32(8, "lon"),
     I32(12, "alt"), U16(16, "speed"), U16(18, "loiter_time")})
ks_deserialize_mission_item == Codec(20,
    {U16(0, "seq"), U8(2, "frame"), U8(3, "command"), I32(4, "lat"), I32(8, "lon"),
     I32(12, "alt"), U16(16, "speed"), U16(18, "loiter_time")})

ks_serialize_param_request_read == Codec(18,
    {Mem(0, "param_id", 16), U16(16, "param_index")})
ks_deserialize_param_request_read == Codec(18,
    {Str(0, "param_id", 15), U16(16, "param_index")})

ks_serialize_param_value == Codec(25,
    {Mem(0, "param_id", 16), F32(16, "param_value"), U8(20, "param_type"),
     U16(21, "param_count"), U16(23, "param_index")})
ks_deserialize_param_value == Codec(25,
    {Str(0, "param_id", 15), F32(16, "param_value"), U8(20, "param_type"),
     U16(21, "param_count"), U16(23, "param_index")})

ks_serialize_param_set == Codec(21,
    {Mem(0, "param_id", 16), F32(16, "param_value"), U8(20, "param_type")})
ks_deserialize_param_set == Codec(21,
    {Str(0, "param_id", 15), F32(16, "param_value"), U8(20, "param_type")})

ks_serialize_log_request_list == Codec(4, {U16(0, "start"), U16(2, "end")})
ks_deserialize_log_request_list == Codec(4, {U16(0, "start"), U16(2, "end")})

ks_serialize_log_entry == Codec(14,
    {U16(0, "id"), U16(2, "num_logs"), U16(4, "last_log_num"), U32(6, "time_utc"),
     U32(10, "size")})
ks_deserialize_log_entry == Codec(14,
    {U16(0, "id"), U16(2, "num_logs"), U16(4, "last_log_num"), U32(6, "time_utc"),
     U32(10, "size")})

ks_serialize_log_request_data == Codec(10,
    {U16(0, "id"), U32(2, "offset"), U32(6, "count")})
ks_deserialize_log_request_data == Codec(10,
    {U16(0, "id"), U32(2, "offset"), U32(6, "count")})

Clamped(count) == IF count > 90 THEN 90 ELSE count

\* count and data depend on the value, and on the bytes received.
ks_serialize_log_data(count) == Codec(7 + Clamped(count),
    {U16(0, "id"), U32(2, "offset"), Row(6, "count", 1, "clamped"),
     Mem(7, "data", Clamped(count))})
ks_deserialize_log_data(count) == Codec(7 + Clamped(count),
    {U16(0, "id"), U32(2, "offset"), Row(6, "count", 1, "clamped"),
     Mem(7, "data", Clamped(count))})

\* The 50th character is copied and then replaced by the null.
ks_serialize_statustext == Codec(51, {U8(0, "severity"), Mem(1, "text", 49), Zero(50)})
ks_deserialize_statustext == Codec(51, {U8(0, "severity"), Str(1, "text", 49)})

ks_serialize_sys_status == Codec(21,
    {U32(0, "sensors_present"), U32(4, "sensors_enabled"), U32(8, "sensors_health"),
     U16(12, "load"), U16(14, "voltage_battery"), U16(16, "current_battery"),
     U8(18, "battery_remaining"), U16(19, "drop_rate_comm")})

ks_deserialize_sys_status_packed == Codec(21,  \* mutant: the layout of line 952
    {U32(0, "sensors_present"), U32(4, "sensors_enabled"), U32(8, "sensors_health"),
     U16(12, "load"), U16(14, "voltage_battery"), U16(16, "current_battery"),
     U8(17, "battery_remaining"), U16(18, "drop_rate_comm")})

ks_deserialize_sys_status == Codec(21,
    {U32(0, "sensors_present"), U32(4, "sensors_enabled"), U32(8, "sensors_health"),
     U16(12, "load"), U16(14, "voltage_battery"), U16(16, "current_battery"),
     U8(18, "battery_remaining"), U16(19, "drop_rate_comm")})

ks_serialize_vfr_hud == Codec(20,
    {F32(0, "airspeed"), F32(4, "groundspeed"), U16(8, "heading"),
     U16(10, "throttle"), F32(12, "alt"), F32(16, "climb")})
ks_deserialize_vfr_hud == Codec(20,
    {F32(0, "airspeed"), F32(4, "groundspeed"), U16(8, "heading"),
     U16(10, "throttle"), F32(12, "alt"), F32(16, "climb")})

ks_serialize_nav_controller == Codec(26,
    {F32(0, "nav_roll"), F32(4, "nav_pitch"), U16(8, "nav_bearing"),
     U16(10, "target_bearing"), U16(12, "wp_dist"), F32(14, "alt_error"),
     F32(18, "aspd_error"), F32(22, "xtrack_error")})
ks_deserialize_nav_controller == Codec(26,
    {F32(0, "nav_roll"), F32(4, "nav_pitch"), U16(8, "nav_bearing"),
     U16(10, "target_bearing"), U16(12, "wp_dist"), F32(14, "alt_error"),
     F32(18, "aspd_error"), F32(22, "xtrack_error")})

ks_serialize_mission_count == Codec(4,
    {U16(0, "count"), U8(2, "target_sys"), U8(3, "target_comp")})
ks_deserialize_mission_count == Codec(4,
    {U16(0, "count"), U8(2, "target_sys"), U8(3, "target_comp")})

ks_serialize_mission_request == Codec(4,
    {U16(0, "seq"), U8(2, "target_sys"), U8(3, "target_comp")})
ks_deserialize_mission_request == Codec(4,
    {U16(0, "seq"), U8(2, "target_sys"), U8(3, "target_comp")})

ks_serialize_mission_ack == Codec(4,
    {U8(0, "target_sys"), U8(1, "target_comp"), U8(2, "type"), Zero(3)})
ks_deserialize_mission_ack == Codec(4,
    {U8(0, "target_sys"), U8(1, "target_comp"), U8(2, "type"), Zero(3)})

ks_serialize_npnt_pa == Codec(82,
    {Mem(0, "signature", 64), U32(64, "valid_from"), U32(68, "valid_until"),
     I32(72, "center_lat"), I32(76, "center_lon"), U16(80, "radius_m")})
ks_deserialize_npnt_pa == Codec(82,
    {Mem(0, "signature", 64), U32(64, "valid_from"), U32(68, "valid_until"),
     I32(72, "center_lat"), I32(76, "center_lon"), U16(80, "radius_m")})

ks_serialize_npnt_status == Codec(5, {U8(0, "status"), U32(1, "valid_until")})
ks_deserialize_npnt_status == Codec(5, {U8(0, "status"), U32(1, "valid_until")})

ks_serialize_rid_basic_id == Codec(22,
    {U8(0, "id_type"), U8(1, "ua_type"), Mem(2, "uas_id", 20)})
ks_deserialize_rid_basic_id == Codec(22,
    {U8(0, "id_type"), U8(1, "ua_type"), Mem(2, "uas_id", 20)})

ks_serialize_rid_location_unpadded == Codec(16,    \* mutant: byte 15 is not set
    {U8(0, "status"), I32(1, "lat"), I32(5, "lon"), U16(9, "geodetic_alt"),
     U16(11, "speed"), U16(13, "track_deg")})

ks_serialize_rid_location == Codec(16,
    {U8(0, "status"), I32(1, "lat"), I32(5, "lon"), U16(9, "geodetic_alt"),
     U16(11, "speed"), U16(13, "track_deg"), Zero(15)})
ks_deserialize_rid_location == Codec(16,
    {U8(0, "status"), I32(1, "lat"), I32(5, "lon"), U16(9, "geodetic_alt"),
     U16(11, "speed"), U16(13, "track_deg")})

----
(* The ground station sends a command's number and 28 bytes of zeros.      *)
GcsCommand == Codec(30, {U16(0, "command_id")} \cup {Zero(offset) : offset \in 2 .. 29})

\* serialize_heartbeat_gcs, and serialize_heartbeat of gcs_sender.py.
GcsHeartbeat == Codec(10,
    {U32(0, "system_status"), U8(4, "system_type"), U8(5, "autopilot_type"),
     U8(6, "base_mode"), U8(7, "lost_link_action"), U16(8, "lost_link_timeout_s")})

\* The bridge puts the autopilot's system_status where the library has the
\* action on a lost link, and leaves out the rates of an attitude.
BridgeHeartbeat == Codec(10,
    {U32(0, "system_status"), U8(4, "system_type"), U8(5, "autopilot_type"),
     U8(6, "base_mode"), U8(7, "mav_status"), Zero(8), Zero(9)})
BridgeAttitude == Codec(12, {F32(0, "roll"), F32(4, "pitch"), F32(8, "yaw")})
BridgePosition == Codec(16,
    {U32(0, "lat"), U32(4, "lon"), U32(8, "alt")} \cup {Zero(offset) : offset \in 12 .. 15})
BridgeAck == Codec(3, {U16(0, "command_id"), Zero(2)})

\* kestrel_gcs_usb.py: the bytes it shows, of payloads at least this long.
decode_heartbeat == Codec(10,
    {U32(0, "system_status"), U8(4, "system_type"), U8(6, "base_mode")})
decode_attitude == Codec(12, {F32(0, "roll"), F32(4, "pitch"), F32(8, "yaw")})
decode_gps == Codec(16,
    {U32(0, "lat"), U32(4, "lon"), U32(8, "alt"), U16(12, "eph"),
     U8(14, "satellites"), U8(15, "fix_type")})
decode_cmd_ack == Codec(3, {U16(0, "command_id"), U8(2, "result")})

\* serial_listener.py.
ListenerHeartbeat == Codec(10,
    {U32(0, "system_status"), U8(4, "system_type"), U8(5, "autopilot_type"),
     U8(6, "base_mode"), U8(7, "lost_link_action"), U16(8, "lost_link_timeout_s")})

(* What is written besides the library's serializers, and read besides its *)
(* deserializers.                                                          *)
Written ==
    [gcs |-> [heartbeat |-> GcsHeartbeat, command |-> GcsCommand],
     sender |-> [heartbeat |-> GcsHeartbeat],
     bridge |-> [heartbeat |-> BridgeHeartbeat, attitude |-> BridgeAttitude,
                 gps_raw |-> BridgePosition, command_ack |-> BridgeAck]]
Shown ==
    [gcs |-> [heartbeat |-> decode_heartbeat, attitude |-> decode_attitude,
              gps_raw |-> decode_gps, command_ack |-> decode_cmd_ack],
     listener |-> [heartbeat |-> ListenerHeartbeat]]

(* Fields that are the same in every message of a writer; kestrel_gcs_usb.py*)
(* and gcs_sender.py differ in the first byte of the status word.          *)
GcsConstants(top) ==
    [system_status |-> <<1, 0, 0, top>>, system_type |-> <<6>>, autopilot_type |-> <<8>>,
     base_mode |-> <<0>>, lost_link_action |-> <<0>>, lost_link_timeout_s |-> <<0, 0>>]
BridgeConstants == [system_status |-> <<1, 0, 0, 0>>]

Always(w, m) ==
    CASE w = "gcs" /\ m = "heartbeat" -> GcsConstants(176)
      [] w = "sender" /\ m = "heartbeat" -> GcsConstants(160)
      [] w = "bridge" /\ m = "heartbeat" -> BridgeConstants
      [] OTHER -> <<>>

----
Serializers ==
    [attitude |-> ks_serialize_attitude,
     heartbeat |-> ks_serialize_heartbeat,
     gps_raw |-> ks_serialize_gps_raw,
     battery |-> ks_serialize_battery,
     rc_input |-> ks_serialize_rc_input,
     command |-> ks_serialize_command,
     key_exchange |-> ks_serialize_key_exchange,
     key_exchange_ack |-> ks_serialize_key_exchange_ack,
     command_ack |-> ks_serialize_command_ack,
     mode_change |-> ks_serialize_mode_change,
     mission_item |-> ks_serialize_mission_item,
     param_request_read |-> ks_serialize_param_request_read,
     param_value |-> ks_serialize_param_value,
     param_set |-> ks_serialize_param_set,
     log_request_list |-> ks_serialize_log_request_list,
     log_entry |-> ks_serialize_log_entry,
     log_request_data |-> ks_serialize_log_request_data,
     statustext |-> ks_serialize_statustext,
     sys_status |-> ks_serialize_sys_status,
     vfr_hud |-> ks_serialize_vfr_hud,
     nav_controller |-> ks_serialize_nav_controller,
     mission_count |-> ks_serialize_mission_count,
     mission_request |-> ks_serialize_mission_request,
     mission_ack |-> ks_serialize_mission_ack,
     npnt_pa |-> ks_serialize_npnt_pa,
     npnt_status |-> ks_serialize_npnt_status,
     rid_basic_id |-> ks_serialize_rid_basic_id,
     rid_location |-> ks_serialize_rid_location]

Deserializers ==
    [attitude |-> ks_deserialize_attitude,
     heartbeat |-> ks_deserialize_heartbeat,
     gps_raw |-> ks_deserialize_gps_raw,
     battery |-> ks_deserialize_battery,
     rc_input |-> ks_deserialize_rc_input,
     command |-> ks_deserialize_command,
     key_exchange |-> ks_deserialize_key_exchange,
     key_exchange_ack |-> ks_deserialize_key_exchange_ack,
     command_ack |-> ks_deserialize_command_ack,
     mode_change |-> ks_deserialize_mode_change,
     mission_item |-> ks_deserialize_mission_item,
     param_request_read |-> ks_deserialize_param_request_read,
     param_value |-> ks_deserialize_param_value,
     param_set |-> ks_deserialize_param_set,
     log_request_list |-> ks_deserialize_log_request_list,
     log_entry |-> ks_deserialize_log_entry,
     log_request_data |-> ks_deserialize_log_request_data,
     statustext |-> ks_deserialize_statustext,
     sys_status |-> ks_deserialize_sys_status,
     vfr_hud |-> ks_deserialize_vfr_hud,
     nav_controller |-> ks_deserialize_nav_controller,
     mission_count |-> ks_deserialize_mission_count,
     mission_request |-> ks_deserialize_mission_request,
     mission_ack |-> ks_deserialize_mission_ack,
     npnt_pa |-> ks_deserialize_npnt_pa,
     npnt_status |-> ks_deserialize_npnt_status,
     rid_basic_id |-> ks_deserialize_rid_basic_id,
     rid_location |-> ks_deserialize_rid_location]

Kinds == DOMAIN Serializers \cup {"log_data"}

ASSUME LinksAssumption ==
    /\ Links \subseteq ({"library"} \cup DOMAIN Written) \X Kinds \X ({"library"} \cup DOMAIN Shown)
    /\ \A l \in Links : l[1] # "library" => l[2] \in DOMAIN Written[l[1]]

(* Who writes what for whom: the library for itself; USB drone and ground  *)
(* station; sketches and the listener or gcs_sender.py; bridge and ground  *)
(* station.                                                                *)
LibraryLinks == {<<"library", m, "library">> : m \in Kinds}
ToolLinks == {<<"library", m, "gcs">> : m \in {"heartbeat", "attitude", "command_ack"}}
                \cup {<<"gcs", m, "library">> : m \in {"heartbeat", "command"}}
                \cup {<<"library", "heartbeat", "listener">>, <<"sender", "heartbeat", "library">>}
BridgeLinks == {<<"bridge", m, "gcs">> : m \in {"heartbeat", "attitude", "gps_raw", "command_ack"}}
AllLinks == LibraryLinks \cup ToolLinks \cup BridgeLinks

Serializer(w, m, v) ==
    CASE w # "library" -> Written[w][m]
      [] w = "library" /\ m = "log_data" -> ks_serialize_log_data(v.count[1])
      [] OTHER -> Serializers[m]

(* log_data finds its count at offset 6 of the payload in.                 *)
Deserializer(r, m, in) ==
    CASE r # "library" /\ m \in DOMAIN Shown[r] -> Shown[r][m]
      [] r # "library" /\ m \notin DOMAIN Shown[r] -> Codec(1, {})    \* "Unknown msg"
      [] r = "library" /\ m = "log_data" -> ks_deserialize_log_data(in[7])
      [] OTHER -> Deserializers[m]

Covers(row, offset) == offset \in row.at .. row.at + row.size - 1

(* The bytes a row puts on the wire, and the field it makes of them.       *)
Put(row, v) ==
    CASE row.as \in {"bytes", "int32"} -> SubSeq(v[row.field], 1, row.size)
      [] row.as = "half" -> float_to_half(v[row.field])
      [] row.as = "clamped" -> <<Clamped(v[row.field][1])>>
      [] row.as = "zero" -> <<0>>

Take(row, in, upper) ==
    LET bytes == SubSeq(in, row.at + 1, row.at + row.size)
    IN  CASE row.as = "bytes" \/ Junk \in {bytes[k] : k \in 1 .. row.size} -> bytes
          [] row.as = "int32" -> unpack_int32(bytes, upper)
          [] row.as = "half" -> half_to_float(bytes)
          [] row.as = "string" -> Append(bytes, 0)
          [] row.as = "clamped" -> <<Clamped(bytes[1])>>
          [] row.as = "zero" -> <<0>>

(* The first `returns` bytes of the buffer after a call of the serializer. *)
Serialized(w, m, v) ==
    LET codec == Serializer(w, m, v)
        RowAt(offset) == CHOOSE row \in codec.rows : Covers(row, offset)
        Byte(offset) ==
            IF \E row \in codec.rows : Covers(row, offset)
            THEN Put(RowAt(offset), v)[offset - RowAt(offset).at + 1]
            ELSE Junk
    IN  [p \in 1 .. codec.returns |-> Byte(p - 1)]

Fields(rows) == {row.field : row \in rows}
RowOf(rows, field) == CHOOSE row \in rows : row.field = field

(* The structure a deserializer leaves.                                    *)
Deserialized(r, m, in, upper) ==
    LET rows == Deserializer(r, m, in).rows
    IN  [field \in Fields(rows) |-> Take(RowOf(rows, field), in, upper)]

----
(* The checksum.  A byte, and the checksum, is the set of its bits that    *)
(* are 1, so that the exclusive or is the symmetric difference.            *)

BitSet(n) == {i \in 0 .. 8 : (n \div 2^i) % 2 = 1}
Number(bits) ==
    LET bit(i) == IF i \in bits THEN 2^i ELSE 0
    IN  bit(0) + bit(1) + bit(2) + bit(3) + bit(4) + bit(5) + bit(6) + bit(7) + bit(8)

Shifted(bits, n) == {i + n : i \in bits} \cap 0 .. 15      \* left, or right if n < 0

X25_INIT_CRC == 0 .. 15

ks_crc_accumulate(data, crc) ==
    LET first == SymDiff(data, crc \cap 0 .. 7)
        tmp == SymDiff(first, Shifted(first, 4) \cap 0 .. 7)
    IN  SymDiff(Shifted(crc, -8),
                SymDiff(Shifted(tmp, 8), SymDiff(Shifted(tmp, 3), Shifted(tmp, -4))))

ChecksumShort(bytes, seed) ==      \* mutant: the loop ends one byte early
    LET crc[k \in 0 .. Len(bytes)] ==
            IF k = 0 THEN X25_INIT_CRC ELSE ks_crc_accumulate(bytes[k], crc[k - 1])
    IN  ks_crc_accumulate(BitSet(seed), crc[Len(bytes) - 1])

(* Of the bytes in front of the payload, which writer and reader take from *)
(* the line alike, only the message number is kept: it selects the seed.   *)
Checksum(bytes, seed) ==
    LET crc[k \in 0 .. Len(bytes)] ==
            IF k = 0 THEN X25_INIT_CRC ELSE ks_crc_accumulate(bytes[k], crc[k - 1])
    IN  ks_crc_accumulate(BitSet(seed), crc[Len(bytes)])

\* The seeds of message numbers from 0 on.
ks_crc_seed_table ==
    <<0, 117, 24, 154, 89, 0, 217, 143, 178, 62, 211, 93, 0, 0, 0, 0, 55, 86, 117, 148, 179,
      210, 241, 16, 47, 78, 109, 140, 171, 202, 233, 8, 39, 70, 100>>

Hashed(id) == (id * 31 + 7) % 256

ks_get_crc_seed(id) == IF id < 35 THEN ks_crc_seed_table[id + 1] ELSE Hashed(id)

\* kestrel_gcs_usb.py has the first twelve seeds, the other tools have nine.
get_crc_seed(id) == IF id < 12 THEN ks_crc_seed_table[id + 1] ELSE Hashed(id)
CRC_SEEDS(id) == IF id \in 1 .. 9 THEN ks_crc_seed_table[id + 1] ELSE Hashed(id)

Seed(program, id) ==
    CASE program \in {"library", "bridge"} -> ks_get_crc_seed(id)
      [] program = "gcs" -> get_crc_seed(id)
      [] program \in {"sender", "listener"} -> CRC_SEEDS(id)

MsgId ==
    [heartbeat |-> 1, attitude |-> 2, gps_raw |-> 3, battery |-> 4, rc_input |-> 5,
     command |-> 6, command_ack |-> 7, mode_change |-> 8, mission_item |-> 9,
     key_exchange |-> 10, key_exchange_ack |-> 11, param_request_read |-> 16,
     param_value |-> 19, param_set |-> 20, log_request_list |-> 21, log_entry |-> 22,
     log_request_data |-> 23, log_data |-> 24, statustext |-> 26, sys_status |-> 27,
     vfr_hud |-> 28, nav_controller |-> 29, mission_count |-> 30, mission_request |-> 31,
     npnt_pa |-> 32, npnt_status |-> 33, mission_ack |-> 34, rid_basic_id |-> 48,
     rid_location |-> 49]

(* The end of a packet as it goes on the line: component 1 and the message *)
(* number, the payload, and the checksum, low byte first.                  *)
Sealed(w, m, bytes) ==
    LET id == MsgId[m]
        body == <<BitSet(16 + id \div 256), BitSet(id % 256)>>
                    \o [k \in 1 .. Len(bytes) |-> BitSet(bytes[k])]
        crc == Checksum(body, Seed(w, id))
    IN  body \o <<crc \cap 0 .. 7, Shifted(crc, -8)>>

(* Whether the reader finds the checksum it computes, with the seed of the *)
(* message number it has read.                                             *)
CrcMatches(r, packet) ==
    LET n == Len(packet)
        id == 256 * (Number(packet[1]) % 16) + Number(packet[2])
        crc == Checksum(SubSeq(packet, 1, n - 2), Seed(r, id))
    IN  crc = packet[n - 1] \cup Shifted(packet[n], 8)

PayloadOf(packet) == [k \in 1 .. Len(packet) - 4 |-> Number(packet[k + 2])]
----
VARIABLES
    link,       \* the message under way, its writer and its reader, or none
    sent,       \* the structure it was made from
    serialized, \* its bytes
    wire,       \* the packet on the line, from its message number on
    struck,     \* the bits of it that were inverted on the line
    verdict,    \* what the reader made of its checksum
    length,     \* what the deserializer returned, 0 before
    got         \* the structure it was read into

messages_vars == <<link, sent, serialized, wire, struck, verdict, length, got>>

(* The size of a field in its C structure.                                 *)
SizeOf(row) ==
    CASE row.as = "half" -> 4
      [] row.as = "string" -> row.size + 1
      [] row.as \in {"bytes", "int32", "zero", "clamped"} -> row.size

(* n bytes made from a sample.                                             *)
Bytes(word, n) == [k \in 1 .. n |-> (word[((k - 1) % 4) + 1] + ((k - 1) \div 4)) % 256]

(* The fields of a writer's structure; the library's are those that the    *)
(* deserializer of a full payload knows.                                   *)
Rows(w, m) ==
    IF w = "library" THEN Deserializer("library", m, [p \in 1 .. 97 |-> 255]).rows
    ELSE {row \in Written[w][m].rows : row.as # "zero"}

(* The structure in which the fields in A are made of the sample x and the *)
(* others of y.                                                            *)
Structure(w, m, A, x, y) ==
    [field \in Fields(Rows(w, m)) |->
        IF field \in DOMAIN Always(w, m) THEN Always(w, m)[field]
        ELSE Bytes(IF field \in A THEN x ELSE y, SizeOf(RowOf(Rows(w, m), field)))]

Structs(w, m) ==
    {Structure(w, m, A, x, y) : A \in SUBSET Fields(Rows(w, m)), x \in Words, y \in Words}

MessagesInit ==
    /\ link = <<>>
    /\ sent = <<>>
    /\ serialized = <<>>
    /\ wire = <<>>
    /\ struck = {}
    /\ verdict = "none"
    /\ length = 0
    /\ got = <<>>

Serialize ==
    /\ link = <<>>
    /\ \E l \in Links :
          /\ link' = l
          /\ \E v \in Structs(l[1], l[2]) : sent' = v /\ serialized' = Serialized(l[1], l[2], v)
          /\ wire' = Sealed(l[1], l[2], serialized')
    /\ UNCHANGED <<struck, verdict, length, got>>

Halves == {HalfOf(s, 1024 * e + m) : s \in {0, 1}, e \in {0, 1, 30, 31}, m \in 0 .. 1023}

(* Another implementation sends an attitude with any half as a rate.       *)
PeerAttitude ==
    /\ link = <<>>
    /\ link' = <<"library", "attitude", "library">>
    /\ \E h \in Halves :
          /\ sent' = [rate |-> h]
          /\ serialized' = [p \in 1 .. 18 |-> IF p = 13 THEN h[1] ELSE
                                           IF p = 14 THEN h[2] ELSE 0]
    /\ wire' = Sealed("library", "attitude", serialized')
    /\ UNCHANGED <<struck, verdict, length, got>>

(* The packet with these bits inverted, counted from its first byte's      *)
(* lowest, the order in which the checksum, and the UART, take them.       *)
Inverted(packet, bits) ==
    [k \in DOMAIN packet |->
        SymDiff(packet[k], {i \in 0 .. 7 : 8 * (k - 1) + i \in bits})]

(* The line inverts a bit, or several close together behind the message    *)
(* number: within 16 in front of the checksum, within 13 over its edge.    *)
(* There it is weaker, since the seed is accumulated between the last byte *)
(* and the checksum: some wider faults over the edge go unnoticed.  The    *)
(* packet is the same for every value of its fields, since the checksum    *)
(* is linear in the bits.                                                  *)
Damage ==
    /\ link # <<>> /\ verdict = "none" /\ struck = {}
    /\ "rate" \notin DOMAIN sent
    /\ \A field \in DOMAIN sent \ DOMAIN Always(link[1], link[2]) :
          sent[field] = Bytes(Exemplar, Len(sent[field]))
    /\ \E burst \in Bursts, first \in 0 .. 8 * Len(wire) - 1 :
          /\ struck' = {first + i : i \in burst}
          /\ struck' \subseteq 0 .. 8 * Len(wire) - 1
          /\ \/ \E bit \in burst : burst = {bit}
             \/ first >= 16 /\ burst \subseteq 0 .. 12
             \/ first >= 16 /\ \A bit \in struck' : bit < 8 * (Len(wire) - 2)
    /\ wire' = Inverted(wire, struck')
    /\ UNCHANGED <<link, sent, serialized, verdict, length, got>>

(* The reader's parser returns the packet or an error (KS_ERR_CRC).        *)
Check ==
    /\ link # <<>> /\ verdict = "none"
    /\ verdict' = IF CrcMatches(link[3], wire) THEN "ok" ELSE "crc_error"
    /\ UNCHANGED <<link, sent, serialized, wire, struck, length, got>>

(* The parser's buffer, which the library reads without a length.          *)
Buffered(bytes) == bytes \o [p \in 1 .. 97 - Len(bytes) |-> Junk]

Deserialize ==
    /\ verdict = "ok" /\ length = 0 /\ link[3] = "library"
    /\ LET in == PayloadOf(wire)
       IN  /\ \E upper \in {0, 255} : got' = Deserialized("library", link[2], Buffered(in), upper)
           /\ length' = Deserializer("library", link[2], in).returns
    /\ UNCHANGED <<link, sent, serialized, wire, struck, verdict>>

(* The ground station's tools look at the length first ("(too short)").    *)
Show ==
    /\ verdict = "ok" /\ length = 0 /\ link[3] # "library"
    /\ LET in == PayloadOf(wire)
       IN  /\ length' = Deserializer(link[3], link[2], in).returns
           /\ got' = IF Len(in) < length' THEN <<>> ELSE Deserialized(link[3], link[2], in, 0)
    /\ UNCHANGED <<link, sent, serialized, wire, struck, verdict>>

MessagesNext == Serialize \/ PeerAttitude \/ Damage \/ Check \/ Deserialize \/ Show

MessagesSpec == MessagesInit /\ [][MessagesNext]_messages_vars
----
(* Every byte of the announced length was written, and every byte that is  *)
(* read came with the message: neither what an earlier message, or the     *)
(* stack, left in the sender's buffer is sent, nor what one left in the    *)
(* receiver's is shown.                                                    *)
NothingStale ==
    /\ serialized \in Seq(0 .. 255)
    /\ \A field \in DOMAIN got : got[field] \in Seq(0 .. 255)

(* A float's magnitude, in units of its last place.                        *)
Magnitude(f) == 8388608 * Exponent(f) + Mantissa(f)

(* A rate arrives cut, never rounded up, to the ten bits of a half; below  *)
(* 2^-14 it becomes zero of its sign, from 2^16 on (or not a number)       *)
(* infinite of its sign.                                                   *)
RateArrives(x, y) ==
    /\ Sign(x) = Sign(y)
    /\ Exponent(x) < 113 => Magnitude(y) = 0
    /\ Exponent(x) \in 113 .. 142 => Magnitude(y) = 8192 * (Magnitude(x) \div 8192)
    /\ Exponent(x) > 142 => Magnitude(y) = 8388608 * 255

Rates == {"rollspeed", "pitchspeed", "yawspeed"}

(* What the field x of a message may be after the trip.                    *)
FieldArrives(m, field, x, y) ==
    CASE field \in Rates -> RateArrives(x, y)
      [] field = "param_id" -> y = Append(SubSeq(x, 1, 15), 0)
      [] field = "text" -> y = Append(SubSeq(x, 1, 49), 0)
      [] field = "zero" -> y = <<0>>
      [] m = "log_data" /\ field = "count" -> y = <<Clamped(x[1])>>
      [] m = "log_data" /\ field = "data" -> y = SubSeq(x, 1, Clamped(sent.count[1]))
      [] OTHER -> y = x

(* Writer and reader of every message agree on the place of every field:   *)
(* each arrives as it was, or cut as its type says, and one the writer     *)
(* does not have reads as zeros.  Serializer and deserializer of the       *)
(* library agree on all fields and on the length.                          *)
RoundTrip ==
    length > 0 /\ "rate" \notin DOMAIN sent =>
        /\ got # <<>>
        /\ \A field \in DOMAIN got :
              IF field \in DOMAIN sent THEN FieldArrives(link[2], field, sent[field], got[field])
              ELSE \A k \in DOMAIN got[field] : got[field][k] = 0
        /\ link[1] = "library" /\ link[3] = "library" =>
              length = Len(serialized) /\ DOMAIN got = DOMAIN sent

(* The checksum tells: a packet that came as it was sent passes, whoever   *)
(* computed it and whoever checks it, and one in which the line inverted a *)
(* bit anywhere, or several close together behind the message number (as   *)
(* Damage has them), is refused ("CRC-16 integrity check for entire packet *)
(* (detect transmission errors)", kestrel.c:43) - a changed number also    *)
(* changes the seed.                                                       *)
ChecksumTells == verdict # "none" => (verdict = "ok" <=> struck = {})

(* f is the float of exactly the value of the half h.                      *)
HalfRead(h, f) ==
    LET e == (h[2] % 128) \div 4
        m == 256 * (h[2] % 4) + h[1]
    IN  /\ Sign(f) = h[2] \div 128
        /\ e \in 1 .. 30 => Exponent(f) = e + 112 /\ Mantissa(f) = m * 8192
        /\ e = 31 => Exponent(f) = 255 /\ Mantissa(f) = m * 8192
        /\ e = 0 /\ m = 0 => Magnitude(f) = 0
        /\ e = 0 /\ m > 0 =>      \* m 2^-24 = (2^23 + Mantissa) 2^(Exponent - 150)
              /\ Exponent(f) \in 103 .. 112
              /\ 8388608 + Mantissa(f) = m * 2^(126 - Exponent(f))

(* A half, subnormal ones included ("BUG-04 FIX", kestrel.c:300-302), is   *)
(* read as the float of exactly its value.                                 *)
HalfExact == length > 0 /\ "rate" \in DOMAIN sent => HalfRead(sent.rate, got.rollspeed)
====
