-------------------------------- MODULE Codec --------------------------------
(***************************************************************************)
(* The two wire formats: HT2MP/6 packets between sidecar and coordinator   *)
(* (src/protocol/codec.cpp) and frames between sidecar and bridge          *)
(* (src/ipc/codec.cpp).  In both, writer and reader of a message are       *)
(* separate code.  A layout is the sequence of the values one of them      *)
(* handles, each a name and a type; little-endian bytes are abstracted to  *)
(* the width of the type, and a reader that takes a value under another    *)
(* name or type than the writer put there reads something else.            *)
(***************************************************************************)
EXTENDS Integers, Sequences, FiniteSets, SequencesExt

CONSTANTS
    HeaderSize,          \* kPacketHeaderSize
    MaxPacketSize,       \* kMaxPacketSize
    MaxSnapshotPlayers,  \* kMaxSnapshotPlayers
    MaxPayload           \* ipc::kMaximumPayloadSize

Count(layout, type) == Cardinality({i \in DOMAIN layout : layout[i][2] = type})

\* In bytes.
Size(layout) ==
    Count(layout, "u8") + 2 * Count(layout, "u16")
    + 4 * (Count(layout, "u32") + Count(layout, "i32") + Count(layout, "f32"))
    + 8 * (Count(layout, "u64") + Count(layout, "f64"))

Of(type, names) == [i \in DOMAIN names |-> <<names[i], type>>]
Array(type, name, n) == [i \in 1..n |-> <<name, type>>]
Bytes(name, n) == Array("u8", name, n)

\* Writer::string8 and Reader::string8: a length byte and that many characters,
\* of which the longest is taken.
String8(name, maximum) == Bytes(name, 1 + maximum)

NameBytes == 32
ProfileBytes == 32
DetailBytes == 96

-----------------------------------------------------------------------------
(* The parts of an HT2MP/6 player state, as they are written and as they   *)
(* are read.                                                               *)

WriteLocation ==
    Of("i32", <<"room", "road", "node">>) \o Of("f64", <<"distance">>)
    \o Of("i32", <<"vector", "segment", "aux0", "aux1">>)

ReadLocation ==
    Of("i32", <<"room", "road", "node">>) \o Of("f64", <<"distance">>)
    \o Of("i32", <<"vector", "segment", "aux0", "aux1">>)

WriteVehicle ==
    Of("u8", <<"valid", "steering">>) \o Array("u8", "light", 4)
    \o Array("f32", "condition", 49) \o Of("u8", <<"wheels">>)
    \o Array("f32", "speed", 8) \o Of("u8", <<"horn">>) \o Of("u16", <<"press">>)

ReadVehicle ==
    Of("u8", <<"valid", "steering">>) \o Array("u8", "light", 4)
    \o Array("f32", "condition", 49) \o Of("u8", <<"wheels">>)
    \o Array("f32", "speed", 8) \o Of("u8", <<"horn">>) \o Of("u16", <<"press">>)

WriteEnvironment ==
    Of("u64", <<"session">>) \o Of("f64", <<"day", "weather", "variation">>)
    \o Of("f32", <<"dayLength", "weatherLength", "bias">>) \o Of("u8", <<"preset">>)

ReadEnvironment ==
    Of("u64", <<"session">>) \o Of("f64", <<"day", "weather", "variation">>)
    \o Of("f32", <<"dayLength", "weatherLength", "bias">>) \o Of("u8", <<"preset">>)

WriteState ==
    Of("u64", <<"session", "player", "incarnation">>) \o Of("u32", <<"sequence">>)
    \o Of("u64", <<"time">>) \o Of("u8", <<"flags">>)
    \o Array("f64", "position", 3) \o Array("f32", "orientation", 4)
    \o Array("f32", "velocity", 3) \o Array("f32", "spin", 3)
    \o Of("u16", <<"type">>) \o Of("u8", <<"paint">>)
    \o WriteLocation \o WriteVehicle

ReadState ==
    Of("u64", <<"session", "player", "incarnation">>) \o Of("u32", <<"sequence">>)
    \o Of("u64", <<"time">>) \o Of("u8", <<"flags">>)
    \o Array("f64", "position", 3) \o Array("f32", "orientation", 4)
    \o Array("f32", "velocity", 3) \o Array("f32", "spin", 3)
    \o Of("u16", <<"type">>) \o Of("u8", <<"paint">>)
    \o ReadLocation \o ReadVehicle

-----------------------------------------------------------------------------
(* Packets.                                                                *)

Appearance == Of("u16", <<"type">>) \o Of("u8", <<"paint">>)
Peer == Of("u64", <<"player", "incarnation">>)

States(one, n) == FlattenSeq([i \in 1..n |-> one])

\* The payload encode_packet writes.
EncodedPacket ==
    [client_hello |->
        Of("u64", <<"incarnation">>) \o Bytes("token", 16) \o Appearance
        \o String8("profile", ProfileBytes) \o String8("name", NameBytes),
     server_welcome |->
        Of("u64", <<"session", "player", "time">>) \o Of("u8", <<"players", "hz">>)
        \o String8("profile", ProfileBytes),
     peer_joined |-> Peer \o Appearance \o String8("name", NameBytes),
     spawn_metadata |-> Peer \o Appearance \o String8("name", NameBytes),
     peer_left |-> Peer \o Of("u8", <<"reason">>),
     ping |-> Of("u64", <<"nonce", "clientTime">>),
     pong |-> Of("u64", <<"nonce", "clientTime", "time">>),
     disconnect |-> Of("u8", <<"reason">>) \o String8("detail", DetailBytes),
     player_state |-> WriteState]

\* The payload decode_packet reads.
DecodedPacket ==
    [client_hello |->
        Of("u64", <<"incarnation">>) \o Bytes("token", 16) \o Appearance
        \o String8("profile", ProfileBytes) \o String8("name", NameBytes),
     server_welcome |->
        Of("u64", <<"session", "player", "time">>) \o Of("u8", <<"players", "hz">>)
        \o String8("profile", ProfileBytes),
     peer_joined |-> Peer \o Appearance \o String8("name", NameBytes),
     spawn_metadata |-> Peer \o Appearance \o String8("name", NameBytes),
     peer_left |-> Peer \o Of("u8", <<"reason">>),
     ping |-> Of("u64", <<"nonce", "clientTime">>),
     pong |-> Of("u64", <<"nonce", "clientTime", "time">>),
     disconnect |-> Of("u8", <<"reason">>) \o String8("detail", DetailBytes),
     player_state |-> ReadState]

EncodedSnapshot ==
    [n \in 0..MaxSnapshotPlayers |->
        Of("u64", <<"time">>) \o WriteEnvironment \o Of("u8", <<"count">>)
        \o States(WriteState, n)]

DecodedSnapshot ==
    [n \in 0..MaxSnapshotPlayers |->
        Of("u64", <<"time">>) \o ReadEnvironment \o Of("u8", <<"count">>)
        \o States(ReadState, n)]

\* A packet is written, fits, and is read for what it says; a reader that is
\* left with too few or too many bytes refuses it.
Carried(written, read) == HeaderSize + Size(written) <= MaxPacketSize /\ read = written

Packets == DOMAIN EncodedPacket

CarriedPackets == {kind \in Packets : Carried(EncodedPacket[kind], DecodedPacket[kind])}

\* By the number of states in them.
CarriedSnapshots ==
    {n \in 0..MaxSnapshotPlayers : Carried(EncodedSnapshot[n], DecodedSnapshot[n])}

-----------------------------------------------------------------------------
(* Frames.  The payload is an array of a fixed size that the writer fills. *)

WriteSample ==
    Of("u64", <<"player", "incarnation", "time", "receive">>)
    \o Of("u32", <<"sequence">>) \o Of("u8", <<"flags">>)
    \o Array("f64", "position", 3) \o Array("f32", "orientation", 4)
    \o Array("f32", "velocity", 3) \o Array("f32", "spin", 3)
    \o WriteVehicle \o Appearance \o WriteLocation

\* The parts in the order of a packet.
ReadSampleAsState ==
    Of("u64", <<"player", "incarnation", "time", "receive">>)
    \o Of("u32", <<"sequence">>) \o Of("u8", <<"flags">>)
    \o Array("f64", "position", 3) \o Array("f32", "orientation", 4)
    \o Array("f32", "velocity", 3) \o Array("f32", "spin", 3)
    \o Appearance \o ReadLocation \o ReadVehicle

ReadSample ==
    Of("u64", <<"player", "incarnation", "time", "receive">>)
    \o Of("u32", <<"sequence">>) \o Of("u8", <<"flags">>)
    \o Array("f64", "position", 3) \o Array("f32", "orientation", 4)
    \o Array("f32", "velocity", 3) \o Array("f32", "spin", 3)
    \o ReadVehicle \o Appearance \o ReadLocation

SampleSize == 378

BridgeHello ==
    [size |-> 60,
     write |-> Of("u32", <<"abi">>) \o Of("u64", <<"run">>) \o Bytes("nonce", 16)
               \o Bytes("profile", 32),
     read |-> Of("u32", <<"abi">>) \o Of("u64", <<"run">>) \o Bytes("nonce", 16)
              \o Bytes("profile", 32)]

BridgeReady ==
    [size |-> 12,
     write |-> Of("u32", <<"result", "mode", "capabilities">>),
     read |-> Of("u32", <<"result", "mode", "capabilities">>)]

BridgeStatus ==
    [size |-> 168,
     write |-> Of("u32", <<"code", "mode">>) \o Bytes("detail", 160),
     read |-> Of("u32", <<"code", "mode">>) \o Bytes("detail", 160)]

SetObserverMode ==
    [size |-> 1, write |-> Of("u8", <<"enabled">>), read |-> Of("u8", <<"enabled">>)]

EnterSafeMode ==
    [size |-> 4, write |-> Of("u32", <<"reason">>), read |-> Of("u32", <<"reason">>)]

PlayerSample == [size |-> SampleSize, write |-> WriteSample, read |-> ReadSample]

SpawnRemote ==
    [size |-> 52, write |-> Peer \o Appearance \o Bytes("name", 33),
     read |-> Peer \o Appearance \o Bytes("name", 33)]

DespawnRemote == [size |-> 16, write |-> Peer, read |-> Peer]

Environment ==
    [size |-> 61,
     write |-> Of("u64", <<"time", "receive">>) \o WriteEnvironment,
     read |-> Of("u64", <<"time", "receive">>) \o ReadEnvironment]

FrameLayouts ==
    [bridge_hello |-> BridgeHello, bridge_ready |-> BridgeReady,
     bridge_status |-> BridgeStatus, local_sample |-> PlayerSample,
     spawn_remote |-> SpawnRemote, remote_sample |-> PlayerSample,
     despawn_remote |-> DespawnRemote, set_observer_mode |-> SetObserverMode,
     enter_safe_mode |-> EnterSafeMode, environment |-> Environment]

Frames == DOMAIN FrameLayouts

\* The writer must not run over the array, which must not exceed a frame.
FrameWritten(frame) == Size(frame.write) <= frame.size /\ frame.size <= MaxPayload

\* The reader must use up the frame, and find what was written.
FrameRead(frame) == Size(frame.read) = frame.size /\ frame.read = frame.write

\* The number a frame's header names it by.
FrameNumber ==
    [bridge_hello |-> 1, bridge_ready |-> 2, bridge_status |-> 3, local_sample |-> 4,
     spawn_remote |-> 5, remote_sample |-> 6, despawn_remote |-> 7,
     set_observer_mode |-> 8, enter_safe_mode |-> 9, environment |-> 10]

\* The two ends of the pipe do not read the same frames.
SidecarReads == {kind \in Frames : FrameNumber[kind] <= FrameNumber.enter_safe_mode}
BridgeReads == {kind \in Frames : FrameNumber[kind] <= FrameNumber.environment}

\* The frames the bridge acts on; it sends the others.
ToBridge ==
    {"environment", "spawn_remote", "remote_sample", "despawn_remote",
     "set_observer_mode", "enter_safe_mode"}

Reaching == (ToBridge \cap BridgeReads) \cup (SidecarReads \ ToBridge)

CarriedFrames ==
    {kind \in Reaching :
        FrameWritten(FrameLayouts[kind]) /\ FrameRead(FrameLayouts[kind])}

-----------------------------------------------------------------------------
(* What the validators object to in a player state.  A sample's flaw is    *)
(* the part of it that is out of bounds, "none" when there is none.        *)

Flaw == {"none", "vehicle", "infinite", "bounds"}

\* valid_vehicle_state, in write_player_sample and read_player_sample.
FrameObjectsTo == {"vehicle"}

\* validate(PlayerState): pose, velocity or place not finite or out of the
\* profile's bounds, and the vehicle state.
PacketObjectsTo == {"vehicle", "infinite", "bounds"}

\* ValidState of the receiver's command queue, whose objection is safe mode.  It also
\* checks identity, flags, paint and the norm of the orientation, which the validator of
\* the packet and to_ipc have seen to before.
QueueObjectsTo == {"vehicle", "infinite"}

\* finite_sample of the playback, which drops the sample.
TimelineObjectsTo == {"infinite"}
=============================================================================
