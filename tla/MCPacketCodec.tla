--------------------------- MODULE MCPacketCodec ---------------------------
(* PacketCodec with packets around every length that matters. *)
EXTENDS PacketCodec

A == <<10, 0, 0, 1>>
B == <<10, 0, 255, 2>>

\* Bytes that differ from their neighbours; metrics stay below 2^31.
Bytes(n) == [i \in 1 .. n |-> (7 * i + 3) % 128]

Made(type, control, lengths) ==
  {[source_ip |-> A, dest_ip |-> B, packet_type |-> type, control_type |-> control,
    payload |-> Bytes(n)] : n \in lengths}

\* The longest payload that is accepted has 65497 bytes.  The constructors give control
\* packets a control type and no others.
MCPackets ==
  UNION {Made("Data", "None", {0, 1, 65497, 65498}),
         Made("Data", "Disconnect", {1}),
         Made("Keepalive", "None", {0}),
         Made("Keepalive", "RouteUpdate", {15}),
         Made("Control", "None", {0}),
         Made("Control", "ConfigRequest", {0}),
         Made("Control", "ConfigResponse", {12}),
         Made("Control", "RouteUpdate", {0, 8, 16, 33, 48}),
         Made("Control", "Disconnect", {0})}

MCConfigs == {DefaultConfig, [mtu |-> 9000, keepalive_interval |-> 0, reconnect_attempts |-> 70000]}
=============================================================================
