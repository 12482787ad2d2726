---------------------------- MODULE PacketCodec ----------------------------
(***************************************************************************)
(* What becomes of a packet on its way from VpnClient to VpnWorker and     *)
(* back: its layout (protocol/packet.rs, protocol/handler.rs), encryption  *)
(* (crypto/encryption.rs), the length limit of both readers (network/),    *)
(* the dispatch on its type, and the payloads of configs and routes        *)
(* (vpn/vpn_worker.rs, vpn/vpn_service.rs).  One client makes one request  *)
(* after the other and the connection works: VpnSession has the streams    *)
(* and the threads, VpnServer the other clients.                           *)
(*                                                                         *)
(* AES-GCM is taken at its promise: a ciphertext is its plaintext and the  *)
(* key that sealed it, opens under that key only and is 28 bytes longer    *)
(* with the nonce in front of it.                                          *)
(***************************************************************************)
EXTENDS Naturals, Sequences

CONSTANTS
  Packets,  \* the packets that the application sends
  Configs,  \* the configurations that it may give the client at first
  Keys      \* encryption keys

Byte == 0 .. 255
MaxPacket == 65535

PacketType == {"Data", "Keepalive", "Control"}
ControlType == {"ConfigRequest", "ConfigResponse", "RouteUpdate", "Disconnect"}

\* VpnPacket.  control_type is an Option, and the fields are public: nothing ties it
\* to the packet type.
Packet == [source_ip : [1 .. 4 -> Byte], dest_ip : [1 .. 4 -> Byte], packet_type : PacketType,
           control_type : ControlType \cup {"None"}, payload : Seq(Byte)]

Config == [mtu : Nat, keepalive_interval : Nat, reconnect_attempts : Nat]

ASSUME CodecAssumption == Packets \subseteq Packet /\ Configs \subseteq Config

Ok(x) == [ok |-> TRUE, val |-> x]
Err(kind) == [ok |-> FALSE, val |-> kind]

\* An Option is a sequence: <<x>>, or Nothing.
Nothing == <<>>

-----------------------------------------------------------------------------
(***************************************************************************)
(* Packets in bytes.                                                       *)
(***************************************************************************)

\* "as u32", then u32::to_be_bytes; from_be_bytes.
ToBe(n) == <<(n \div 16777216) % 256, (n \div 65536) % 256, (n \div 256) % 256, n % 256>>
FromBe(b) == 16777216 * b[1] + 65536 * b[2] + 256 * b[3] + b[4]

TypeCode(t) == CASE t = "Data" -> 0 [] t = "Keepalive" -> 1 [] t = "Control" -> 2

\* PacketType::try_from
TypeOf(b) == CASE b = 0 -> Ok("Data") [] b = 1 -> Ok("Keepalive") [] b = 2 -> Ok("Control")
               [] OTHER -> Err("Protocol")

\* An absent control type is written like ConfigRequest.
ControlCode(c) == CASE c \in {"None", "ConfigRequest"} -> 0 [] c = "ConfigResponse" -> 1
                    [] c = "RouteUpdate" -> 2 [] c = "Disconnect" -> 3

\* ControlType::try_from
ControlOf(b) == CASE b = 0 -> Ok("ConfigRequest") [] b = 1 -> Ok("ConfigResponse")
                  [] b = 2 -> Ok("RouteUpdate") [] b = 3 -> Ok("Disconnect")
                  [] OTHER -> Err("Protocol")

\* Mutant of ToBytes: the control type is written if there is one.
ToBytesIfPresent(p) ==
  p.source_ip \o p.dest_ip \o <<TypeCode(p.packet_type)>>
    \o (IF p.control_type = "None" THEN <<>> ELSE <<ControlCode(p.control_type)>>) \o p.payload

\* VpnPacket::to_bytes, and the plaintext that ProtocolHandler::pack makes.
ToBytes(p) == p.source_ip \o p.dest_ip
                \o <<TypeCode(p.packet_type), ControlCode(p.control_type)>> \o p.payload

\* The packet that is laid out in b, which has ten bytes at least.
Fields(b) ==
  LET control == IF TypeOf(b[9]) = Ok("Control") THEN ControlOf(b[10]) ELSE Ok("None")
  IN IF ~TypeOf(b[9]).ok \/ ~control.ok THEN Err("Protocol")
     ELSE Ok([source_ip |-> SubSeq(b, 1, 4), dest_ip |-> SubSeq(b, 5, 8),
              packet_type |-> TypeOf(b[9]).val, control_type |-> control.val,
              payload |-> SubSeq(b, 11, Len(b))])

\* VpnPacket::from_bytes
FromBytes(b) == IF Len(b) < 10 THEN Err("Protocol") ELSE Fields(b)

\* ProtocolHandler::unpack of what was decrypted.  Eight bytes pass its length check,
\* but to slice the payload off fewer than ten panics.
Unpacked(b) ==
  CASE Len(b) < 8       -> Err("GenericError")
    [] Len(b) \in 8 .. 9 -> Err("panic")
    [] OTHER             -> Fields(b)

\* EncryptionManager: nonce, ciphertext and tag.
Encrypt(k, b) == [key |-> k, plain |-> b, len |-> Len(b) + 28]
Decrypt(k, f) == IF f.key = k THEN Ok(f.plain) ELSE Err("Encryption")

Pack(k, p) == Encrypt(k, ToBytes(p))
Unpack(k, f) == IF Decrypt(k, f).ok THEN Unpacked(Decrypt(k, f).val) ELSE Decrypt(k, f)

\* Mutant of ReadFrame: it refuses the longest packet.
ReadFrameShort(k, f) == IF f.len >= MaxPacket THEN Err("Protocol") ELSE Unpack(k, f)

\* Both readers refuse a frame for its length prefix, and unpack it otherwise.
ReadFrame(k, f) == IF f.len > MaxPacket THEN Err("Protocol") ELSE Unpack(k, f)

NoAddr == <<0, 0, 0, 0>>

\* VpnPacket::new_control, with set_payload.
NewControl(type, payload) ==
  [source_ip |-> NoAddr, dest_ip |-> NoAddr, packet_type |-> "Control",
   control_type |-> type, payload |-> payload]

-----------------------------------------------------------------------------
(***************************************************************************)
(* Payloads.                                                               *)
(***************************************************************************)

DefaultConfig == [mtu |-> 1500, keepalive_interval |-> 30, reconnect_attempts |-> 3]

SerializeConfig(c) ==
  ToBe(c.mtu) \o ToBe(c.keepalive_interval) \o ToBe(c.reconnect_attempts)

\* Mutant of ConfigFromBytes: the offsets of two fields are swapped.
ConfigFromBytesSwapped(b) ==
  IF Len(b) < 12 THEN Err("Protocol")
  ELSE Ok([mtu |-> FromBe(SubSeq(b, 1, 4)), reconnect_attempts |-> FromBe(SubSeq(b, 5, 8)),
           keepalive_interval |-> FromBe(SubSeq(b, 9, 12))])

\* VpnConfig::from_bytes
ConfigFromBytes(b) ==
  IF Len(b) < 12 THEN Err("Protocol")
  ELSE Ok([mtu |-> FromBe(SubSeq(b, 1, 4)), keepalive_interval |-> FromBe(SubSeq(b, 5, 8)),
           reconnect_attempts |-> FromBe(SubSeq(b, 9, 12))])

\* The route entry that starts after the first o bytes of b.
Route(b, o) ==
  [target_network |-> SubSeq(b, o + 1, o + 4), network_mask |-> SubSeq(b, o + 5, o + 8),
   next_hop |-> SubSeq(b, o + 9, o + 12), metric |-> FromBe(SubSeq(b, o + 13, o + 16))]

\* Mutant of ParseRoutes: the loop ends before the last entry.
ParseRoutesShort(b) ==
  IF Len(b) % 16 # 0 THEN Err("Protocol")
  ELSE Ok([i \in 1 .. Len(b) \div 16 - 1 |-> Route(b, 16 * (i - 1))])

\* VpnWorker::parse_route_updates
ParseRoutes(b) ==
  IF Len(b) % 16 # 0 THEN Err("Protocol")
  ELSE Ok([i \in 1 .. Len(b) \div 16 |-> Route(b, 16 * (i - 1))])

-----------------------------------------------------------------------------
(***************************************************************************)
(* The exchanges.                                                          *)
(***************************************************************************)
VARIABLES
  pc,          \* control of the client: new, sent, answered, ready, closed
  connected,   \* VpnClient.connected
  config,      \* VpnClient.config
  key,         \* the keys of the two ends
  request,     \* the packet that the client has sent last
  reply,       \* the frame that the server has answered it with, if any
  outcome,     \* what the client has made of that
  registered,  \* the server has the client in its map
  configs,     \* VpnWorker.client_configs, of this client
  routes,      \* VpnWorker.routes, of this client
  worker,      \* running, or dead by a panic
  culprit      \* history: the packet that the server has dropped the client for, if any

clientVars == <<pc, connected, config, request, outcome>>
serverVars == <<registered, configs, routes, worker, culprit>>
vars == <<clientVars, serverVars, key, reply>>

\* VpnClient::new, up to the ConfigRequest of the handshake.
Init ==
  /\ pc = "new" /\ connected = FALSE /\ config \in Configs
  /\ key \in [client : Keys, server : Keys]
  /\ request = NewControl("ConfigRequest", <<>>)
  /\ reply = Nothing /\ outcome = Err("none")
  /\ registered = TRUE /\ configs = Nothing /\ routes = Nothing
  /\ worker = "running" /\ culprit = Nothing

\* The client writes the ConfigRequest.
Handshake ==
  /\ pc = "new"
  /\ pc' = "sent"
  /\ UNCHANGED <<connected, config, request, outcome, serverVars, key, reply>>

\* send_packet, up to the write.
SendPacket(p) ==
  /\ pc = "ready"
  /\ request' = p /\ pc' = "sent"
  /\ UNCHANGED <<connected, config, outcome, serverVars, key, reply>>

\* What service_read_packet and unpack make of the client's frame.
Received == ReadFrame(key.server, Pack(key.client, request))

\* The worker turns to the client; answer is what it writes, if anything.
Handles(answer) ==
  /\ pc = "sent" /\ registered /\ worker = "running"
  /\ pc' = "answered"
  /\ reply' = answer
  /\ UNCHANGED <<connected, config, request, outcome, key>>

Answer(p) == <<Pack(key.server, p)>>

\* main_loop removes a client for an error of the protocol, and for no other.  A panic
\* is none of its errors: it unwinds the thread.
Dismiss(error) ==
  /\ Handles(Nothing)
  /\ IF error = "Protocol" THEN registered' = FALSE /\ culprit' = <<request>>
                           ELSE UNCHANGED <<registered, culprit>>
  /\ worker' = IF error = "panic" THEN "panicked" ELSE worker
  /\ UNCHANGED <<configs, routes>>

\* The frame cannot be read.
Unreadable == ~Received.ok /\ Dismiss(Received.val)

\* Mutant of Echo: the addresses are not swapped.
EchoUnswapped(p) ==
  [source_ip |-> p.source_ip, dest_ip |-> p.dest_ip, packet_type |-> "Data",
   control_type |-> p.control_type, payload |-> p.payload]

\* VpnWorker::process_data_packet
Echo(p) ==
  [source_ip |-> p.dest_ip, dest_ip |-> p.source_ip, packet_type |-> "Data",
   control_type |-> p.control_type, payload |-> p.payload]

HandleData ==
  /\ Received.ok /\ Received.val.packet_type = "Data"
  /\ Handles(Answer(Echo(Received.val)))
  /\ UNCHANGED serverVars

HandleKeepalive ==
  /\ Received.ok /\ Received.val.packet_type = "Keepalive"
  /\ Handles(Nothing)
  /\ UNCHANGED serverVars

\* VpnWorker::send_config.  Received packets have a control type if and only if they are
\* control packets, which is how handle_client_packet tells them.
SendConfig ==
  /\ Received.ok /\ Received.val.control_type = "ConfigRequest"
  /\ configs' = IF configs = Nothing THEN <<DefaultConfig>> ELSE configs
  /\ Handles(Answer(NewControl("ConfigResponse", SerializeConfig(configs'[1]))))
  /\ UNCHANGED <<registered, routes, worker, culprit>>

\* VpnWorker::update_routes
UpdateRoutes ==
  /\ Received.ok /\ Received.val.control_type = "RouteUpdate"
  /\ LET parsed == ParseRoutes(Received.val.payload)
     IN IF parsed.ok
        THEN /\ routes' = <<parsed.val>>
             /\ Handles(Answer(NewControl("RouteUpdate", <<1>>)))
             /\ UNCHANGED <<registered, configs, worker, culprit>>
        ELSE Dismiss(parsed.val)

\* VpnWorker::handle_disconnect
HandleDisconnect ==
  /\ Received.ok /\ Received.val.control_type = "Disconnect"
  /\ Handles(Answer(NewControl("Disconnect", <<>>)))
  /\ registered' = FALSE /\ culprit' = <<request>>
  /\ configs' = Nothing /\ routes' = Nothing
  /\ UNCHANGED worker

\* "Unknown control packet"
UnknownControl ==
  /\ Received.ok /\ Received.val.control_type = "ConfigResponse"
  /\ Dismiss("Protocol")

\* Nobody reads what the client has sent.
Unheard ==
  /\ pc = "sent" /\ (~registered \/ worker # "running")
  /\ pc' = "answered" /\ reply' = Nothing
  /\ UNCHANGED <<connected, config, request, outcome, serverVars, key>>

Server == \/ Unreadable \/ HandleData \/ HandleKeepalive \/ SendConfig
          \/ UpdateRoutes \/ HandleDisconnect \/ UnknownControl \/ Unheard

\* client_read_packet and unpack; without an answer the connection ends or 45 s pass.
ClientReads == IF reply = Nothing THEN Err("Io") ELSE ReadFrame(key.client, reply[1])

\* The handshake takes a ConfigResponse that holds a configuration.
Settings(response) ==
  IF response.ok THEN IF response.val.control_type = "ConfigResponse"
                      THEN ConfigFromBytes(response.val.payload) ELSE Err("Protocol")
                 ELSE response

FinishHandshake ==
  /\ pc = "answered" /\ ~connected
  /\ outcome' = ClientReads
  /\ IF Settings(ClientReads).ok
     THEN pc' = "ready" /\ connected' = TRUE /\ config' = Settings(ClientReads).val
     ELSE pc' = "closed" /\ UNCHANGED <<connected, config>>
  /\ UNCHANGED <<request, serverVars, key, reply>>

\* send_packet returns what it has read.
Return ==
  /\ pc = "answered" /\ connected
  /\ outcome' = ClientReads /\ pc' = "ready"
  /\ UNCHANGED <<connected, config, request, serverVars, key, reply>>

\* VpnClient::new has returned an error.
Closed == pc = "closed" /\ UNCHANGED vars

Next == \/ Handshake \/ FinishHandshake \/ Return \/ Closed \/ Server
        \/ \E p \in Packets : SendPacket(p)

Spec == Init /\ [][Next]_vars
-----------------------------------------------------------------------------
(***************************************************************************)
(* Properties.                                                             *)
(***************************************************************************)

\* A frame has 65535 bytes at most, ten of them header and 28 encryption.
Fits(p) == Len(p.payload) <= 65497

WholeRoutes(p) == Len(p.payload) % 16 = 0

\* What the server takes from a client that stays.
Acceptable(p) ==
  /\ Fits(p)
  /\ p.packet_type = "Control" =>
       /\ p.control_type \notin {"ConfigResponse", "Disconnect"}
       /\ p.control_type = "RouteUpdate" => WholeRoutes(p)

\* What the client is to get for it.
Expected(p) ==
  CASE p.packet_type = "Data" ->
         Ok([source_ip |-> p.dest_ip, dest_ip |-> p.source_ip, packet_type |-> "Data",
             control_type |-> "None", payload |-> p.payload])
    [] p.packet_type = "Keepalive" -> Err("Io")
    [] p.packet_type = "Control" /\ p.control_type = "RouteUpdate" ->
         Ok(NewControl("RouteUpdate", <<1>>))
    [] OTHER ->
         Ok(NewControl("ConfigResponse", <<0, 0, 5, 220, 0, 0, 0, 30, 0, 0, 0, 3>>))

\* As long as the server has not dropped the client, each request gets its answer
\* through both encodings unharmed, and every answer fits the client's reader.
AnswersUnderstood ==
  pc = "ready" /\ registered => outcome = Expected(request)

\* The server drops the client for a packet it cannot accept and for no other: the
\* limits of reader, header, encryption and routes agree to the byte.
DroppedIffUnacceptable ==
  /\ ~registered => culprit # Nothing /\ ~Acceptable(culprit[1])
  /\ pc = "ready" /\ registered => Acceptable(request)

\* Eight or nine bytes of plaintext would kill the worker, but whatever a client packs,
\* malformed packets included, has more.
NeverPanics == worker = "running"

\* The bytes of a number, without a division.
Encodes(b, n) == n = ((b[1] * 256 + b[2]) * 256 + b[3]) * 256 + b[4]

\* An acknowledged update has put into the table what the client has sent, entry for
\* entry and all of it.
RoutesAsSent ==
  pc = "ready" /\ registered /\ request.packet_type = "Control" /\ request.control_type = "RouteUpdate"
  => /\ 16 * Len(routes[1]) = Len(request.payload)
     /\ \A i \in DOMAIN routes[1] :
          LET r == routes[1][i]
              bytes == SubSeq(request.payload, 16 * (i - 1) + 1, 16 * i)
          IN /\ r.target_network \o r.network_mask \o r.next_hop = SubSeq(bytes, 1, 12)
             /\ Encodes(SubSeq(bytes, 13, 16), r.metric)

\* After the handshake the client has the configuration that the server keeps for it,
\* whatever the application had given it.
ConfigAgreed == connected /\ configs # Nothing => config = configs[1]
=============================================================================
