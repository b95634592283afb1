------------------------------- MODULE ProtoCodec -------------------------------
(* What goes over a device's link as protobuf: the hand-written codecs of claiming  *)
(* (proto/esp_rmaker_claim.ts) and local control (proto/rmaker_local_ctrl.ts) and    *)
(* the generated classes of the challenge and the user mapping. Bytes are numbers;   *)
(* a message is a function from the numbers of the fields it has to their values.     *)
(*                                                                                   *)
(* Numbers stay below 2^28, the fields' numbers below 16 and their wire types 0 and 2: *)
(* tags are read as one byte, and of any other wire type the codecs skip one byte.     *)
EXTENDS Integers, SequencesExt

(* --- Varints and fields -------------------------------------------------------- *)

RECURSIVE EncodeVarint(_)
EncodeVarint(n) == IF n > 127 THEN <<128 + (n % 128)>> \o EncodeVarint(n \div 128) ELSE <<n>>

\* A byte past the end is undefined, which counts as the last byte, zero.
RECURSIVE ReadVarint(_, _)
ReadVarint(data, i) ==
  IF i > Len(data) THEN [value |-> 0, next |-> i + 1]
  ELSE IF data[i] < 128 THEN [value |-> data[i], next |-> i + 1]
  ELSE LET rest == ReadVarint(data, i + 1) IN [value |-> data[i] - 128 + 128 * rest.value, next |-> rest.next]

Slice(data, from, len) == SubSeq(data, from, IF from + len - 1 < Len(data) THEN from + len - 1 ELSE Len(data))

SkipField(data, i, wire) ==
  CASE wire = 0 -> ReadVarint(data, i).next
    [] wire = 2 -> LET len == ReadVarint(data, i) IN len.next + len.value
    [] OTHER -> i + 1

VarintField(field, n) == <<8 * field>> \o EncodeVarint(n)
BytesField(field, bytes) == <<8 * field + 2>> \o EncodeVarint(Len(bytes)) \o bytes

(* --- Messages: the fields of each, of which a sub-message names its own ---------- *)

Varint == [wire |-> 0, sub |-> ""]
Bytes == [wire |-> 2, sub |-> ""]
Sub(name) == [wire |-> 2, sub |-> name]

CmdCRPayload == 1 :> Bytes
RespCRPayload == (1 :> Bytes) @@ (2 :> Bytes)
CmdGetNodeIDPayload == [f \in {} |-> Bytes]
RespGetNodeIDPayload == 1 :> Bytes
RMakerMiscPayload ==
  (1 :> Varint) @@ (2 :> Varint) @@ (10 :> Sub("CmdCRPayload")) @@ (11 :> Sub("RespCRPayload"))
  @@ (12 :> Sub("CmdGetNodeIDPayload")) @@ (13 :> Sub("RespGetNodeIDPayload"))
CmdSetUserMapping == (1 :> Bytes) @@ (2 :> Bytes)
RespSetUserMapping == (1 :> Varint) @@ (2 :> Bytes)
RMakerConfigPayload == (1 :> Varint) @@ (10 :> Sub("CmdSetUserMapping")) @@ (11 :> Sub("RespSetUserMapping"))
PayloadBuf == (1 :> Varint) @@ (2 :> Bytes) @@ (3 :> Varint)
RespPayload == (1 :> Varint) @@ (2 :> Sub("PayloadBuf"))

Schemas ==
  [CmdCRPayload |-> CmdCRPayload, RespCRPayload |-> RespCRPayload, CmdGetNodeIDPayload |-> CmdGetNodeIDPayload,
   RespGetNodeIDPayload |-> RespGetNodeIDPayload, RMakerMiscPayload |-> RMakerMiscPayload,
   CmdSetUserMapping |-> CmdSetUserMapping, RespSetUserMapping |-> RespSetUserMapping,
   RMakerConfigPayload |-> RMakerConfigPayload, PayloadBuf |-> PayloadBuf, RespPayload |-> RespPayload,
   Claim |-> (1 :> Varint) @@ (10 :> Sub("PayloadBuf")) @@ (11 :> Sub("RespPayload")),
   LocalCtrl |-> (1 :> Varint) @@ (10 :> Sub("CmdGetData")) @@ (11 :> Sub("RespPayload")),
   CmdGetData |-> (1 :> Varint) @@ (2 :> Varint)]

Scalars(name) == {f \in DOMAIN Schemas[name] : Schemas[name][f].sub = ""}
Oneof(name) == DOMAIN Schemas[name] \ Scalars(name)
Ascending(fields) == SetToSortSeq(fields, <)

(* --- Reading --------------------------------------------------------------------- *)

Unknown(data, i, wire) == SkipField(data, i, wire)

\* The last of a field's occurrences counts. lax: a known field of another wire type
\* is not skipped (the claiming codec).
RECURSIVE ParseFields(_, _, _, _, _)
ParseFields(name, lax, data, i, msg) ==
  IF i > Len(data) THEN msg
  ELSE LET field == data[i] \div 8
           wire == data[i] % 8
           known == field \in DOMAIN Schemas[name]
           sub == Schemas[name][field].sub
           len == ReadVarint(data, i + 1)
           body == Slice(data, len.next, len.value)
       IN CASE known /\ Schemas[name][field].wire = wire /\ wire = 0 ->
                 ParseFields(name, lax, data, len.next, (field :> len.value) @@ msg)
            [] known /\ Schemas[name][field].wire = wire /\ wire = 2 ->
                 ParseFields(name, lax, data, len.next + len.value,
                             (field :> IF sub = "" THEN body ELSE ParseFields(sub, lax, body, 1, <<>>)) @@ msg)
            [] known /\ Schemas[name][field].wire # wire /\ lax -> ParseFields(name, lax, data, i + 1, msg)
            [] OTHER -> ParseFields(name, lax, data, Unknown(data, i + 1, wire), msg)

Read(msg, field, default) == IF field \in DOMAIN msg THEN msg[field] ELSE default

ParseRespPayload(msg) == [has |-> 11 \in DOMAIN msg, status |-> Read(Read(msg, 11, <<>>), 1, 0)]

\* getOffset, getTotalLen, extractPayloadString and getPayload.
ParsePayloadBuf(msg) ==
  LET buf == Read(Read(msg, 11, <<>>), 2, <<>>)
  IN [offset |-> Read(buf, 1, 0), payload |-> Read(buf, 2, <<>>), totalLen |-> Read(buf, 3, 0)]

IsSuccess(resp) == resp.has /\ resp.status = 0

\* getStatus: the name of the status, if it has one.
StatusName(resp, names) ==
  CASE ~resp.has -> "Unknown" [] resp.has /\ resp.status < Len(names) -> names[resp.status + 1] [] OTHER -> "Unknown(n)"
ClaimStatuses == <<"Success", "Fail", "InvalidParam", "InvalidState", "NoMemory">>
LocalStatuses == <<"Success", "Fail", "InvalidParam", "NoMemory">>

ParseResponse(name, lax, data, noMsg, statuses) ==
  LET msg == ParseFields(name, lax, data, 1, <<>>)
      resp == ParseRespPayload(msg)
  IN [msg |-> Read(msg, 1, noMsg), success |-> IsSuccess(resp), status |-> StatusName(resp, statuses),
      buf |-> ParsePayloadBuf(msg)]
ParseClaimResponse(data) == ParseResponse("Claim", TRUE, data, 1, ClaimStatuses)
ParseGetDataResponse(data) == ParseResponse("LocalCtrl", FALSE, data, 0, LocalStatuses)

(* --- Writing, by hand: every field, also at its default ----------------------------- *)

EncodePayloadBuf(offset, payload, totalLen) ==
  VarintField(1, offset) \o BytesField(2, payload) \o VarintField(3, totalLen)
EncodeClaimPayload(type, buf) == VarintField(1, type) \o BytesField(10, buf)

CreateClaimStartRequest == EncodeClaimPayload(0, EncodePayloadBuf(0, <<>>, 0))
CreateClaimInitRequest(data) == EncodeClaimPayload(2, EncodePayloadBuf(0, data, Len(data)))
CreateClaimInitContinueRequest == EncodeClaimPayload(2, EncodePayloadBuf(0, <<>>, 0))
CreateClaimVerifyRequest(certificate, offset, size) ==
  EncodeClaimPayload(4, EncodePayloadBuf(offset, Slice(certificate, offset + 1, size), Len(certificate)))
CreateClaimAbortRequest == EncodeClaimPayload(6, EncodePayloadBuf(0, <<>>, 0))

CreateGetDataRequest(type, offset) ==
  VarintField(1, 0) \o BytesField(10, VarintField(1, type) \o VarintField(2, offset))

(* --- Generated classes: what is at its default is not written -------------------- *)

Default(name, field) == IF Schemas[name][field].wire = 0 THEN 0 ELSE <<>>

\* Mutation: one member of a oneof is set beside another.
SetOver(name, msg, field, value) == (field :> value) @@ msg

\* One member of a oneof takes the place of another.
SetField(name, msg, field, value) ==
  LET others == IF field \in Oneof(name) THEN Oneof(name) ELSE {field}
  IN (field :> value) @@ [f \in DOMAIN msg \ others |-> msg[f]]

\* The constructor: fields are set one after the other.
Construct(name, data) ==
  FoldLeft(LAMBDA msg, f : SetField(name, msg, f, data[f]), [f \in {} |-> 0], Ascending(DOMAIN data))

RECURSIVE ToObject(_, _), FromObject(_, _), Serialize(_, _)
ToObject(name, msg) ==
  [f \in Scalars(name) \cup (DOMAIN msg \cap Oneof(name)) |->
     IF f \in Scalars(name) THEN Read(msg, f, Default(name, f)) ELSE ToObject(Schemas[name][f].sub, msg[f])]
FromObject(name, object) ==
  Construct(name, [f \in DOMAIN object |-> IF f \in Scalars(name) THEN object[f] ELSE FromObject(Schemas[name][f].sub, object[f])])

Serialize(name, msg) ==
  FlattenSeq([i \in DOMAIN Ascending(DOMAIN msg) |->
    LET f == Ascending(DOMAIN msg)[i]
    IN CASE f \in Oneof(name) -> BytesField(f, Serialize(Schemas[name][f].sub, msg[f]))
         [] f \in Scalars(name) /\ msg[f] = Default(name, f) -> <<>>
         [] f \in Scalars(name) /\ msg[f] # Default(name, f) /\ Schemas[name][f].wire = 0 -> VarintField(f, msg[f])
         [] OTHER -> BytesField(f, msg[f])])

\* Read field by field into the setters: of a oneof the last on the wire counts.
Deserialize(name, data) == ParseFields(name, FALSE, data, 1, [f \in {} |-> 0])

(* --- The challenge (ChallengeResponseHelper) ------------------------------------------ *)

CreateChallengeRequest(challenge) ==
  Serialize("RMakerMiscPayload",
    Construct("RMakerMiscPayload", (1 :> 0) @@ (2 :> 0) @@ (10 :> Construct("CmdCRPayload", 1 :> challenge))))

\* An empty payload is a payload; validateChallengeResponse refuses it afterwards.
ParseDeviceResponse(data) ==
  LET msg == Deserialize("RMakerMiscPayload", data)
      resp == Read(msg, 11, <<>>)
  IN [success |-> Read(msg, 2, 0) = 0 /\ 11 \in DOMAIN msg /\ Read(resp, 2, <<>>) # <<>>,
      nodeId |-> Read(resp, 2, <<>>), signed |-> Read(resp, 1, <<>>)]
ValidateChallengeResponse(r) == r.success /\ r.nodeId # <<>> /\ r.signed # <<>>

(* --- Samples and properties -------------------------------------------------------------- *)

Texts == {<<>>, <<65>>, [i \in 1..130 |-> 48 + (i % 10)]}
Noises == {<<>>, VarintField(7, 300), BytesField(9, <<8, 2, 90>>), VarintField(7, 1) \o BytesField(9, <<>>)}

\* What a device may send: any of the fields or none, in any order, others between.
ReplySamples ==
  [codec : {"claim", "local"}, type : {1, 3}, status : {-1, 0, 2, 9}, offset : {0, 127, 200}, payload : Texts,
   totalLen : {0, 70000}, parts : {"none", "status", "all"}, reversed : BOOLEAN, noise : Noises]
MiscSamples ==
  [codec : {"misc"}, type : {0, 1}, status : {0, 1}, oneof : SUBSET (10..13), payload : Texts, nodeId : {<<>>, <<78, 49>>}, noise : Noises]
UserSamples ==
  [codec : {"user"}, type : {0, 1}, status : {0, 2}, oneof : SUBSET {10, 11}, payload : Texts, nodeId : {<<>>, <<78, 49>>}, noise : Noises]
RequestSamples == [codec : {"request"}, text : Texts, offset : {0, 1, 128}, size : {1, 2, 128}]

InOrder(s, parts) == FlattenSeq(IF s.reversed THEN Reverse(parts) ELSE parts)
ReplyBytes(s) ==
  LET buf == InOrder(s, <<VarintField(1, s.offset), s.noise, BytesField(2, s.payload), VarintField(3, s.totalLen)>>)
      status == IF s.status < 0 THEN <<>> ELSE VarintField(1, s.status)
      resp == InOrder(s, <<status, s.noise, IF s.parts = "all" THEN BytesField(2, buf) ELSE <<>>>>)
  IN InOrder(s, <<VarintField(1, s.type), s.noise, IF s.parts = "none" THEN <<>> ELSE BytesField(11, resp)>>)

\* A device's answer is read as what it says, whichever fields it leaves out at
\* their defaults, adds or reorders; without a response it is no success.
RepliesAreRead(s) ==
  LET r == IF s.codec = "claim" THEN ParseClaimResponse(ReplyBytes(s)) ELSE ParseGetDataResponse(ReplyBytes(s))
  IN /\ r.msg = s.type
     /\ r.success <=> s.parts # "none" /\ s.status \in {-1, 0}
     /\ r.buf = IF s.parts = "all" THEN [offset |-> s.offset, payload |-> s.payload, totalLen |-> s.totalLen]
                ELSE [offset |-> 0, payload |-> <<>>, totalLen |-> 0]
     /\ s.parts = "none" => r.status = "Unknown"
     /\ s.parts # "none" /\ s.status = 9 => r.status = "Unknown(n)"

\* What a member of the oneof holds in a sample.
OneofValues(s) ==
  (10 :> IF s.codec = "misc" THEN (1 :> s.payload) ELSE (1 :> s.nodeId) @@ (2 :> s.payload))
  @@ (11 :> IF s.codec = "misc" THEN (1 :> s.payload) @@ (2 :> s.nodeId) ELSE (1 :> s.status) @@ (2 :> s.nodeId))
  @@ (12 :> [f \in {} |-> 0]) @@ (13 :> (1 :> s.nodeId))
ClassOf(s) == IF s.codec = "misc" THEN "RMakerMiscPayload" ELSE "RMakerConfigPayload"
Scalar(s) == IF s.codec = "misc" THEN (1 :> s.type) @@ (2 :> s.status) ELSE (1 :> s.type)

\* A generated message survives the wire, with fields it does not know on it, and
\* the way to an object and back; of a oneof it has one member, the last one set;
\* a challenge's response is taken exactly when the device signed it as some node.
MessagesSurvive(s) ==
  LET class == ClassOf(s)
      msg == Construct(class, Scalar(s) @@ [f \in s.oneof |-> OneofValues(s)[f]])
      object == ToObject(class, msg)
      response == ParseDeviceResponse(Serialize(class, msg) \o s.noise)
  IN /\ DOMAIN msg \cap Oneof(class) = IF s.oneof = {} THEN {} ELSE {CHOOSE f \in s.oneof : \A g \in s.oneof : g <= f}
     /\ ToObject(class, Deserialize(class, s.noise \o Serialize(class, msg))) = object
     /\ ToObject(class, FromObject(class, object)) = object
     /\ s.codec = "misc" => (ValidateChallengeResponse(response) <=>
          s.status = 0 /\ 11 \in DOMAIN msg /\ s.nodeId # <<>> /\ s.payload # <<>>)

\* A request says to a reader of its schema what the app asked: the fragment at
\* its offset and the length of the whole, the data type, the challenge.
RequestsAreRead(s) ==
  LET claim(data) == ParseFields("Claim", FALSE, data, 1, <<>>)
      text(data) == claim(data)[10][2]
      misc == Deserialize("RMakerMiscPayload", CreateChallengeRequest(s.text))
      verify == claim(CreateClaimVerifyRequest(s.text, s.offset, s.size))
      get == CreateGetDataRequest(1, s.offset)
  IN /\ claim(CreateClaimInitRequest(s.text))[1] = 2 /\ text(CreateClaimInitRequest(s.text)) = s.text
     /\ claim(CreateClaimStartRequest)[1] = 0 /\ claim(CreateClaimAbortRequest)[1] = 6
     /\ claim(CreateClaimInitContinueRequest)[1] = 2 /\ text(CreateClaimInitContinueRequest) = <<>>
     /\ verify[1] = 4 /\ verify[10][1] = s.offset /\ verify[10][3] = Len(s.text)
     /\ verify[10][2] = [i \in 1..(IF s.offset + s.size <= Len(s.text) THEN s.size
                                   ELSE IF s.offset < Len(s.text) THEN Len(s.text) - s.offset ELSE 0) |-> s.text[s.offset + i]]
     /\ ParseFields("LocalCtrl", FALSE, get, 1, <<>>)[10] = (1 :> 1) @@ (2 :> s.offset)
     /\ Read(misc[10], 1, <<>>) = s.text /\ Read(misc, 1, 0) = 0 /\ 11 \notin DOMAIN misc
=============================================================================
