--------------------------- MODULE AssistedClaiming ---------------------------
(* Assisted claiming: startAssistedClaiming and the ClaimingHelper carry a        *)
(* device's signing request to the claiming service and the certificate back,     *)
(* both in fragments, over a link that may break at every exchange. A failed      *)
(* claim is aborted and may be tried again, from a cloud that remembers.          *)
(*                                                                                *)
(* The device and the service are external, taken from how the code uses them:    *)
(* a fragment of the request starts at the offset the device says, the device     *)
(* checks the certificate when its last fragment is in, the service reserves one  *)
(* node per MAC and keeps the last certificate it issued.                         *)
EXTENDS Naturals, Sequences

CONSTANTS
  CsrLen,         \* length of the device's signing request
  CertLen,        \* length of a certificate answer
  FragmentLimit,  \* CLAIM_MAX_FRAGMENT_SIZE
  MaxChunks,      \* CLAIM_CSR_MAX_CHUNKS
  MaxClaims       \* bound: claims started

ASSUME ClaimAssumption == {CsrLen, CertLen, FragmentLimit, MaxChunks, MaxClaims} \subseteq Nat

VARIABLES
  claim,    \* startAssistedClaiming: its step and local variables
  device,   \* what the device keeps of the claim
  service   \* the claiming service: reservations, certificates issued, the request last signed

claimVars == <<claim, device, service>>

ClaimSteps == {"info", "initiate", "csr", "verify", "certificate", "abort"}
ClaimOver == {"success", "failed"}

\* The spellings a device may report its MAC in, and two it should not.
Spellings == {"AA:BB", "aa-bb", "not hex", "none"}

\* An endpoint by the parts it is written with; "host" alone is what a device stores.
Endpoints == {{}, {"host"}, {"scheme", "host", "port", "path"}}

TheCsr == [i \in 1..CsrLen |-> i]
Certificate(k) == [i \in 1..CertLen |-> <<k, i>>]

ClaimInit ==
  /\ claim = [step |-> "idle", mac |-> "none", csr |-> <<>>, chunk |-> 0, iterations |-> 0,
              certificate |-> <<>>, offset |-> 0, host |-> {}, count |-> 0]
  /\ device = [spelling |-> "none", at |-> 0, received |-> <<>>, installed |-> 0, host |-> {}, parked |-> FALSE]
  /\ service = [reserved |-> {}, issued |-> 0, signed |-> <<>>]

\* normalizeMacAddress: separators out, upper case; "" for what is refused.
NormalizeMac(spelling) == IF spelling \in {"AA:BB", "aa-bb"} THEN "AABB" ELSE ""

\* normalizeMqttHost: scheme, path and port off.
NormalizeHost(endpoint) == endpoint \cap {"host"}

\* resolveDeviceMqttHost: the service's host wins over the configured endpoint.
ResolveHost(answered, configured) ==
  IF NormalizeHost(answered) # {} THEN NormalizeHost(answered) ELSE NormalizeHost(configured)

Aborting(c) == [c EXCEPT !.step = "abort"]

\* Any exchange may end in an error: the link, the status, the HTTP answer, an
\* SDK that is not configured. The catch of startAssistedClaiming aborts.
ExchangeFails ==
  /\ claim.step \in ClaimSteps \ {"abort"}
  /\ claim' = Aborting(claim)
  /\ UNCHANGED <<device, service>>

StartClaim ==
  /\ claim.step \in {"idle"} \cup ClaimOver /\ claim.count < MaxClaims
  /\ claim' = [claim EXCEPT !.step = "info", !.mac = "none", !.csr = <<>>, !.chunk = 0, !.iterations = 0,
                            !.certificate = <<>>, !.offset = 0, !.count = @ + 1]
  /\ UNCHANGED <<device, service>>

\* requestDeviceInfo and readDeviceStartPayload: no MAC, no claim.
DeviceInfo(spelling) ==
  /\ claim.step = "info"
  /\ device' = [device EXCEPT !.spelling = spelling, !.at = 0, !.received = <<>>, !.parked = TRUE]
  /\ claim' = IF spelling = "none" THEN Aborting(claim)
              ELSE [claim EXCEPT !.step = "initiate", !.mac = spelling]
  /\ UNCHANGED service

\* initiateClaim: the reservation goes by the normalized MAC; the answer may be
\* lost, or lack its node id.
Initiate(answered) ==
  /\ claim.step = "initiate"
  /\ LET mac == NormalizeMac(claim.mac) IN
       IF mac = "" THEN claim' = Aborting(claim) /\ UNCHANGED service
       ELSE /\ service' = [service EXCEPT !.reserved = @ \cup {mac}]
            /\ claim' = IF answered THEN [claim EXCEPT !.step = "csr"] ELSE Aborting(claim)
  /\ UNCHANGED device

(* --- The signing request, read in chunks ------------------------------------- *)

\* What the device sends next: up to a fragment, nothing (stalled), or, having
\* started over, its request from the beginning. One that has sent everything sends
\* nothing more.
DeviceChunks ==
  UNION {{[offset |-> from, data |-> SubSeq(TheCsr, from + 1, to)] :
            to \in {n \in from..CsrLen : n <= from + FragmentLimit}} : from \in {0, device.at}}

\* Mutation: one turn too many.
OverBudgetLate(iterations) == iterations > MaxChunks + 1

\* The budget of turns is spent.
OverBudget(iterations) == iterations > MaxChunks

\* retrieveCsr, one turn of its loop: the budget first, then the chunk put at its
\* offset, then complete, stalled or on.
ReadChunk(answer, total) ==
  /\ claim.step = "csr"
  /\ IF OverBudget(claim.iterations + 1) THEN claim' = Aborting(claim) /\ UNCHANGED device
     ELSE LET csr == IF answer.offset = 0 THEN answer.data ELSE claim.csr \o answer.data
              read == [claim EXCEPT !.iterations = @ + 1, !.csr = csr,
                                    !.chunk = IF answer.offset = 0 THEN Len(answer.data) ELSE @]
          IN /\ claim' = IF Len(csr) >= total
                         THEN IF csr = <<>> THEN Aborting(read) ELSE [read EXCEPT !.step = "verify"]
                         ELSE IF answer.data = <<>> THEN Aborting(read) ELSE read
             /\ device' = [device EXCEPT !.at = answer.offset + Len(answer.data)]
  /\ UNCHANGED service

\* A request that fits one fragment may come without a total.
ReadChunks == \E answer \in DeviceChunks :
  \/ ReadChunk(answer, CsrLen)
  \/ answer.offset = 0 /\ Len(answer.data) = CsrLen /\ ReadChunk(answer, 0)

(* --- The certificate ------------------------------------------------------------ *)

\* verifyClaim: the service signs and forgets the certificate before; the answer
\* may be lost or incomplete, and there may be no host to send along.
Verify(answered, host, configured) ==
  /\ claim.step = "verify"
  /\ service' = [service EXCEPT !.issued = @ + 1, !.signed = claim.csr]
  /\ claim' = IF answered /\ ResolveHost(host, configured) # {}
              THEN [claim EXCEPT !.step = "certificate", !.certificate = Certificate(service'.issued),
                                 !.host = ResolveHost(host, configured)]
              ELSE Aborting(claim)
  /\ UNCHANGED device

\* sendCertificate: the device's first chunk size, at most the protocol's limit.
ChunkSize == IF claim.chunk \in 1..FragmentLimit THEN claim.chunk ELSE FragmentLimit

\* Mutation: the last fragment lacks its last byte.
FragmentShort(offset) ==
  SubSeq(claim.certificate, offset + 1, IF offset + ChunkSize < CertLen THEN offset + ChunkSize ELSE CertLen - 1)

\* createClaimVerifyRequest: the fragment at an offset.
Fragment(offset) ==
  SubSeq(claim.certificate, offset + 1, IF offset + ChunkSize < CertLen THEN offset + ChunkSize ELSE CertLen)

\* The device puts a fragment at its offset and checks what it has with the last.
Reassembled(offset) ==
  LET received == SubSeq(device.received, 1, offset) \o Fragment(offset) IN
    [device EXCEPT !.received = received,
                   !.installed = IF received = Certificate(service.issued) THEN service.issued ELSE @,
                   !.host = IF received = Certificate(service.issued) THEN claim.host ELSE @,
                   !.parked = received # Certificate(service.issued)]

SendFragment ==
  /\ claim.step = "certificate"
  /\ device' = Reassembled(claim.offset)
  /\ claim' = [claim EXCEPT !.offset = @ + ChunkSize,
                            !.step = IF claim.offset + ChunkSize >= CertLen THEN "success" ELSE @]
  /\ UNCHANGED service

\* abortClaiming: best effort; the failure is reported either way.
Abort(heard) ==
  /\ claim.step = "abort"
  /\ claim' = [claim EXCEPT !.step = "failed"]
  /\ device' = [device EXCEPT !.parked = @ /\ ~heard]
  /\ UNCHANGED service

ClaimProgress ==
  \/ \E spelling \in Spellings : DeviceInfo(spelling)
  \/ \E answered \in BOOLEAN : Initiate(answered)
  \/ ReadChunks
  \/ \E answered \in BOOLEAN, host, configured \in Endpoints : Verify(answered, host, configured)
  \/ SendFragment
  \/ \E heard \in BOOLEAN : Abort(heard)

ClaimNext == StartClaim \/ ClaimProgress \/ ExchangeFails

ClaimSpec == ClaimInit /\ [][ClaimNext]_claimVars

(* --- Properties ------------------------------------------------------------------ *)

ClaimTypeOK ==
  /\ claim.step \in {"idle"} \cup ClaimSteps \cup ClaimOver
  /\ claim.mac \in Spellings /\ claim.host \subseteq {"host"}
  /\ claim.iterations \in 0..MaxChunks /\ claim.count \in 0..MaxClaims
  /\ claim.chunk \in 0..FragmentLimit /\ claim.offset \in 0..(CertLen + FragmentLimit)
  /\ device.installed \in 0..MaxClaims /\ device.at \in 0..CsrLen
  /\ service.reserved \subseteq {"AABB"} /\ service.issued \in 0..MaxClaims

\* A claim reported successful left the device with the certificate the service
\* has on record, whole, with a bare broker host, signed over the request the
\* device sent, and taken out of the claiming session: however the fragments fell,
\* and however earlier claims of the device ended (retrieveCsr, sendCertificate).
ClaimedAsIssued ==
  claim.step = "success" =>
    /\ device.installed = service.issued /\ device.host = {"host"} /\ ~device.parked
    /\ service.signed = TheCsr

\* Under way; EveryFlowEnds of MCDevice says it ends with a device that answers without getting ahead
\* ("cannot spin forever": CLAIM_CSR_MAX_CHUNKS and the no-progress check).
Claiming == claim.step \in ClaimSteps
=============================================================================
