-------------------------------- MODULE Encoding --------------------------------
(* Base64 for the local link and the payload of a token                            *)
(* (services/ESPRMNeoHelpers/TransformEncoding.ts, DecodeToken.ts). A character is   *)
(* a number: its value in the alphabet, 0 to 63, or one of those below.               *)
EXTENDS Integers, SequencesExt

Pad == 64        \* =
Minus == 65      \* the alphabet of URLs
Underscore == 66
Other == 67      \* whatever is none of these

Failed == <<-1>>

RECURSIVE Base64(_), Unpacked(_)

\* btoa and Buffer.toString: three bytes at a time.
Base64(b) ==
  CASE Len(b) = 0 -> <<>>
    [] Len(b) = 1 -> <<b[1] \div 4, (b[1] % 4) * 16, Pad, Pad>>
    [] Len(b) = 2 -> <<b[1] \div 4, (b[1] % 4) * 16 + (b[2] \div 16), (b[2] % 16) * 4, Pad>>
    [] OTHER -> <<b[1] \div 4, (b[1] % 4) * 16 + (b[2] \div 16), (b[2] % 16) * 4 + (b[3] \div 64), b[3] % 64>>
                \o Base64(SubSeq(b, 4, Len(b)))

\* The bytes of characters without padding; bits left over are dropped.
Unpacked(d) ==
  CASE Len(d) < 2 -> <<>>
    [] Len(d) = 2 -> <<d[1] * 4 + (d[2] \div 16)>>
    [] Len(d) = 3 -> <<d[1] * 4 + (d[2] \div 16), (d[2] % 16) * 16 + (d[3] \div 4)>>
    [] OTHER -> <<d[1] * 4 + (d[2] \div 16), (d[2] % 16) * 16 + (d[3] \div 4), (d[3] % 4) * 64 + d[4]>>
                \o Unpacked(SubSeq(d, 5, Len(d)))

Unpadded(s) == SelectSeq(s, LAMBDA c : c # Pad)
Pads(s) == Len(s) - Len(Unpadded(s))
IsAlphabet(s) == \A i \in DOMAIN s : s[i] <= 63

\* The platform's own: a full last group may lose its padding, no other, and a
\* single character over is refused.
Atob(s) ==
  LET d == IF Len(s) % 4 = 0 /\ Pads(s) <= 2 /\ IsAlphabet(SubSeq(s, 1, Len(s) - Pads(s))) THEN Unpadded(s) ELSE s
  IN IF IsAlphabet(d) /\ Len(d) % 4 # 1 THEN Unpacked(d) ELSE Failed

\* /^[A-Za-z0-9+/]*={0,2}$/
IsBase64(s) == Pads(s) <= 2 /\ IsAlphabet(SubSeq(s, 1, Len(s) - Pads(s)))

\* With Node's Buffer, which decodes whatever it is given, the result is encoded
\* again and compared; without it the platform decodes.
Base64ToUint8Array(s, buffer) ==
  CASE ~IsBase64(s) -> Failed
    [] IsBase64(s) /\ buffer ->
         LET bytes == Unpacked(Unpadded(s)) IN IF Unpadded(Base64(bytes)) = Unpadded(s) THEN bytes ELSE Failed
    [] IsBase64(s) /\ ~buffer -> Atob(s)
Uint8ArrayToBase64(bytes) == Base64(bytes)

Swapped(s) == [i \in DOMAIN s |-> CASE s[i] = Minus -> 62 [] s[i] = Underscore -> 63 [] OTHER -> s[i]]
Base64UrlToBase64(s) == Swapped(s) \o [i \in 1..((4 - (Len(s) % 4)) % 4) |-> Pad]

\* The payload of a token: its second part, the signature is not looked at.
DecodeToken(parts) ==
  IF Len(parts) < 2 THEN Failed ELSE Atob(Base64UrlToBase64(parts[2]))

\* isTokenExpired.
IsTokenExpired(exp, now) == now >= exp

(* --- Samples and properties ---------------------------------------------------------- *)

ByteSamples == {0, 1, 63, 64, 251, 255}
CharSamples == {0, 16, 63, Pad, Minus, Other}
EncodingSamples ==
  [codec : {"bytes"}, data : UNION {[1..n -> ByteSamples] : n \in 0..4}]
    \cup [codec : {"chars"}, data : UNION {[1..n -> CharSamples] : n \in 0..5}]

\* As a token carries it: without padding, in the alphabet of URLs.
UrlSafe(s) == [i \in DOMAIN Unpadded(s) |-> CASE s[i] = 62 -> Minus [] s[i] = 63 -> Underscore [] OTHER -> s[i]]

\* Bytes survive the way over the link on every platform, and in a token whatever
\* their number; a text that Buffer takes is the one encoding of what it yields,
\* but for its padding, and what either platform refuses is not that of any bytes.
BytesSurvive(s) ==
  CASE s.codec = "bytes" ->
         /\ \A buffer \in BOOLEAN : Base64ToUint8Array(Uint8ArrayToBase64(s.data), buffer) = s.data
         /\ DecodeToken(<<<<0>>, UrlSafe(Base64(s.data)), <<0>>>>) = s.data
    [] s.codec = "chars" ->
         LET bytes == Base64ToUint8Array(s.data, TRUE)
             encodes == IsAlphabet(Unpadded(s.data)) /\ Base64(Unpacked(Unpadded(s.data))) = s.data
         IN /\ bytes # Failed => Unpadded(Base64(bytes)) = Unpadded(s.data)
            /\ encodes => bytes # Failed /\ Base64ToUint8Array(s.data, FALSE) # Failed
=============================================================================
