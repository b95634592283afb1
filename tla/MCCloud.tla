-------------------------------- MODULE MCCloud --------------------------------
(* What the SDK keeps with the cloud and for the app, and what goes over the wire, *)
(* for model checking: the parts of CloudParts, and of the values a sample that is    *)
(* chosen and not changed.                                                              *)
EXTENDS CloudParts, NodeValues, ProtoCodec, Encoding, SignedRequests, AccountCalls

CONSTANTS i1, i2, h1, n1, n2, t1, t2, r1, mq, mt, c1, u1, u2, e1, a1, p1, p2, s1, s2, w1, w2, g1, g2

MCItemIds == {i1, i2}
MCHolders == {h1}
MCMembers == {n1, n2}
MCGroupNames == {"home", "away"}
MCTargets == {t1, t2}
MCTriggers == {r1}
MCEntities == {{s1, s2}}
MCWShadows == {w1, w2}
MCWGroups == {g1, g2}
MCChannels == {mq, mt}
MCSubNodes == {n1}
MCCallbacks == {c1}
MCUsers == {u1, u2}
MCOwnEvents == {e1}
MCMqttAdapters == {a1}
MCAccounts == {p1, p2}

VARIABLE sample   \* the sample that is checked

Samples ==
  ReplySamples \cup MiscSamples \cup UserSamples \cup RequestSamples \cup EncodingSamples
    \cup SigningSamples \cup UrlSamples \cup CredsSamples \cup AnswerSamples
    \cup ConfigSamples \cup ParamSamples \cup GroupSamples \cup UpdateSamples \cup AccountSamples
NoSample == [about |-> "nothing"]

\* What rests has one initial state. Where no part is followed, a sample is.
CloudInit ==
  /\ PartsInit
  /\ cloudGroup.name = "home" /\ cloudAutomation.actions = <<t1>> /\ manager.channels = <<mq>>
  /\ part # "sdk" => runtime.localStorage
  /\ part # "series" => newest = 0
  /\ sample \in IF part = "none" THEN Samples ELSE {NoSample}

\* Lists and objects are followed until two calls have met, or an answer was lost, for
\* which nothing is promised. Events are followed until more than this many discoveries
\* are left on adapters that were replaced.
MaxFormer == 1

CloudNext ==
  /\ part = "lists" => ~met
  /\ part = "objects" => ~objects.met /\ ~objects.lost
  /\ part = "events" => Cardinality(adapter.former) <= MaxFormer
  /\ PartsNext /\ UNCHANGED sample

cloudVars == <<partsVars, sample>>
CloudSpec == CloudInit /\ [][CloudNext]_cloudVars

\* What is written for a device, the cloud or the broker is read there as what was
\* meant, and what comes back as what it says.
Kind == IF "codec" \in DOMAIN sample THEN sample.codec ELSE sample.about
ValuesAgree ==
  CASE Kind \in {"claim", "local"} -> RepliesAreRead(sample)
    [] Kind \in {"misc", "user"} -> MessagesSurvive(sample)
    [] Kind = "request" -> RequestsAreRead(sample)
    [] Kind \in {"bytes", "chars"} -> BytesSurvive(sample)
    [] Kind = "signing" -> RequestIsSigned(sample)
    [] Kind = "url" -> UrlIsSigned(sample)
    [] Kind = "creds" -> CredentialsLast(sample)
    [] Kind = "answer" -> AnswersAgree(sample)
    [] Kind = "config" -> ConfigIsKept(sample)
    [] Kind = "params" -> ParamsAreKept(sample)
    [] Kind = "shadow" -> ShadowIsFound(sample)
    [] Kind = "update" -> UpdateIsWhole(sample)
    [] Kind = "account" -> AccountIsServed(sample)
    [] OTHER -> TRUE
=============================================================================
