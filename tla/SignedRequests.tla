----------------------------- MODULE SignedRequests -----------------------------
(* How requests are written, signed and their answers taken: utils/awsSigv4Utils.ts, *)
(* ESPSigV4APIManager and the user API's ESPRMNeoAPIManager. Hashes are terms, equal  *)
(* when made of equal parts. Names of headers and of query parameters are numbers in   *)
(* their alphabetical order; times are pairs of a day and a time of the day.            *)
EXTENDS Integers, Sequences, FiniteSets, SequencesExt

(* --- Signature Version 4 ------------------------------------------------------------ *)

Sha256(x) == <<"sha256", x>>
Hmac(key, x) == <<"hmac", key, x>>

\* What is written in a URL: the text meant, and how it is spelled: as it is, escaped
\* as URLs require, or escaped as SigV4 requires, which is one spelling of each text.
\* Texts are numbers in the order of that spelling.
AwsUriEncode(text) == [text |-> text, as |-> "aws"]

\* new URL escapes in a path what needs it, and leaves what was escaped as it is.
Pathname(path) == [path EXCEPT !.as = IF @ = "raw" THEN "url" ELSE @]

Before(p, q) == p[1].text < q[1].text \/ (p[1].text = q[1].text /\ p[2].text < q[2].text)

\* buildCanonicalQueryString: the texts that were meant, spelled anew, by name, then
\* by value.
CanonicalQuery(query) ==
  SortSeq([i \in DOMAIN query |-> <<AwsUriEncode(query[i][1].text), AwsUriEncode(query[i][2].text)>>], Before)

\* Headers are a function from names, which both of the code's sorts put in one order
\* as long as they are lower case: their list stands as their set.
SignedHeaders(headers) == DOMAIN headers
CanonicalHeaders(headers, signed) == [name \in signed |-> headers[name]]

CanonicalRequest(method, path, query, headers, signed, payloadHash) == <<method, path, query, headers, signed, payloadHash>>
Scope(day, region, service) == <<day, region, service, "aws4_request">>
StringToSign(time, scope, request) == <<"AWS4-HMAC-SHA256", time, scope, Sha256(request)>>
CalculateSignature(secret, day, region, service, string) ==
  Hmac(Hmac(Hmac(Hmac(Hmac("AWS4", secret), day), region), service), string)
AuthorizationHeader(accessKey, scope, signed, signature) ==
  [credential |-> accessKey, scope |-> scope, signed |-> signed, signature |-> signature]

\* formatSigV4Timestamps.
DateStamp(time) == time[1]

AuthHeader(creds, time, region, service, method, path, query, headers, payload) ==
  LET scope == Scope(DateStamp(time), region, service)
      request == CanonicalRequest(method, path, CanonicalQuery(query), CanonicalHeaders(headers, SignedHeaders(headers)),
                                  SignedHeaders(headers), Sha256(payload))
  IN AuthorizationHeader(creds.accessKey, scope, SignedHeaders(headers),
       CalculateSignature(creds.secretKey, DateStamp(time), region, service, StringToSign(time, scope, request)))

Own == {"host", "x-amz-date", "x-amz-security-token"}

\* The three of its own, and the caller's, which come first.
RequestHeaders(creds, time, host, extra) ==
  [name \in Own \cup DOMAIN extra |->
     CASE name \in DOMAIN extra -> extra[name]
       [] name = "host" /\ name \notin DOMAIN extra -> host
       [] name = "x-amz-date" /\ name \notin DOMAIN extra -> time
       [] OTHER -> creds.sessionToken]

\* _signedRequest: what is fetched. The query goes as it was written, signed is what
\* the service will make of it. The body is signed as it is sent, none as "". (The
\* content type is not signed.)
SignedRequest(creds, time, region, method, host, path, query, body, extra) ==
  LET headers == RequestHeaders(creds, time, host, extra)
  IN [method |-> method, path |-> Pathname(path), query |-> query, headers |-> headers, body |-> body,
      authorization |-> AuthHeader(creds, time, region, "execute-api", method, Pathname(path), query, headers, body)]

\* The service: its account's secret and what came over the wire.
ServiceAccepts(r, secretKey) ==
  LET a == r.authorization
      request == <<r.method, r.path, CanonicalQuery(r.query), CanonicalHeaders(r.headers, a.signed), a.signed, Sha256(r.body)>>
  IN /\ a.scope[1] = r.headers["x-amz-date"][1]
     /\ a.signature = Hmac(Hmac(Hmac(Hmac(Hmac("AWS4", secretKey), a.scope[1]), a.scope[2]), a.scope[3]),
                           <<"AWS4-HMAC-SHA256", r.headers["x-amz-date"], a.scope, Sha256(request)>>)

(* --- The signed URL of the MQTT connection ------------------------------------------- *)

\* normalizeIotEndpointHost: no protocol, no path, not empty ("").
IotHost(endpoint) == IF endpoint.host = "" THEN "error" ELSE endpoint.host

ByName(p, q) == p[1] < q[1]

\* X-Amz-Algorithm, Credential, Date, Expires, SignedHeaders and, if there is one, the
\* Security-Token before it, numbered by name; then spelled as SigV4 requires. (The
\* names need no escape.)
MqttQuery(creds, time, region, expires) ==
  LET pairs == <<<<1, <<"AWS4-HMAC-SHA256">>>>, <<2, <<creds.accessKey, Scope(DateStamp(time), region, "iotdevicegateway")>>>>,
                 <<3, time>>, <<4, <<expires>>>>, <<6, <<"host">>>>>>
               \o (IF creds.sessionToken = "" THEN <<>> ELSE <<<<5, <<creds.sessionToken>>>>>>)
      sorted == SortSeq(pairs, ByName)
  IN [i \in DOMAIN sorted |-> <<sorted[i][1], AwsUriEncode(sorted[i][2])>>]

\* The URL has the query it was signed with.
MqttSignedUrl(creds, endpoint, time, region, expires) ==
  LET query == MqttQuery(creds, time, region, expires)
      request == CanonicalRequest("GET", "/mqtt", query, [host |-> IotHost(endpoint)], {"host"}, Sha256(""))
      scope == Scope(DateStamp(time), region, "iotdevicegateway")
  IN [host |-> IotHost(endpoint), query |-> query,
      signature |-> CalculateSignature(creds.secretKey, DateStamp(time), region, "iotdevicegateway", StringToSign(time, scope, request))]

(* --- Temporary credentials ------------------------------------------------------------ *)

CredsBuffer == 300
Day == 86400
Seconds(time) == time[1] * Day + time[2]
NoNumber == -1    \* missing
NaN == -2         \* what no date can be made of

\* extractTemporaryCredentials: incomplete ones are an error; no expiration, or zero, is an hour.
ExtractTemporaryCredentials(data, now) ==
  IF data.accessKey = "" \/ data.secretKey = "" \/ data.sessionToken = "" THEN [ok |-> FALSE, expiration |-> NoNumber]
  ELSE [ok |-> TRUE, expiration |-> IF data.expiration \in {NoNumber, 0} THEN now + 3600 ELSE data.expiration]

AreCredentialsExpired(expiration, now) == expiration \in {NoNumber, NaN} \/ now + CredsBuffer >= expiration

\* The text of an answer: none, JSON, or anything else, blanks (" ") among it.
Readable(text) == text \in {"", "json"}
First(a, b) == IF a # "" THEN a ELSE b
Trimmed(text) == IF text = " " THEN "" ELSE text

\* What a JSON body says; any other says nothing (null).
Said(response) == IF response.text = "json" THEN [message |-> response.message, error |-> response.error] ELSE [message |-> "", error |-> ""]

\* parseCredentialsErrorMessage: the message, the error, the text, the status.
CredentialsErrorMessage(data, text) ==
  First(First(First(Trimmed(data.message), Trimmed(data.error)), Trimmed(text)), "HTTP error")

\* isExpiredTokenAuthError.
IsExpiredTokenAuthError(status, message) == status = 401 /\ message = "expired"

\* postUserCredentials and what fetchTemporaryAWSCredentials makes of it. A body that is
\* not JSON is no error here: it has its status still, and what it says is its text.
CredentialsOutcome(response) ==
  LET message == CredentialsErrorMessage(Said(response), response.text)
  IN CASE response.status = 0 -> [ok |-> FALSE, status |-> 0, message |-> "network", refresh |-> FALSE]
       [] response.status \in 1..299 -> [ok |-> TRUE, status |-> response.status, message |-> "", refresh |-> FALSE]
       [] OTHER -> [ok |-> FALSE, status |-> response.status, message |-> message,
                    refresh |-> IsExpiredTokenAuthError(response.status, message)]

(* --- The user API: a path, a bearer token, a body; the answer ------------------------- *)

\* stripped of a trailing slash, the base and the path are joined by one.
BuildApiUrl(base, path) == <<base, "/", path>>
JsonHeaders(bearer) == IF bearer = "" THEN <<"json">> ELSE <<"json", bearer>>
SendRequest(base, method, path, headers, body) == [url |-> BuildApiUrl(base, path), method |-> method, headers |-> headers, body |-> body]

PostUserApi(base, path, body) == SendRequest(base, "POST", path, JsonHeaders(""), body)
PostUserApiWithBearer(base, path, body, bearer) == SendRequest(base, "POST", path, JsonHeaders(bearer), body)
PutUserApiWithBearer(base, path, body, bearer) == SendRequest(base, "PUT", path, JsonHeaders(bearer), body)
GetUserApiWithBearer(base, path, bearer) == SendRequest(base, "GET", path, JsonHeaders(bearer), "")

\* The body is read as JSON before the status is looked at: an error page that is not
\* JSON fails without a status. The answer's message comes before its error.
ParseJsonResponse(response) ==
  CASE ~Readable(response.text) -> [ok |-> FALSE, status |-> 0, message |-> "Failed to parse response as JSON"]
    [] Readable(response.text) /\ response.status < 300 -> [ok |-> TRUE, status |-> response.status, message |-> ""]
    [] OTHER -> [ok |-> FALSE, status |-> response.status,
                 message |-> First(First(Said(response).message, Said(response).error), "HTTP error")]

\* handleRequestError: passed on, a failed fetch without a status.
UserApiOutcome(response) ==
  IF response.status = 0 THEN [ok |-> FALSE, status |-> 0, message |-> "network"] ELSE ParseJsonResponse(response)

\* The same of a signed request, whose message names all there is.
SignedOutcome(response) ==
  CASE ~Readable(response.text) -> [ok |-> FALSE, status |-> 0, message |-> <<"Failed to parse response as JSON">>]
    [] Readable(response.text) /\ response.status < 300 -> [ok |-> TRUE, status |-> response.status, message |-> <<>>]
    [] OTHER -> [ok |-> FALSE, status |-> response.status,
                 message |-> SelectSeq(<<"HTTP error", Said(response).message, Said(response).error>>, LAMBDA part : part # "")]

(* --- Samples and properties -------------------------------------------------------------- *)

Creds == [accessKey |-> "key", secretKey |-> "secret", sessionToken |-> "token"]
Written == [text : {1, 2}, as : {"raw", "aws"}]
Queries == UNION {[1..n -> {AwsUriEncode(1), AwsUriEncode(2)} \X Written] : n \in 0..2}
Extras == {<<>>, [host |-> "proxy"], [accept |-> "json"]}
Endpoint == [protocol : {"", "wss://"}, host : {"", "host"}, path : {"", "/p"}]
SigningSamples ==
  [about : {"signing"}, method : {"GET", "POST"}, path : Written, query : Queries, body : {"", "b1"}, extra : Extras,
   time : {<<20000, 86399>>, <<20001, 0>>}]
UrlSamples == [about : {"url"}, endpoint : Endpoint, token : {"", "token"}, time : {<<20000, 0>>, <<20001, 0>>}]
CredsSamples ==
  [about : {"creds"}, accessKey : {"", "key"}, secretKey : {"secret"}, sessionToken : {"", "token"},
   expiration : {NoNumber, 0, 100, 5000, 8600}, age : {0, 4699, 4700, 3299, 3300, 9000}]
AnswerSamples == [about : {"answer"}, status : {0, 200, 401, 500}, text : {"", " ", "json", "junk", "expired"},
                  message : {"", " ", "expired"}, error : {"", "e"}]

\* What is sent is what was signed: the service accepts the request as it came,
\* with its query in any order and spelling, and none whose method, path, query, body
\* or signed headers were changed or that another secret signed.
RequestIsSigned(s) ==
  LET r == SignedRequest(Creds, s.time, "region", s.method, "host", s.path, s.query, s.body, s.extra)
  IN /\ ServiceAccepts(r, "secret") /\ ~ServiceAccepts(r, "other")
     /\ ServiceAccepts([r EXCEPT !.query = Reverse(CanonicalQuery(@))], "secret")
     /\ ~ServiceAccepts([r EXCEPT !.method = "PUT"], "secret") /\ ~ServiceAccepts([r EXCEPT !.body = "b2"], "secret")
     /\ ~ServiceAccepts([r EXCEPT !.path.text = 3], "secret")
     /\ ~ServiceAccepts([r EXCEPT !.query = Append(@, <<AwsUriEncode(1), AwsUriEncode(1)>>)], "secret")
     /\ ~ServiceAccepts([r EXCEPT !.headers["x-amz-date"] = <<@[1] + 1, @[2]>>], "secret")
     /\ \A name \in DOMAIN r.headers \ {"x-amz-date"} : ~ServiceAccepts([r EXCEPT !.headers[name] = "elsewhere"], "secret")

\* The service finds the signed URL's signature from what else it says.
UrlIsSigned(s) ==
  LET creds == [Creds EXCEPT !.sessionToken = s.token]
      url == MqttSignedUrl(creds, s.endpoint, s.time, "region", 86400)
      request == <<"GET", "/mqtt", url.query, [host |-> url.host], {"host"}, Sha256("")>>
      scope == url.query[2][2].text[2]
  IN /\ s.endpoint.host # "" => url.host = s.endpoint.host
     /\ \A i \in 1..(Len(url.query) - 1) : url.query[i][1] < url.query[i + 1][1]
     /\ url.signature = Hmac(Hmac(Hmac(Hmac(Hmac("AWS4", "secret"), scope[1]), "region"), "iotdevicegateway"),
                             <<"AWS4-HMAC-SHA256", url.query[3][2].text, scope, Sha256(request)>>)

\* Credentials that are used have more than the buffer left, by what the cloud said
\* of them, or of an hour when it said nothing; the others are fetched again.
CredentialsLast(s) ==
  LET issued == 1000
      creds == ExtractTemporaryCredentials(s, issued)
      until == IF s.expiration > 0 THEN s.expiration ELSE issued + 3600
  IN /\ creds.ok <=> s.accessKey # "" /\ s.sessionToken # ""
     /\ creds.ok => (AreCredentialsExpired(creds.expiration, issued + s.age) <=> until - (issued + s.age) <= CredsBuffer)
     /\ AreCredentialsExpired(NaN, issued) /\ AreCredentialsExpired(NoNumber, issued)

\* An answer counts as one exactly when the status is good and it can be read; both
\* APIs agree, and an error of the cloud's keeps its status, on which a retry depends:
\* credentials are asked for again, with a fresh token, when and only when they were
\* refused as expired, in a body that is JSON or not.
AnswersAgree(s) ==
  LET user == UserApiOutcome(s)
      signed == SignedOutcome(s)
      creds == CredentialsOutcome(s)
  IN s.status # 0 => /\ user.ok = signed.ok /\ user.status = signed.status
                     /\ user.ok <=> s.status < 300 /\ Readable(s.text)
                     /\ ~user.ok /\ Readable(s.text) => user.status = s.status
                     /\ ~user.ok => user.message # ""
                     /\ creds.status = s.status /\ (~creds.ok => creds.message # "")
                     /\ creds.refresh => s.status = 401
                     /\ s.status = 401 /\ (IF s.text = "json" THEN s.message = "expired" ELSE s.text = "expired") => creds.refresh
=============================================================================
