------------------------------ MODULE AccountCalls ------------------------------
(* The calls of ESPRMNeoAuth about an account: sign-up, sign-in, passwords          *)
(* (methods/ESPRMNeoAuth, ESPRMNeoAuth.ts, utils/authUtils.ts). Each posts one body     *)
(* and answers with what the user API answers, or with an error of its own code.          *)
(* What is missing is "".                                                                  *)
EXTENDS SignedRequests

\* A username is a phone number when it starts with +.
IsPhoneUsername(username) == username = "+1"
SignupIdentity(username) ==
  IF IsPhoneUsername(username) THEN [email |-> "", phone |-> username] ELSE [email |-> username, phone |-> ""]

\* sendSignUpCode: the attributes before the username. confirmSignUp has only that.
SignupRequest(username, attributes) ==
  [email |-> First(attributes.email, SignupIdentity(username).email),
   phone |-> First(attributes.phone, SignupIdentity(username).phone)]
VerifyRequest(username) == SignupIdentity(username)

\* normalizeApiResponse: the answer's message, or the call's own.
NormalizeApiResponse(response, fallback) == First(response.message, fallback)

AuthError(code, message) == [ok |-> FALSE, code |-> code, message |-> message]
Answer(message) == [ok |-> TRUE, code |-> "", message |-> message]

\* A failed call: an ESPAuthError as it is, any other with the call's code.
Wrapped(code, outcome) == AuthError(code, outcome.message)

Posted(code, response, message) ==
  IF UserApiOutcome(response).ok THEN Answer(message) ELSE Wrapped(code, UserApiOutcome(response))

SendSignUpCode(response) == Posted("SIGNUP_FAILED", response, NormalizeApiResponse(response, ""))
ConfirmSignUp(response) == Posted("CONFIRM_SIGNUP_FAILED", response, NormalizeApiResponse(response, "confirmed"))
ForgotPassword(response) == Posted("FORGOT_PASSWORD_FAILED", response, response.message)
SetNewPassword(response) == Posted("PASSWORD_RESET_FAILED", response, NormalizeApiResponse(response, "reset"))

\* Without a stored token nothing is posted.
ChangePassword(accessToken, response) ==
  IF accessToken = "" THEN AuthError("NOT_LOGGED_IN", "not logged in")
  ELSE Posted("CHANGE_PASSWORD_FAILED", response, NormalizeApiResponse(response, "changed"))

\* An answer that lacks a token is no session. The refresh token of a refresh is the
\* one it was made with; what fails there is not wrapped.
Login(tokens, response) ==
  CASE ~UserApiOutcome(response).ok -> [tokens |-> {}, error |-> "LOGIN_FAILED"]
    [] UserApiOutcome(response).ok /\ ~{"access", "id", "refresh"} \subseteq tokens ->
         [tokens |-> {}, error |-> "LOGIN_FAILED_MISSING_TOKENS"]
    [] OTHER -> [tokens |-> {"access", "id", "refresh"}, error |-> ""]
GetRefreshedTokens(tokens, response) ==
  CASE ~UserApiOutcome(response).ok -> [tokens |-> {}, error |-> UserApiOutcome(response).message]
    [] UserApiOutcome(response).ok /\ ~{"access", "id"} \subseteq tokens ->
         [tokens |-> {}, error |-> "TOKEN_REFRESH_FAILED_MISSING_TOKENS"]
    [] OTHER -> [tokens |-> {"access", "id", "refresh"}, error |-> ""]

(* --- Samples and properties --------------------------------------------------------- *)

AccountSamples ==
  [about : {"account"}, username : {"+1", "a@b"}, email : {"", "a@b", "c@d"}, phone : {"", "+1", "+2"},
   token : {"", "access"}, tokens : SUBSET {"access", "id", "refresh"},
   response : [status : {0, 200, 401}, text : {"", "json", "junk"}, message : {"", "said"}, error : {""}]]

\* What is confirmed was signed up, unless an attribute took the username's place; a
\* call succeeds exactly when the API answered well, and its error always says
\* something; a session has all its tokens or does not begin, nor go on.
AccountIsServed(s) ==
  LET signup == SignupRequest(s.username, [email |-> s.email, phone |-> s.phone])
      verify == VerifyRequest(s.username)
      ok == UserApiOutcome(s.response).ok
      answers == {SendSignUpCode(s.response), ConfirmSignUp(s.response), ForgotPassword(s.response), SetNewPassword(s.response)}
      sessions == {Login(s.tokens, s.response), GetRefreshedTokens(s.tokens, s.response)}
  IN /\ (IF IsPhoneUsername(s.username) THEN s.phone ELSE s.email) \in {"", s.username} =>
          (verify.email # "" => signup.email = verify.email) /\ (verify.phone # "" => signup.phone = verify.phone)
     /\ signup.email # "" \/ signup.phone # ""
     /\ \A a \in answers : (a.ok <=> ok) /\ (~a.ok => a.code # "" /\ a.message # "")
     /\ ChangePassword(s.token, s.response).ok <=> ok /\ s.token # ""
     /\ \A session \in sessions :
          (session.error = "" <=> session.tokens = {"access", "id", "refresh"}) /\ (session.error = "" => ok /\ {"access", "id"} \subseteq s.tokens)
=============================================================================
