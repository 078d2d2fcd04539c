--------------------------- MODULE BaiduProvider ---------------------------
(***************************************************************************)
(* BaiduTranslationProvider.translate over FetchBaiduTransport: calls with *)
(* a deadline and a signal of the caller, each racing its work.            *)
(*                                                                         *)
(* translate() settles with whatever comes first, the work or the          *)
(* cancellation of its internal controller, which the deadline and the     *)
(* caller's signal abort.  A call that has settled so may leave its work   *)
(* behind: reading the credentials cannot be cancelled.                    *)
(*                                                                         *)
(* A step runs the microtasks it causes: from a timer, an abort or an      *)
(* answer to the next await on something outside the process.  A reply of  *)
(* the service is its status and what parsing finds in its body: a text is *)
(* whether it echoes the one that was sent, and a length.  The transport's *)
(* own timer is as long as the provider's and starts later, so it never    *)
(* fires first.                                                            *)
(***************************************************************************)
EXTENDS Integers, FiniteSets

CONSTANTS
  Calls,        \* the calls that may be under way together
  Statuses,     \* HTTP statuses the service may reply with
  ErrorCodes    \* error_code values the service may reply with

ASSUME BaiduAssumption == Statuses \subseteq 100..599

VARIABLES
  work,       \* how far #translateOnce is with each call
  aborted,    \* the calls that have settled, their controller aborted, with work left
  settled     \* what calls have settled with in the last step

providerVars == <<work, aborted>>

-----------------------------------------------------------------------------
(* Languages, as a request names them and as the service does.             *)

Phase4TranslationTargetLanguages == {"zh-CN", "en", "ja", "ko"}
Phase4TranslationSourceLanguages == {"auto"} \cup Phase4TranslationTargetLanguages

LanguageToBaidu ==
  [l \in Phase4TranslationSourceLanguages |->
     CASE l = "zh-CN" -> "zh" [] l = "ja" -> "jp" [] l = "ko" -> "kor" [] OTHER -> l]

SupportedBaiduLanguages == {LanguageToBaidu[l] : l \in Phase4TranslationTargetLanguages}

MapLanguageFromBaidu(code) ==
  CHOOSE l \in Phase4TranslationTargetLanguages : LanguageToBaidu[l] = code

(***************************************************************************)
(* Texts: a length, and whether they are valid UTF-16 with no NUL (JSON    *)
(* escapes may spell a surrogate alone); of a request also the bytes of    *)
(* UTF-8, and whether there is more than blanks.                           *)
(***************************************************************************)
MaxTranslationTextLength == 32768

HasValidTranslationUtf16(text) == text.utf16

IsBoundedText(text, minimum, maximum) ==
  text.length \in minimum..maximum /\ HasValidTranslationUtf16(text)

IsLanguageCode(language) == language # "auto"

IsTranslationRequest(request) ==
  /\ IsBoundedText(request.text, 1, MaxTranslationTextLength)
  /\ request.source = "auto" \/ IsLanguageCode(request.source)
  /\ IsLanguageCode(request.target)

BaiduMaxTextBytes == 6000

ValidateTranslationRequest(request) ==
  /\ IsTranslationRequest(request)
  /\ ~request.text.blank /\ request.text.bytes <= BaiduMaxTextBytes
  /\ request.source \in DOMAIN LanguageToBaidu
  /\ request.target \in DOMAIN LanguageToBaidu /\ LanguageToBaidu[request.target] # "auto"

-----------------------------------------------------------------------------
(* Failures: their code, and whether the card offers to retry.             *)

FailureCodes ==
  {"cancelled", "invalid-request", "credentials-missing", "authentication-failed",
   "quota-exceeded", "rate-limited", "network-unavailable", "provider-unavailable",
   "unsupported-language", "malformed-response", "unknown"}

Failure(code, retryable) == <<code, retryable>>

Success == Failure("success", FALSE)
Cancelled == Failure("cancelled", FALSE)
TimedOut == Failure("network-unavailable", TRUE)
Malformed == Failure("malformed-response", FALSE)

TransportErrors == {"cancelled", "timeout", "network", "response-too-large", "malformed-response"}

MapTransportFailure(kind) ==
  CASE kind = "cancelled" -> Cancelled
    [] kind \in {"timeout", "network"} -> TimedOut
    [] kind \in {"response-too-large", "malformed-response"} -> Malformed

MapHttpFailure(status) ==
  CASE status \in {401, 403} -> Failure("authentication-failed", FALSE)
    [] status = 429 -> Failure("rate-limited", TRUE)
    [] status \in {400, 413, 422} -> Failure("invalid-request", FALSE)
    [] status = 408 \/ status >= 500 -> Failure("provider-unavailable", TRUE)
    [] OTHER -> Failure("provider-unavailable", FALSE)

MapBaiduFailure(code) ==
  CASE code \in {"52001", "52002"} -> Failure("provider-unavailable", TRUE)
    [] code \in {"52003", "54001", "58000", "90107"} -> Failure("authentication-failed", FALSE)
    [] code = "54000" -> Failure("invalid-request", FALSE)
    [] code \in {"54003", "54005"} -> Failure("rate-limited", TRUE)
    [] code = "54004" -> Failure("quota-exceeded", FALSE)
    [] code = "58001" -> Failure("unsupported-language", FALSE)
    [] code = "58002" -> Failure("provider-unavailable", FALSE)
    [] OTHER -> Failure("unknown", FALSE)

(* What reading a body fails with; sending fails with the second as well.  *)
ReadBoundedUtf8Body == {"response-too-large", "network", "malformed-response"}

(* What parsing finds in a body: an error, or a translation that names its *)
(* direction, echoes a source text line by line, and is a text; a blank    *)
(* line may come with an invented translation.                             *)
BaiduFailures == [errorCode : ErrorCodes]

BaiduSuccesses ==
  [from : SupportedBaiduLanguages \cup {"tlh"}, to : SupportedBaiduLanguages,
   echo : {"same", "other", "invented"},
   text : [length : {1, MaxTranslationTextLength + 1}, utf16 : BOOLEAN]]

InDirection(request, parsed) ==
  /\ parsed.to = LanguageToBaidu[request.target]
  /\ parsed.from \in SupportedBaiduLanguages
  /\ request.source # "auto" => parsed.from = LanguageToBaidu[request.source]

MatchesBaiduSourceEcho(parsed) == parsed.echo = "same"

IsTranslationResult(result) ==
  /\ IsBoundedText(result.translated, 1, MaxTranslationTextLength)
  /\ IsLanguageCode(result.detected)

(* A body that parses, with status 200, in the order #translateOnce checks.*)
Parsed(request, parsed) ==
  LET result == [translated |-> parsed.text, detected |-> MapLanguageFromBaidu(parsed.from)]
  IN IF /\ InDirection(request, parsed)
        /\ MatchesBaiduSourceEcho(parsed)
        /\ IsTranslationResult(result)
     THEN Success ELSE Malformed

(* All that a request can end with once it has been sent.                  *)
Verdicts(request) ==
  {MapTransportFailure(kind) : kind \in ReadBoundedUtf8Body}
    \cup {MapHttpFailure(status) : status \in Statuses \ (200..299)}
    \cup (IF Statuses \cap (200..299) = {} THEN {}
          ELSE {MapBaiduFailure(f.errorCode) : f \in BaiduFailures}
                 \cup {Parsed(request, s) : s \in BaiduSuccesses})

-----------------------------------------------------------------------------

(* A call that has not settled: its race is on.                            *)
Live(c) == work[c] # "idle" /\ c \notin aborted

ProviderTypeOK ==
  /\ work \in [Calls -> {"idle", "credentials", "fetch"}]
  /\ aborted \subseteq Calls
  /\ \A r \in settled : r[1] \in FailureCodes \cup {"success"}

ProviderInit ==
  /\ work = [c \in Calls |-> "idle"]
  /\ aborted = {}
  /\ settled = {}

-----------------------------------------------------------------------------
(* translate()'s catch: one failure, whichever branch saw the abort first. *)
Caught(deadlineReached, cancelled, r) ==
  IF r = Success THEN r
  ELSE IF deadlineReached THEN TimedOut
  ELSE IF cancelled THEN Cancelled
  ELSE r

(* The controllers of S are aborted: their fetches reject.  A read goes on *)
(* unless it was superseded.                                               *)
WithoutWork(S, superseded) ==
  [c \in Calls |-> IF \/ c \in S /\ work[c] = "fetch"
                      \/ c \in superseded /\ work[c] = "credentials"
                   THEN "idle" ELSE work[c]]

LeftBehind(S, superseded) ==
  {c \in aborted \cup S : WithoutWork(S, superseded)[c] # "idle"}

AbortWork(S, superseded) ==
  /\ work' = WithoutWork(S, superseded)
  /\ aborted' = LeftBehind(S, superseded)

(* What the aborted calls of S settle with: onExternalAbort aborts the     *)
(* internal controller, which rejects the race; the fetch rejects as well. *)
AbortedOutcomes(S) == {Caught(FALSE, TRUE, Cancelled) : c \in {d \in S : Live(d)}}

(* The work has won the race, and the timer is cleared.                    *)
Settle(c, r) ==
  /\ work' = [work EXCEPT ![c] = "idle"]
  /\ settled' = {Caught(FALSE, FALSE, r)}
  /\ UNCHANGED aborted

(* Mutant: a deadline that only aborts the fetch.                          *)
DeadlineOfFetch(c) ==
  /\ work[c] = "fetch" /\ Live(c)
  /\ AbortWork({c}, {})
  /\ settled' = {TimedOut}

(* The deadline rejects the race with a network failure; the fetch that it *)
(* aborts rejects as cancelled.  Either is first.                          *)
DeadlineReached(c) ==
  /\ Live(c)
  /\ AbortWork({c}, {})
  /\ \E r \in {TimedOut} \cup (IF work[c] = "fetch" THEN {MapTransportFailure("cancelled")} ELSE {}) :
       settled' = {Caught(TRUE, FALSE, r)}

(* Mutant: the signal is not looked at again after the read.               *)
CredentialsSent(c) ==
  /\ work[c] = "credentials"
  /\ work' = [work EXCEPT ![c] = "fetch"]
  /\ settled' = {}
  /\ UNCHANGED aborted

(* The credentials are there: the request is signed and sent, unless the   *)
(* call has been aborted while they were read.                             *)
CredentialsFound(c) ==
  /\ work[c] = "credentials"
  /\ work' = [work EXCEPT ![c] = IF c \in aborted THEN "idle" ELSE "fetch"]
  /\ aborted' = aborted \ {c}
  /\ settled' = {}

CredentialsMissing(c) ==
  /\ work[c] = "credentials" /\ Live(c)
  /\ Settle(c, Failure("credentials-missing", FALSE))

(* A read left behind fails: nobody hears of it.                           *)
StrayEnds(c) ==
  /\ work[c] = "credentials" /\ c \in aborted
  /\ work' = [work EXCEPT ![c] = "idle"]
  /\ aborted' = aborted \ {c}
  /\ settled' = {}

(* The service replies, or the request fails.                              *)
Respond(c, verdicts) ==
  /\ work[c] = "fetch" /\ Live(c)
  /\ \E r \in verdicts : Settle(c, r)

-----------------------------------------------------------------------------

(* No request is sent, or left on its way, behind a call that has settled, *)
(* be it at its deadline, by a newer test or because consent has gone:     *)
(* what was read for it meanwhile is not used (translate, #translateOnce). *)
NothingIsSentBehind == \A c \in aborted : work[c] # "fetch"

=============================================================================
