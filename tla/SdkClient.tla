------------------------------ MODULE SdkClient ------------------------------
(***************************************************************************)
(* Requests of a client of the API that share its tokens: the SDK's        *)
(* requestJson over HttpClient and withRetry, and the web application's    *)
(* fetchJson, which does not retry and gives up its session when the       *)
(* refresh fails.  A request is answered, answered 401, refused, or the    *)
(* answer is lost or transient (a network error or one of the statuses     *)
(* that are retried) after the server has acted or before.  Access tokens  *)
(* are numbered in the order the server issues them.                       *)
(***************************************************************************)
EXTENDS Integers, FiniteSets

CONSTANTS
  Calls,        \* concurrent requests of the client, each made once
  MaxAttempts,  \* maxAttempts of withRetry
  MaxIssued     \* bound: tokens issued

ASSUME SdkAssumption == MaxAttempts \in Nat \ {0} /\ MaxIssued \in Nat \ {0}

VARIABLES
  client,   \* "sdk" or "dashboard"
  tokens,   \* the access token the client holds, or NoToken
  issued,   \* tokens issued by the server
  live,     \* tokens the server accepts
  call,     \* call[c]
  sent,     \* history: requests sent for c, refreshes not counted
  acted,    \* history: how often the server acted on c
  unheard   \* history: how often it acted on c and the answer was lost or transient

sdkVars == <<client, tokens, issued, live, call, sent, acted, unheard>>

NoToken == 0
Tokens  == 0..MaxIssued
Fresh   == [step |-> "fresh", token |-> NoToken, attempt |-> 0, retried |-> FALSE]

SdkTypeOK ==
  /\ client \in {"sdk", "dashboard"}
  /\ {tokens, issued} \subseteq Tokens /\ live \subseteq Tokens \ {NoToken}
  /\ call \in [Calls -> [step : {"fresh", "sent", "refreshing", "granted", "resolved",
                                 "rejected"},
                         token : Tokens, attempt : 0..MaxAttempts, retried : BOOLEAN]]
  /\ sent \in [Calls -> Nat] /\ acted \in [Calls -> Nat] /\ unheard \in [Calls -> Nat]

SdkInit ==
  /\ client \in {"sdk", "dashboard"}
  /\ tokens = 1 /\ issued = 1 /\ live = {1}
  /\ call = [c \in Calls |-> Fresh]
  /\ sent = [c \in Calls |-> 0]
  /\ acted = [c \in Calls |-> 0]
  /\ unheard = [c \in Calls |-> 0]

Is(c, step)   == call[c].step = step
Goes(c, next) == call' = [call EXCEPT ![c] = next]
Ends(c, step) == Goes(c, [call[c] EXCEPT !.step = step])
Once(f, c)    == [f EXCEPT ![c] = @ + 1]

-----------------------------------------------------------------------------

\* The request interceptor puts the token in; withRetry sends the same request again.
Dispatch(c, token, retried) ==
  /\ Goes(c, [step |-> "sent", token |-> token, attempt |-> 1, retried |-> retried])
  /\ sent' = Once(sent, c)

\* requestJson or fetchJson is called.
StartRequest(c) ==
  /\ Is(c, "fresh")
  /\ Dispatch(c, tokens, FALSE)
  /\ UNCHANGED <<client, tokens, issued, live, acted, unheard>>

Accepted(c) == call[c].token \in live

\* A 2xx.
Answered(c) ==
  /\ Is(c, "sent") /\ Accepted(c)
  /\ acted' = Once(acted, c)
  /\ Ends(c, "resolved")
  /\ UNCHANGED <<client, tokens, issued, live, sent, unheard>>

\* Any other status that is not retried.
Refused(c) ==
  /\ Is(c, "sent") /\ Accepted(c)
  /\ Ends(c, "rejected")
  /\ UNCHANGED <<client, tokens, issued, live, sent, acted, unheard>>

Attempts == IF client = "sdk" THEN MaxAttempts ELSE 1

\* Mutant: one attempt more.
MayRetryOnceMore(c) == call[c].attempt <= Attempts

MayRetry(c) == call[c].attempt < Attempts

\* No answer, or a transient one: it is sent again after the delay, or rejects.
AnswerLost(c, served) ==
  /\ Is(c, "sent")
  /\ served => Accepted(c)
  /\ IF served
     THEN acted' = Once(acted, c) /\ unheard' = Once(unheard, c)
     ELSE UNCHANGED <<acted, unheard>>
  /\ IF MayRetry(c)
     THEN Goes(c, [call[c] EXCEPT !.attempt = @ + 1]) /\ sent' = Once(sent, c)
     ELSE Ends(c, "rejected") /\ UNCHANGED sent
  /\ UNCHANGED <<client, tokens, issued, live>>

\* Mutant: the retry after a refresh may refresh again.
MayRefreshAgain(c) == client = "dashboard" \/ tokens # NoToken

\* The 401 is the first, and the SDK has a refresh token.
MayRefresh(c) == ~call[c].retried /\ (client = "dashboard" \/ tokens # NoToken)

\* A 401: the token is refreshed, or the request rejects.
Unauthorized(c) ==
  /\ Is(c, "sent") /\ ~Accepted(c)
  /\ IF MayRefresh(c)
     THEN Goes(c, [call[c] EXCEPT !.step = "refreshing", !.attempt = 1])
     ELSE Ends(c, "rejected")
  /\ UNCHANGED <<client, tokens, issued, live, sent, acted, unheard>>

\* The server issues a token to the refresh,
RefreshServed(c) ==
  /\ Is(c, "refreshing") /\ issued < MaxIssued
  /\ issued' = issued + 1 /\ live' = live \cup {issued'}
  /\ Goes(c, [call[c] EXCEPT !.step = "granted", !.token = issued'])
  /\ UNCHANGED <<client, tokens, sent, acted, unheard>>

\* which the client stores when it arrives, whatever it holds by then: the SDK's
\* interceptor and fetchJson then send the request with it.
RefreshArrives(c) ==
  /\ Is(c, "granted")
  /\ tokens' = call[c].token
  /\ Dispatch(c, call[c].token, TRUE)
  /\ UNCHANGED <<client, issued, live, acted, unheard>>

\* The refresh fails: the SDK retries it like any request and then rejects; fetchJson
\* clears its token and goes to the login page.
RefreshFails(c, transient) ==
  /\ Is(c, "refreshing")
  /\ IF transient /\ MayRetry(c)
     THEN Goes(c, [call[c] EXCEPT !.attempt = @ + 1])
     ELSE Ends(c, "rejected")
  /\ tokens' = IF client = "dashboard" /\ ~transient THEN NoToken ELSE tokens
  /\ UNCHANGED <<client, issued, live, sent, acted, unheard>>

\* logout resolves: the server has revoked the token, or could not be reached.
LogsOut(reached) ==
  /\ tokens # NoToken
  /\ live' = IF reached THEN live \ {tokens} ELSE live
  /\ tokens' = NoToken
  /\ UNCHANGED <<client, issued, call, sent, acted, unheard>>

LogsIn ==
  /\ issued < MaxIssued
  /\ issued' = issued + 1 /\ live' = live \cup {issued'} /\ tokens' = issued'
  /\ UNCHANGED <<client, call, sent, acted, unheard>>

\* Tokens live equally long.
TokenExpires ==
  /\ \E t \in live : (\A u \in live : t <= u) /\ live' = live \ {t}
  /\ UNCHANGED <<client, tokens, issued, call, sent, acted, unheard>>

SdkNext ==
  \/ LogsIn \/ TokenExpires
  \/ \E yes \in BOOLEAN : LogsOut(yes)
  \/ \E c \in Calls :
       \/ StartRequest(c) \/ Answered(c) \/ Refused(c) \/ Unauthorized(c)
       \/ RefreshServed(c) \/ RefreshArrives(c)
       \/ \E yes \in BOOLEAN : AnswerLost(c, yes) \/ RefreshFails(c, yes)

SdkSpec == SdkInit /\ [][SdkNext]_sdkVars

-----------------------------------------------------------------------------
(* Properties *)

\* One refresh and one more round of attempts at most, whatever the other requests of
\* the client, its logins and logouts do to the tokens in between; and the server acts
\* on a request again only if an answer to it was lost: a request whose answers all
\* arrive takes effect once if it resolves and not at all if it rejects.
RequestsBounded ==
  \A c \in Calls :
    /\ sent[c] <= 2 * Attempts
    /\ acted[c] = unheard[c] + (IF Is(c, "resolved") THEN 1 ELSE 0)
=============================================================================
