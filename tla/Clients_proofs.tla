---------------------------- MODULE Clients_proofs ----------------------------
(***************************************************************************)
(* What the clients of the API promise, for every value of the constants.  *)
(*                                                                         *)
(* Requests: how often one is sent and how often the server acts on it.    *)
(* The invariant behind it relates what was sent to the attempt, and to    *)
(* whether the request was repeated after a refresh.                       *)
(*                                                                         *)
(* Tags: a settled editor shows what the server has.  The invariant behind *)
(* it: with no edit in hand the cache is that of the server or a read will *)
(* follow, and the answer of the read on its way is what the server has.   *)
(*                                                                         *)
(* Pages: every item is yielded once.  The invariant behind it: what was   *)
(* yielded is the list up to the current page, and of that page as much as *)
(* has been read.                                                          *)
(*                                                                         *)
(* Notifications: a sweep takes only what has expired.  Toasts: their ids  *)
(* are distinct, a dismissed one has the timer that removes it, and one    *)
(* that has gone does not return.                                          *)
(*                                                                         *)
(* Last, each part of MCApi behaves as its own specification says, so what *)
(* is proved of the parts holds of the whole.                              *)
(***************************************************************************)
EXTENDS MCApi, Api_proofs, SequenceTheorems

-----------------------------------------------------------------------------
(* Requests of a client *)

CallRecords == [step : {"fresh", "sent", "refreshing", "granted", "resolved", "rejected"},
                token : Tokens, attempt : 0..MaxAttempts, retried : BOOLEAN]

\* Before the refresh as many requests as attempts, after it a second round; only the
\* first round may refresh.
SentByAttempt(c) ==
  /\ call[c].attempt <= Attempts
  /\ Is(c, "fresh") => sent[c] = 0
  /\ Is(c, "sent") /\ ~call[c].retried => sent[c] = call[c].attempt
  /\ ~call[c].retried => sent[c] <= Attempts
  /\ call[c].retried => sent[c] <= Attempts + call[c].attempt
  /\ call[c].step \in {"fresh", "refreshing", "granted"} => ~call[c].retried

HeardOrLost(c) ==
  acted[c] = unheard[c] + (IF Is(c, "resolved") THEN 1 ELSE 0)

SdkInv ==
  /\ SdkTypeOK
  /\ \A c \in Calls : SentByAttempt(c) /\ HeardOrLost(c)

LEMMA AttemptsFact == client \in {"sdk", "dashboard"} => Attempts \in 1..MaxAttempts
  BY SdkAssumption DEF Attempts

LEMMA CallFields ==
  ASSUME SdkInv, NEW c \in Calls
  PROVE  /\ call[c] \in CallRecords
         /\ call[c].step \in {"fresh", "sent", "refreshing", "granted", "resolved",
                              "rejected"}
         /\ call[c].token \in Nat /\ call[c].token \in Tokens
         /\ call[c].attempt \in 0..MaxAttempts
         /\ call[c].retried \in BOOLEAN
         /\ sent[c] \in Nat /\ acted[c] \in Nat /\ unheard[c] \in Nat
         /\ call = [d \in Calls |-> call[d]]
         /\ SentByAttempt(c) /\ HeardOrLost(c)
         /\ Attempts \in 1..MaxAttempts
<1>1. call[c] \in CallRecords
  BY DEF SdkInv, SdkTypeOK, CallRecords
<1>2. Tokens \subseteq Nat
  BY SdkAssumption DEF Tokens, NoToken
<1> QED BY <1>1, <1>2, AttemptsFact DEF SdkInv, SdkTypeOK, CallRecords

\* Where a call may be after it was sent ns times, while the server acted on it na times
\* and nu of the answers were lost.
Fits(next, ns, na, nu) ==
  /\ next \in CallRecords
  /\ ns \in Nat /\ na \in Nat /\ nu \in Nat
  /\ next.attempt <= Attempts
  /\ next.step # "fresh"
  /\ next.step = "sent" /\ ~next.retried => ns = next.attempt
  /\ ~next.retried => ns <= Attempts
  /\ next.retried => ns <= Attempts + next.attempt
  /\ next.step \in {"refreshing", "granted"} => ~next.retried
  /\ na = nu + (IF next.step = "resolved" THEN 1 ELSE 0)

SessionMoves ==
  /\ client' = client
  /\ tokens' \in Tokens /\ issued' \in Tokens /\ live' \in SUBSET (Tokens \ {NoToken})

LEMMA CallMoves ==
  ASSUME SdkInv, SessionMoves, NEW c \in Calls, NEW next, NEW ns, NEW na, NEW nu,
         Fits(next, ns, na, nu), Goes(c, next),
         sent' = [sent EXCEPT ![c] = ns], acted' = [acted EXCEPT ![c] = na],
         unheard' = [unheard EXCEPT ![c] = nu]
  PROVE  SdkInv'
<1>1. /\ call' \in [Calls -> CallRecords]
      /\ sent' \in [Calls -> Nat] /\ acted' \in [Calls -> Nat] /\ unheard' \in [Calls -> Nat]
  BY DEF Fits, Goes, SdkInv, SdkTypeOK, CallRecords
<1>2. Attempts' = Attempts
  BY DEF SessionMoves, Attempts
<1>3. SdkTypeOK'
  BY <1>1 DEF SessionMoves, SdkInv, SdkTypeOK, CallRecords
<1>4. /\ call'[c] = next /\ sent'[c] = ns /\ acted'[c] = na /\ unheard'[c] = nu
      /\ \A d \in Calls \ {c} : /\ call'[d] = call[d] /\ sent'[d] = sent[d]
                                /\ acted'[d] = acted[d] /\ unheard'[d] = unheard[d]
  BY DEF Goes, SdkInv, SdkTypeOK
<1>5. SentByAttempt(c)' /\ HeardOrLost(c)'
  BY <1>2, <1>4 DEF Fits, SentByAttempt, HeardOrLost, Is
<1>6. \A d \in Calls \ {c} : SentByAttempt(d)' /\ HeardOrLost(d)'
  BY <1>2, <1>4 DEF SentByAttempt, HeardOrLost, Is, SdkInv
<1> QED BY <1>3, <1>5, <1>6 DEF SdkInv

\* A login, a logout or an expiry: no call moves.
LEMMA CallsStay ==
  ASSUME SdkInv, SessionMoves, UNCHANGED <<call, sent, acted, unheard>>
  PROVE  SdkInv'
  BY DEF SessionMoves, SdkInv, SdkTypeOK, SentByAttempt, HeardOrLost, Is, Attempts

\* What is left to show of a step that sends nothing and is not answered.
LEMMA EndsFit ==
  ASSUME SdkInv, NEW c \in Calls, call[c].step \notin {"fresh", "resolved"},
         NEW next \in CallRecords, next.step \in {"rejected", "granted", "refreshing"},
         next.retried = call[c].retried, next.attempt <= Attempts,
         NEW na \in Nat, NEW nu \in Nat, na = nu,
         next.step # "rejected" => ~call[c].retried,
         next.step = "rejected" => next.attempt = call[c].attempt
  PROVE  Fits(next, sent[c], na, nu)
  BY CallFields, SdkAssumption DEF Fits, SentByAttempt

\* The fields of a call that ends, refreshes or is granted a token.
LEMMA CallEnds ==
  ASSUME SdkInv, NEW c \in Calls, NEW token \in Tokens
  PROVE  /\ \A step \in {"rejected", "resolved"} :
              LET next == [call[c] EXCEPT !.step = step]
              IN  /\ next \in CallRecords /\ next.step = step
                  /\ next.attempt = call[c].attempt /\ next.retried = call[c].retried
         /\ LET next == [call[c] EXCEPT !.step = "refreshing", !.attempt = 1]
            IN  /\ next \in CallRecords /\ next.step = "refreshing" /\ next.attempt = 1
                /\ next.retried = call[c].retried
         /\ LET next == [call[c] EXCEPT !.step = "granted", !.token = token]
            IN  /\ next \in CallRecords /\ next.step = "granted"
                /\ next.attempt = call[c].attempt /\ next.retried = call[c].retried
<1>1. call[c] \in CallRecords /\ 1 \in 0..MaxAttempts
  BY CallFields, SdkAssumption
<1>2. ASSUME NEW step \in {"rejected", "resolved"}
      PROVE  LET next == [call[c] EXCEPT !.step = step]
             IN  /\ next \in CallRecords /\ next.step = step
                 /\ next.attempt = call[c].attempt /\ next.retried = call[c].retried
  BY <1>1 DEF CallRecords
<1>3. LET next == [call[c] EXCEPT !.step = "refreshing", !.attempt = 1]
      IN  /\ next \in CallRecords /\ next.step = "refreshing" /\ next.attempt = 1
          /\ next.retried = call[c].retried
  BY <1>1 DEF CallRecords
<1>4. LET next == [call[c] EXCEPT !.step = "granted", !.token = token]
      IN  /\ next \in CallRecords /\ next.step = "granted"
          /\ next.attempt = call[c].attempt /\ next.retried = call[c].retried
  BY <1>1 DEF CallRecords
<1> QED BY <1>2, <1>3, <1>4

\* The next attempt.
LEMMA CallAgain ==
  ASSUME SdkInv, NEW c \in Calls, MayRetry(c)
  PROVE  LET next == [call[c] EXCEPT !.attempt = @ + 1]
         IN  /\ next \in CallRecords /\ next.step = call[c].step
             /\ next.attempt = call[c].attempt + 1 /\ next.attempt <= Attempts
             /\ next.retried = call[c].retried
<1>1. call[c].attempt + 1 \in 0..MaxAttempts /\ call[c].attempt + 1 <= Attempts
  BY CallFields, SdkAssumption DEF MayRetry
<1> QED BY <1>1, CallFields DEF CallRecords

\* The counters of a call, as functions.
LEMMA CountersStay ==
  ASSUME SdkInv, NEW c \in Calls
  PROVE  /\ sent = [sent EXCEPT ![c] = sent[c]]
         /\ acted = [acted EXCEPT ![c] = acted[c]]
         /\ unheard = [unheard EXCEPT ![c] = unheard[c]]
  BY DEF SdkInv, SdkTypeOK

\* requestJson or fetchJson is called: the first attempt.
LEMMA SdkStarts ==
  ASSUME SdkInv, NEW c \in Calls, StartRequest(c)
  PROVE  SdkInv'
<1> DEFINE next == [step |-> "sent", token |-> tokens, attempt |-> 1, retried |-> FALSE]
<1>1. /\ sent[c] = 0 /\ acted[c] = unheard[c] /\ unheard[c] \in Nat /\ acted[c] \in Nat
      /\ Attempts \in 1..MaxAttempts
  BY CallFields DEF StartRequest, SentByAttempt, HeardOrLost, Is
<1>2. next \in CallRecords
  BY SdkAssumption DEF SdkInv, SdkTypeOK, CallRecords
<1>3. Fits(next, 1, acted[c], unheard[c])
  BY <1>1, <1>2 DEF Fits
<1>4. /\ sent' = [sent EXCEPT ![c] = 1] /\ SessionMoves /\ Goes(c, next)
      /\ acted' = acted /\ unheard' = unheard
  BY <1>1 DEF StartRequest, Dispatch, Once, SessionMoves, SdkInv, SdkTypeOK
<1> HIDE DEF next
<1> QED BY <1>3, <1>4, CountersStay, CallMoves

\* The refreshed token arrives: the first attempt of the second round.
LEMMA SdkGoesOn ==
  ASSUME SdkInv, NEW c \in Calls, RefreshArrives(c)
  PROVE  SdkInv'
<1> DEFINE next == [step |-> "sent", token |-> call[c].token, attempt |-> 1,
                    retried |-> TRUE]
<1>1. /\ sent[c] <= Attempts /\ acted[c] = unheard[c] /\ unheard[c] \in Nat
      /\ acted[c] \in Nat /\ sent[c] \in Nat
      /\ Attempts \in 1..MaxAttempts
  BY CallFields DEF RefreshArrives, SentByAttempt, HeardOrLost, Is
<1>2. next \in CallRecords
  BY CallFields, SdkAssumption DEF CallRecords
<1>3. Fits(next, sent[c] + 1, acted[c], unheard[c])
  BY <1>1, <1>2, SdkAssumption DEF Fits
<1>4. /\ sent' = [sent EXCEPT ![c] = sent[c] + 1] /\ Goes(c, next)
      /\ acted' = acted /\ unheard' = unheard
  BY DEF RefreshArrives, Dispatch, Once
<1>5. SessionMoves
  BY CallFields DEF RefreshArrives, SessionMoves, SdkInv, SdkTypeOK
<1> HIDE DEF next
<1> QED BY <1>3, <1>4, <1>5, CountersStay, CallMoves

\* A 2xx, a status that is final, or a 401.
LEMMA SdkIsAnswered ==
  ASSUME SdkInv, NEW c \in Calls, Answered(c) \/ Refused(c) \/ Unauthorized(c)
  PROVE  SdkInv'
<1>1. /\ call[c].step = "sent" /\ acted[c] = unheard[c] /\ acted[c] \in Nat
      /\ unheard[c] \in Nat
  BY CallFields DEF Answered, Refused, Unauthorized, HeardOrLost, Is
<1>2. SessionMoves /\ sent' = sent /\ unheard' = unheard
  BY DEF Answered, Refused, Unauthorized, SessionMoves, SdkInv, SdkTypeOK
<1>3. CASE Answered(c)
  <2> DEFINE next == [call[c] EXCEPT !.step = "resolved"]
  <2>1. /\ next \in CallRecords /\ next.step = "resolved" /\ next.attempt = call[c].attempt
        /\ next.retried = call[c].retried
    BY CallFields DEF CallRecords
  <2>2. Goes(c, next) /\ acted' = [acted EXCEPT ![c] = acted[c] + 1]
    BY <1>3 DEF Answered, Ends, Once
  <2> HIDE DEF next
  <2>3. Fits(next, sent[c], acted[c] + 1, unheard[c])
    BY <1>1, <2>1, CallFields DEF Fits, SentByAttempt
  <2> QED BY <1>2, <2>2, <2>3, CountersStay, CallMoves
<1>4. CASE Refused(c) \/ (Unauthorized(c) /\ ~MayRefresh(c))
  <2> DEFINE next == [call[c] EXCEPT !.step = "rejected"]
  <2>1. Goes(c, next) /\ acted' = acted
    BY <1>4 DEF Refused, Unauthorized, Ends
  <2>2. /\ next \in CallRecords /\ next.step = "rejected"
        /\ next.attempt = call[c].attempt /\ next.retried = call[c].retried
    BY CallEnds, CallFields
  <2> HIDE DEF next
  <2>3. Fits(next, sent[c], acted[c], unheard[c])
    BY <1>1, <2>2, EndsFit, CallFields DEF SentByAttempt
  <2> QED BY <1>2, <2>1, <2>3, CountersStay, CallMoves
<1>5. CASE Unauthorized(c) /\ MayRefresh(c)
  <2> DEFINE next == [call[c] EXCEPT !.step = "refreshing", !.attempt = 1]
  <2>1. Goes(c, next) /\ acted' = acted
    BY <1>5 DEF Unauthorized
  <2>2. /\ next \in CallRecords /\ next.step = "refreshing" /\ next.attempt = 1
        /\ next.retried = call[c].retried
    BY CallEnds, CallFields
  <2> HIDE DEF next
  <2>3. Fits(next, sent[c], acted[c], unheard[c])
    BY <1>1, <1>5, <2>2, EndsFit, CallFields, SdkAssumption DEF MayRefresh
  <2> QED BY <1>2, <2>1, <2>3, CountersStay, CallMoves
<1> QED BY <1>3, <1>4, <1>5

\* An answer that is lost or transient.
LEMMA SdkAnswerLost ==
  ASSUME SdkInv, NEW c \in Calls, NEW served \in BOOLEAN, AnswerLost(c, served)
  PROVE  SdkInv'
<1>1. /\ call[c].step = "sent" /\ acted[c] = unheard[c] /\ acted[c] \in Nat
      /\ unheard[c] \in Nat
  BY CallFields DEF AnswerLost, HeardOrLost, Is
<1>2. SessionMoves
  BY DEF AnswerLost, SessionMoves, SdkInv, SdkTypeOK
<1>3. PICK n \in Nat : /\ acted' = [acted EXCEPT ![c] = n]
                       /\ unheard' = [unheard EXCEPT ![c] = n]
  <2>1. CASE served
    BY <1>1, <2>1 DEF AnswerLost, Once
  <2>2. CASE ~served
    BY <1>1, <2>2, CountersStay DEF AnswerLost
  <2> QED BY <2>1, <2>2
<1>4. CASE MayRetry(c)
  <2> DEFINE next == [call[c] EXCEPT !.attempt = @ + 1]
  <2>2. /\ next \in CallRecords /\ next.step = "sent"
        /\ next.attempt = call[c].attempt + 1 /\ next.attempt <= Attempts
        /\ next.retried = call[c].retried
    BY <1>1, <1>4, CallAgain
  <2>3. Goes(c, next) /\ sent' = [sent EXCEPT ![c] = sent[c] + 1]
    BY <1>4 DEF AnswerLost, Once
  <2> HIDE DEF next
  <2>4. /\ sent[c] \in Nat /\ Attempts \in Nat /\ call[c].attempt \in Nat
        /\ ~call[c].retried => sent[c] = call[c].attempt
        /\ call[c].retried => sent[c] <= Attempts + call[c].attempt
    BY <1>1, CallFields, SdkAssumption DEF SentByAttempt, Is
  <2>5. Fits(next, sent[c] + 1, n, n)
    BY <2>2, <2>4 DEF Fits
  <2> QED BY <1>2, <1>3, <2>3, <2>5, CallMoves
<1>5. CASE ~MayRetry(c)
  <2> DEFINE next == [call[c] EXCEPT !.step = "rejected"]
  <2>1. Goes(c, next) /\ sent' = sent
    BY <1>5 DEF AnswerLost, Ends
  <2>2. /\ next \in CallRecords /\ next.step = "rejected"
        /\ next.attempt = call[c].attempt /\ next.retried = call[c].retried
    BY CallEnds, CallFields
  <2> HIDE DEF next
  <2>3. Fits(next, sent[c], n, n)
    BY <1>1, <2>2, EndsFit, CallFields DEF SentByAttempt
  <2> QED BY <1>2, <1>3, <2>1, <2>3, CountersStay, CallMoves
<1> QED BY <1>4, <1>5

\* The refresh is served, sent again or fails.
LEMMA SdkRefreshes ==
  ASSUME SdkInv, NEW c \in Calls,
         RefreshServed(c) \/ \E transient \in BOOLEAN : RefreshFails(c, transient)
  PROVE  SdkInv'
<1>1. /\ call[c].step = "refreshing" /\ acted[c] = unheard[c] /\ acted[c] \in Nat
      /\ unheard[c] \in Nat /\ ~call[c].retried
  BY CallFields DEF RefreshServed, RefreshFails, HeardOrLost, SentByAttempt, Is
<1>2. sent' = sent /\ unheard' = unheard /\ acted' = acted
  BY DEF RefreshServed, RefreshFails
<1>3. CASE RefreshServed(c)
  <2> DEFINE next == [call[c] EXCEPT !.step = "granted", !.token = issued']
  <2>1. issued' \in Tokens \ {NoToken}
    BY <1>3, SdkAssumption DEF RefreshServed, SdkInv, SdkTypeOK, Tokens, NoToken
  <2>2. Goes(c, next) /\ SessionMoves
    BY <1>3, <2>1 DEF RefreshServed, SessionMoves, SdkInv, SdkTypeOK
  <2>3. /\ next \in CallRecords /\ next.step = "granted"
        /\ next.attempt = call[c].attempt /\ next.retried = call[c].retried
    BY <2>1, CallEnds
  <2> HIDE DEF next
  <2>4. Fits(next, sent[c], acted[c], unheard[c])
    BY <1>1, <2>3, EndsFit, CallFields DEF SentByAttempt
  <2> QED BY <1>2, <2>2, <2>4, CountersStay, CallMoves
<1>4. ASSUME NEW transient \in BOOLEAN, RefreshFails(c, transient)
      PROVE  SdkInv'
  <2>1. SessionMoves
    BY <1>4, SdkAssumption DEF RefreshFails, SessionMoves, SdkInv, SdkTypeOK, Tokens, NoToken
  <2>2. CASE transient /\ MayRetry(c)
    <3> DEFINE next == [call[c] EXCEPT !.attempt = @ + 1]
    <3>1. Goes(c, next)
      BY <1>4, <2>2 DEF RefreshFails
    <3>2. /\ next \in CallRecords /\ next.step = "refreshing"
          /\ next.attempt <= Attempts /\ next.retried = call[c].retried
      BY <1>1, <2>2, CallAgain
    <3> HIDE DEF next
    <3>3. Fits(next, sent[c], acted[c], unheard[c])
      BY <1>1, <3>2, EndsFit
    <3> QED BY <1>2, <2>1, <3>1, <3>3, CountersStay, CallMoves
  <2>3. CASE ~(transient /\ MayRetry(c))
    <3> DEFINE next == [call[c] EXCEPT !.step = "rejected"]
    <3>1. Goes(c, next)
      BY <1>4, <2>3 DEF RefreshFails, Ends
    <3>2. /\ next \in CallRecords /\ next.step = "rejected"
          /\ next.attempt = call[c].attempt /\ next.retried = call[c].retried
      BY CallEnds, CallFields
    <3> HIDE DEF next
    <3>3. Fits(next, sent[c], acted[c], unheard[c])
      BY <1>1, <3>2, EndsFit, CallFields DEF SentByAttempt
    <3> QED BY <1>2, <2>1, <3>1, <3>3, CountersStay, CallMoves
  <2> QED BY <2>2, <2>3
<1> QED BY <1>3, <1>4

\* A login, a logout or an expiry.
LEMMA SdkSession ==
  ASSUME SdkInv, LogsIn \/ TokenExpires \/ \E yes \in BOOLEAN : LogsOut(yes)
  PROVE  SdkInv'
<1>1. tokens \in Tokens /\ issued \in Tokens /\ live \in SUBSET (Tokens \ {NoToken})
  BY DEF SdkInv, SdkTypeOK
<1>2. CASE LogsIn
  <2>1. issued' \in Tokens \ {NoToken}
    BY <1>1, <1>2, SdkAssumption DEF LogsIn, Tokens, NoToken
  <2> QED BY <1>1, <1>2, <2>1, CallsStay DEF LogsIn, SessionMoves
<1>3. CASE TokenExpires
  BY <1>1, <1>3, CallsStay DEF TokenExpires, SessionMoves
<1>4. ASSUME NEW yes \in BOOLEAN, LogsOut(yes)
      PROVE  SdkInv'
  <2>1. tokens' \in Tokens
    BY <1>4, SdkAssumption DEF LogsOut, Tokens, NoToken
  <2> QED BY <1>1, <1>4, <2>1, CallsStay DEF LogsOut, SessionMoves
<1> QED BY <1>2, <1>3, <1>4

LEMMA SdkStep == SdkInv /\ [SdkNext]_sdkVars => SdkInv'
<1> SUFFICES ASSUME SdkInv, [SdkNext]_sdkVars PROVE SdkInv'
  OBVIOUS
<1>1. CASE UNCHANGED sdkVars
  BY <1>1, CallsStay DEF sdkVars, SessionMoves, SdkInv, SdkTypeOK
<1>2. CASE SdkNext
  BY <1>2, SdkSession, SdkStarts, SdkGoesOn, SdkIsAnswered, SdkAnswerLost, SdkRefreshes
     DEF SdkNext
<1> QED BY <1>1, <1>2

LEMMA SdkBegins == SdkInit => SdkInv
<1> SUFFICES ASSUME SdkInit PROVE SdkInv
  OBVIOUS
<1>1. SdkTypeOK
  BY SdkAssumption DEF SdkInit, SdkTypeOK, Tokens, NoToken, Fresh
<1>2. Attempts \in 1..MaxAttempts
  BY AttemptsFact DEF SdkInit
<1>3. \A c \in Calls : SentByAttempt(c) /\ HeardOrLost(c)
  BY <1>2, SdkAssumption DEF SdkInit, SentByAttempt, HeardOrLost, Is, Fresh
<1> QED BY <1>1, <1>3 DEF SdkInv

\* The invariant, for any number of calls, attempts and tokens.
THEOREM SdkInvariance == SdkSpec => []SdkInv
  BY SdkBegins, SdkStep, PTL DEF SdkSpec

\* withRetry, requestJson and fetchJson: a request is sent in two rounds of attempts at
\* most, and the server acts on it again only if an answer to it was lost, whatever the
\* logins, logouts, expiries and refreshes of other requests do to the shared tokens.
THEOREM RequestsAreBounded == SdkSpec => []RequestsBounded
<1>1. SdkInv => RequestsBounded
  <2> SUFFICES ASSUME SdkInv, NEW c \in Calls
               PROVE  sent[c] <= 2 * Attempts /\ HeardOrLost(c)
    BY DEF RequestsBounded, HeardOrLost
  <2> QED BY CallFields, SdkAssumption DEF SentByAttempt
<1> QED BY <1>1, SdkInvariance, PTL

-----------------------------------------------------------------------------
(* Tags and their editor *)

\* The editor waits for the answer to edit e, or has not looked at it yet.
Unsettled(e) == edit[e].at # "idle" /\ ~edit[e].givenUp
NoneUnsettled == \A e \in Edits : ~Unsettled(e)

ServedTags == {Chip(t) : t \in attached}

\* The server attaches and detaches tags that it knows.
KnownTags == \A e \in Edits : edit[e].at = "known" => edit[e].chip.tag \in tagRows

\* With no edit in hand the chips are those of the server unless the cache is stale,
\* and the answer on its way brings them.
TagsInv ==
  /\ TagsTypeOK
  /\ KnownTags
  /\ NoneUnsettled /\ ~tagsStale /\ tagCache # Absent /\ carriedOut = "no" =>
       tagCache = ServedTags
  /\ NoneUnsettled /\ tagsRead.at = "answered" /\ carriedOut # "unread" =>
       tagsRead.data = attached

AnsweredEdits ==
  [at : {"sent", "known", "ok", "error"}, kind : {"attach", "detach"}, chip : Chips,
   before : (SUBSET Chips) \cup {Absent}, givenUp : BOOLEAN]

LEMMA EditFields ==
  ASSUME TagsTypeOK, NEW e \in Edits, edit[e].at # "idle"
  PROVE  /\ edit[e] \in AnsweredEdits
         /\ edit[e].at \in {"sent", "known", "ok", "error"}
         /\ edit[e].kind \in {"attach", "detach"}
         /\ edit[e].chip \in Chips /\ edit[e].chip.tag \in Tags
         /\ edit[e].before \in (SUBSET Chips) \cup {Absent}
         /\ edit[e].givenUp \in BOOLEAN
<1>1. edit[e] \in AnsweredEdits
  BY DEF TagsTypeOK, TagEdits, NoEdit, AnsweredEdits
<1> QED BY <1>1 DEF AnsweredEdits, Chips

LEMMA ChipsFact ==
  ASSUME TagsTypeOK
  PROVE  /\ \A t \in Tags : Chip(t) \in Chips /\ Placeholder(t) \in Chips
         /\ Cached \in SUBSET Chips
<1>1. \A t \in Tags : Chip(t) \in Chips /\ Placeholder(t) \in Chips
  BY DEF Chip, Placeholder, Chips
<1>2. CASE tagCache = Absent
  BY <1>1, <1>2 DEF Cached
<1>3. CASE tagCache # Absent
  <2>1. tagCache \in SUBSET Chips
    BY <1>3 DEF TagsTypeOK
  <2> QED BY <1>1, <1>3, <2>1 DEF Cached
<1> QED BY <1>1, <1>2, <1>3

\* What the server answers about an edit, or how far it has come with it.
LEMMA EditAnswers ==
  ASSUME TagsTypeOK, NEW e \in Edits, edit[e].at # "idle",
         NEW at \in {"known", "ok", "error"}
  PROVE  LET next == [edit[e] EXCEPT !.at = at]
         IN  /\ next \in AnsweredEdits /\ next.at = at
             /\ next.chip = edit[e].chip /\ next.givenUp = edit[e].givenUp
  BY EditFields DEF AnsweredEdits

\* A step of edit e.
LEMMA EditMoves ==
  ASSUME TagsTypeOK, KnownTags, NEW e \in Edits, NEW next \in TagEdits,
         BecomesEdit(e, next), tagRows \subseteq tagRows',
         next.at = "known" => next.chip.tag \in tagRows'
  PROVE  /\ edit' \in [Edits -> TagEdits] /\ KnownTags'
         /\ edit'[e] = next /\ \A f \in Edits \ {e} : edit'[f] = edit[f]
<1>1. /\ edit' \in [Edits -> TagEdits]
      /\ edit'[e] = next /\ \A f \in Edits \ {e} : edit'[f] = edit[f]
  BY DEF BecomesEdit, TagsTypeOK
<1>2. KnownTags'
  BY <1>1 DEF KnownTags
<1> QED BY <1>1, <1>2

\* Reads of the tags.
LEMMA TagsReads ==
  ASSUME TagsInv, ReadBegins \/ ReadExecuted \/ ReadEnds \/ ReadFails
  PROVE  TagsInv'
<1>1. edit' = edit /\ attached' = attached /\ tagRows' = tagRows /\ edits' = edits
  BY DEF ReadBegins, ReadExecuted, ReadEnds, ReadFails
<1>2. /\ attached \subseteq Tags /\ tagsRead.data \subseteq Tags
      /\ tagsRead \in [at : {"no", "asked", "answered"}, data : SUBSET Tags]
  BY DEF TagsInv, TagsTypeOK
<1>3. KnownTags' /\ NoneUnsettled' = NoneUnsettled /\ ServedTags' = ServedTags
  BY <1>1 DEF TagsInv, KnownTags, NoneUnsettled, Unsettled, ServedTags, Chip
<1>4. CASE ReadBegins
  <2>1. tagsRead' = [at |-> "asked", data |-> {}]
    BY <1>4 DEF ReadBegins, NotRead
  <2>2. tagsRead' \in [at : {"no", "asked", "answered"}, data : SUBSET Tags]
        /\ tagsRead'.at = "asked"
    BY <2>1
  <2> QED BY <1>1, <1>3, <1>4, <2>2 DEF ReadBegins, TagsInv, TagsTypeOK
<1>5. CASE ReadExecuted
  <2>1. /\ tagsRead' \in [at : {"no", "asked", "answered"}, data : SUBSET Tags]
        /\ tagsRead'.data = attached
    BY <1>2, <1>5 DEF ReadExecuted
  <2> QED BY <1>1, <1>3, <1>5, <2>1 DEF ReadExecuted, TagsInv, TagsTypeOK
<1>6. CASE ReadEnds
  <2>1. /\ tagsRead' \in [at : {"no", "asked", "answered"}, data : SUBSET Tags]
        /\ tagsRead'.at = "no"
    BY <1>6 DEF ReadEnds, NotRead
  <2>2. tagCache' \in SUBSET Chips
    <3>1. \A t \in tagsRead.data : Chip(t) \in Chips
      BY <1>2, ChipsFact DEF TagsInv
    <3> QED BY <1>6, <3>1 DEF ReadEnds
  <2>3. NoneUnsettled /\ carriedOut' = "no" => tagCache' = ServedTags
    BY <1>6 DEF ReadEnds, TagsInv, TagsTypeOK, ServedTags
  <2> QED BY <1>1, <1>3, <1>6, <2>1, <2>2, <2>3 DEF ReadEnds, TagsInv, TagsTypeOK
<1>7. CASE ReadFails
  <2>1. /\ tagsRead' \in [at : {"no", "asked", "answered"}, data : SUBSET Tags]
        /\ tagsRead'.at = "no"
    BY <1>7 DEF ReadFails, NotRead
  <2>2. tagFaults' \in 0..MaxTagFaults
    BY <1>7, TagBoundsAssumption DEF ReadFails, TagFault, TagsInv, TagsTypeOK
  <2> QED BY <1>1, <1>3, <1>7, <2>1, <2>2 DEF ReadFails, ReadDropped, TagsInv, TagsTypeOK
<1> QED BY <1>4, <1>5, <1>6, <1>7

\* An edit is made: it is unsettled until it is answered.
LEMMA TagsShow ==
  ASSUME TagsInv, NEW e \in Edits, NEW kind \in {"attach", "detach"}, NEW chip \in Chips,
         NEW data \in SUBSET Chips, Shows(e, kind, chip, data)
  PROVE  TagsInv'
<1> DEFINE next == [at |-> "sent", kind |-> kind, chip |-> chip, before |-> tagCache,
                    givenUp |-> FALSE]
<1>1. next \in TagEdits
  BY DEF TagsInv, TagsTypeOK, TagEdits
<1>2. next.at = "sent" /\ next.givenUp = FALSE
  OBVIOUS
<1>3. BecomesEdit(e, next) /\ tagRows' = tagRows
  BY DEF Shows
<1> HIDE DEF next
<1>4. edit' \in [Edits -> TagEdits] /\ KnownTags' /\ edit'[e] = next
  BY <1>1, <1>2, <1>3, EditMoves DEF TagsInv
<1>5. ~NoneUnsettled'
  BY <1>2, <1>4 DEF NoneUnsettled, Unsettled
<1>6. edits' \in 0..MaxEdits
  BY TagBoundsAssumption DEF Shows, TagsInv, TagsTypeOK
<1> QED BY <1>3, <1>4, <1>5, <1>6 DEF Shows, TagsInv, TagsTypeOK

LEMMA TagsEdited ==
  ASSUME TagsInv, NEW e \in Edits,
         (\E t \in Tags : Attach(e, t)) \/ (\E chip \in Chips : Detach(e, chip))
  PROVE  TagsInv'
<1>1. Cached \in SUBSET Chips
  BY ChipsFact DEF TagsInv
<1>2. ASSUME NEW t \in Tags, Attach(e, t) PROVE TagsInv'
  <2>1. Placeholder(t) \in Chips
    BY ChipsFact DEF TagsInv
  <2> QED BY <1>1, <1>2, <2>1, TagsShow DEF Attach
<1>3. ASSUME NEW chip \in Chips, Detach(e, chip) PROVE TagsInv'
  BY <1>1, <1>3, TagsShow DEF Detach
<1> QED BY <1>2, <1>3

\* An edit is settled, or given up: the cache is stale and a new read is asked for.
LEMMA TagsInvalidated ==
  ASSUME TagsInv, NEW e \in Edits, NEW next \in TagEdits, BecomesEdit(e, next),
         next.at = "known" => next.chip = edit[e].chip /\ edit[e].at = "known",
         NEW ok, Invalidates(ok), tagCache' \in (SUBSET Chips) \cup {Absent},
         tagFaults' \in 0..MaxTagFaults, UNCHANGED <<tagRows, attached, edits>>
  PROVE  TagsInv'
<1>1. edit' \in [Edits -> TagEdits] /\ KnownTags'
  <2>1. next.at = "known" => next.chip.tag \in tagRows'
    BY DEF TagsInv, KnownTags
  <2> QED BY <2>1, EditMoves DEF TagsInv
<1>2. tagsStale' = TRUE
  BY DEF Invalidates
<1>3. tagsRead' = [at |-> "asked", data |-> {}]
  BY DEF Invalidates, NotRead
<1>4. /\ tagsRead' \in [at : {"no", "asked", "answered"}, data : SUBSET Tags]
      /\ tagsRead'.at = "asked"
  BY <1>3
<1>5. carriedOut' \in {"no", "unread", "read"}
  BY DEF Invalidates, ReadDropped, TagsInv, TagsTypeOK
<1> QED BY <1>1, <1>2, <1>4, <1>5 DEF TagsInv, TagsTypeOK

LEMMA TagsSettled ==
  ASSUME TagsInv, NEW e \in Edits, EditSucceeds(e) \/ EditFails(e) \/ EditBreaks(e)
  PROVE  TagsInv'
<1>1. NoEdit \in TagEdits /\ NoEdit.at = "idle"
  BY DEF NoEdit, TagEdits
<1>2. Cached \in SUBSET Chips /\ TagsTypeOK
  BY ChipsFact DEF TagsInv
<1>3. edit[e].at # "idle"
  BY DEF EditSucceeds, EditFails, EditBreaks
<1>4. CASE EditSucceeds(e)
  <2>1. Chip(edit[e].chip.tag) \in Chips
    BY <1>2, <1>3, EditFields, ChipsFact
  <2>2. tagCache' \in SUBSET Chips
    BY <1>2, <1>4, <2>1 DEF EditSucceeds
  <2> QED BY <1>1, <1>2, <1>4, <2>2, TagsInvalidated DEF EditSucceeds, TagsTypeOK
<1>5. CASE EditFails(e)
  <2>1. tagCache' \in (SUBSET Chips) \cup {Absent}
    BY <1>2, <1>3, <1>5, EditFields DEF EditFails, RollsBack, TagsTypeOK
  <2> QED BY <1>1, <1>2, <1>5, <2>1, TagsInvalidated DEF EditFails, RollsBack, TagsTypeOK
<1>6. CASE EditBreaks(e)
  <2>1. tagCache' \in (SUBSET Chips) \cup {Absent}
    BY <1>2, <1>3, <1>6, EditFields DEF EditBreaks, RollsBack, TagsTypeOK
  <2>2. tagFaults' \in 0..MaxTagFaults
    BY <1>2, <1>6, TagBoundsAssumption DEF EditBreaks, TagFault, TagsTypeOK
  <2> DEFINE given == [edit[e] EXCEPT !.givenUp = TRUE]
  <2>3. given \in AnsweredEdits /\ given.chip = edit[e].chip /\ given.at = edit[e].at
    BY <1>2, <1>3, EditFields DEF AnsweredEdits
  <2>4. given \in TagEdits
    BY <2>3 DEF AnsweredEdits, TagEdits
  <2>5. BecomesEdit(e, NoEdit) \/ BecomesEdit(e, given)
    BY <1>6 DEF EditBreaks
  <2> HIDE DEF given
  <2>6. UNCHANGED <<tagRows, attached, edits>> /\ Invalidates(FALSE)
    BY <1>6 DEF EditBreaks, RollsBack
  <2> QED BY <1>1, <2>1, <2>2, <2>3, <2>4, <2>5, <2>6, TagsInvalidated
<1> QED BY <1>4, <1>5, <1>6

\* A step of the server: what it changes while no edit is in hand was given up.
LEMMA TagsServed ==
  ASSUME TagsInv, NEW e \in Edits, edit[e].at # "idle", TagUnchanged,
         NEW next \in TagEdits, BecomesEdit(e, next),
         next.at # "idle" => next.givenUp = edit[e].givenUp,
         edit[e].givenUp = FALSE => next.at # "idle",
         next.at = "known" => next.chip.tag \in tagRows',
         tagRows \subseteq tagRows', tagRows' \subseteq Tags, attached' \subseteq tagRows',
         \/ attached' = attached /\ carriedOut' = carriedOut
         \/ carriedOut' = IF edit[e].givenUp THEN "unread" ELSE carriedOut
  PROVE  TagsInv'
<1>1. /\ edit' \in [Edits -> TagEdits] /\ KnownTags' /\ edit'[e] = next
      /\ \A f \in Edits \ {e} : edit'[f] = edit[f]
  BY EditMoves DEF TagsInv
<1>2. edit[e].givenUp \in BOOLEAN
  BY EditFields DEF TagsInv
<1>3. NoneUnsettled' => NoneUnsettled /\ edit[e].givenUp
  BY <1>1, <1>2 DEF NoneUnsettled, Unsettled
<1>4. TagsTypeOK'
  BY <1>1, <1>2 DEF TagsInv, TagsTypeOK, TagUnchanged
<1>5. NoneUnsettled' => carriedOut' = "unread" \/ (attached' = attached /\ carriedOut' = carriedOut)
  BY <1>3
<1>6. attached' = attached => ServedTags' = ServedTags
  BY DEF ServedTags, Chip
<1> QED BY <1>1, <1>3, <1>4, <1>5, <1>6 DEF TagsInv, TagUnchanged

LEMMA TagsAnswered ==
  ASSUME TagsInv, NEW e \in Edits,
         \/ AttachUpserts(e) \/ AttachInserts(e) \/ DetachFinds(e) \/ DetachDeletes(e)
         \/ EditRefused(e)
  PROVE  TagsInv'
<1>1. /\ edit[e].at # "idle" /\ TagUnchanged /\ TagsTypeOK
      /\ tagRows \subseteq Tags /\ attached \subseteq tagRows
  BY DEF AttachUpserts, AttachInserts, DetachFinds, DetachDeletes, EditRefused, TagsInv,
         TagsTypeOK
<1>2. edit[e].chip.tag \in Tags /\ (edit[e].at = "known" => edit[e].chip.tag \in tagRows)
  BY <1>1, EditFields DEF TagsInv, KnownTags
<1>3. NoEdit \in TagEdits /\ NoEdit.at = "idle"
  BY DEF NoEdit, TagEdits
<1> DEFINE Put(at) == [edit[e] EXCEPT !.at = at]
<1>4. ASSUME NEW at \in {"known", "ok", "error"}
      PROVE  /\ Put(at) \in TagEdits /\ Put(at).at = at
             /\ Put(at).chip = edit[e].chip /\ Put(at).givenUp = edit[e].givenUp
  BY <1>1, EditAnswers DEF AnsweredEdits, TagEdits
<1>5. ASSUME NEW at \in {"ok", "error"}, Answers(e, at)
      PROVE  \E next \in TagEdits :
               /\ BecomesEdit(e, next) /\ next.at # "known"
               /\ next.at # "idle" => next.givenUp = edit[e].givenUp
               /\ edit[e].givenUp = FALSE => next.at # "idle"
  <2>1. CASE edit[e].givenUp
    BY <1>3, <1>5, <2>1 DEF Answers
  <2>2. CASE ~edit[e].givenUp
    <3>1. BecomesEdit(e, Put(at))
      BY <1>5, <2>2 DEF Answers
    <3> HIDE DEF Put
    <3> QED BY <1>4, <3>1
  <2> QED BY <2>1, <2>2
<1> HIDE DEF Put
<1>6. CASE AttachUpserts(e)
  <2>1. BecomesEdit(e, Put("known"))
    BY <1>6 DEF AttachUpserts, Put
  <2> QED BY <1>1, <1>2, <1>4, <1>6, <2>1, TagsServed DEF AttachUpserts
<1>7. CASE AttachInserts(e)
  <2>1. Answers(e, "ok") /\ attached' \subseteq tagRows' /\ tagRows' = tagRows
    BY <1>1, <1>2, <1>7 DEF AttachInserts
  <2> QED BY <1>1, <1>5, <1>7, <2>1, TagsServed DEF AttachInserts
<1>8. CASE DetachFinds(e)
  <2>1. attached' = attached /\ tagRows' = tagRows /\ carriedOut' = carriedOut
    BY <1>8 DEF DetachFinds
  <2>2. CASE edit[e].chip.real /\ edit[e].chip.tag \in tagRows
    <3>1. BecomesEdit(e, Put("known"))
      BY <1>8, <2>2 DEF DetachFinds, Put
    <3> QED BY <1>1, <1>4, <2>1, <2>2, <3>1, TagsServed
  <2>3. CASE ~(edit[e].chip.real /\ edit[e].chip.tag \in tagRows)
    <3>1. Answers(e, "error")
      BY <1>8, <2>3 DEF DetachFinds
    <3> QED BY <1>1, <1>5, <2>1, <3>1, TagsServed
  <2> QED BY <2>2, <2>3
<1>9. CASE DetachDeletes(e)
  <2>1. /\ Answers(e, "ok") \/ Answers(e, "error")
        /\ attached' \subseteq tagRows' /\ tagRows' = tagRows
    BY <1>1, <1>9 DEF DetachDeletes
  <2> QED BY <1>1, <1>5, <1>9, <2>1, TagsServed DEF DetachDeletes
<1>10. CASE EditRefused(e)
  <2>1. Answers(e, "error") /\ UNCHANGED <<tagRows, attached, carriedOut>>
    BY <1>10 DEF EditRefused
  <2> QED BY <1>1, <1>5, <2>1, TagsServed
<1> QED BY <1>6, <1>7, <1>8, <1>9, <1>10

LEMMA TagsStep == TagsInv /\ [TagsNext]_tagVars => TagsInv'
<1> SUFFICES ASSUME TagsInv, [TagsNext]_tagVars PROVE TagsInv'
  OBVIOUS
<1>1. CASE UNCHANGED tagVars
  BY <1>1 DEF tagVars, TagsInv, TagsTypeOK, KnownTags, NoneUnsettled, Unsettled, ServedTags,
              Chip
<1>2. CASE TagsNext
  BY <1>2, TagsReads, TagsEdited, TagsSettled, TagsAnswered DEF TagsNext
<1> QED BY <1>1, <1>2

LEMMA TagsBegin == TagsInit => TagsInv
<1> SUFFICES ASSUME TagsInit PROVE TagsInv
  OBVIOUS
<1>1. TagsTypeOK
  <2>1. tagsRead \in [at : {"no", "asked", "answered"}, data : SUBSET Tags]
    BY DEF TagsInit, NotRead
  <2>2. edit \in [Edits -> TagEdits]
    BY DEF TagsInit, TagEdits
  <2>3. tagRows \subseteq Tags /\ attached \subseteq tagRows /\ tagCache = Absent
    BY DEF TagsInit
  <2>4. edits \in 0..MaxEdits /\ tagFaults \in 0..MaxTagFaults
    BY TagBoundsAssumption DEF TagsInit
  <2> QED BY <2>1, <2>2, <2>3, <2>4 DEF TagsInit, TagsTypeOK
<1> QED BY <1>1 DEF TagsInit, TagsInv, KnownTags, NotRead, NoEdit

\* The invariant, for any tags, edits, and bounds.
THEOREM TagsInvariance == TagsSpec => []TagsInv
  BY TagsBegin, TagsStep, PTL DEF TagsSpec

\* useAttachTag, useDetachTag and their onSettled: once the editor has settled its chips
\* are the tags of the stream, however the edits and their snapshots overlap.
THEOREM TagsSettle == TagsSpec => []SettledTagsAreServed
<1>1. TagsInv => SettledTagsAreServed
  BY DEF TagsInv, SettledTagsAreServed, NoneUnsettled, Unsettled, ServedTags
<1> QED BY <1>1, TagsInvariance, PTL

-----------------------------------------------------------------------------
(* An iteration over pages *)

\* The items that the pages requested so far cover.
Covered == (page - 1) * PageLimit

ListsOnce == \A i, j \in DOMAIN list : list[i] = list[j] => i = j

BeforeFirstPage ==
  /\ page = 1 <=> total = Unknown
  /\ page = 1 => current = <<>> /\ offset = 0 /\ yielded = <<>> /\ ~changed

\* The current page is the last that was covered; all before it was yielded, and what has
\* been read of it.
OnPage ==
  ~changed /\ page > 1 =>
    /\ total = Len(list)
    /\ Covered - PageLimit <= Len(list)
    /\ Len(yielded) = Covered - PageLimit + offset
    /\ Len(current) = IF Covered <= Len(list) THEN PageLimit
                      ELSE Len(list) - (Covered - PageLimit)
    /\ \A i \in 1..Len(current) : current[i] = list[Covered - PageLimit + i]
    /\ iterator = "fetching" => Covered < Len(list) /\ offset = Len(current)

YieldedInOrder ==
  ~changed => Len(yielded) <= Len(list) /\ \A i \in 1..Len(yielded) : yielded[i] = list[i]

WholeAtTheEnd ==
  iterator = "exhausted" /\ ~aborted /\ ~changed =>
    Len(yielded) = Len(list) \/ Len(yielded) = MaxPages * PageLimit

PagesInv ==
  /\ PagesTypeOK
  /\ ListsOnce
  /\ iterator = "fetching" => page <= MaxPages
  /\ BeforeFirstPage
  /\ OnPage
  /\ YieldedInOrder
  /\ WholeAtTheEnd

LEMMA PageBounds ==
  /\ PageLimit \in Nat /\ PageLimit > 0 /\ MaxPages \in Nat /\ MaxPages > 0
  /\ MaxFailures \in Nat
  /\ IsFiniteSet(PageItems) /\ Cardinality(PageItems) \in Nat
  BY PagesAssumption, FS_CardinalityType

LEMMA CoveredFact ==
  ASSUME page \in 1..(MaxPages + 1)
  PROVE  /\ Covered \in Nat /\ page * PageLimit = Covered + PageLimit
         /\ (page + 1 - 1) * PageLimit = Covered + PageLimit
         /\ page = 1 => Covered = 0
         /\ page > 1 => Covered >= PageLimit
         /\ page = MaxPages + 1 => Covered = MaxPages * PageLimit
<1>1. PageLimit \in Nat /\ PageLimit > 0 /\ page \in Nat /\ page >= 1
  BY PageBounds
<1> DEFINE p == page - 1
<1>2. p \in Nat /\ page = p + 1
  BY <1>1
<1> HIDE DEF p
<1>3. Covered = p * PageLimit
  BY <1>2 DEF Covered
<1>4. p * PageLimit \in Nat /\ (p + 1) * PageLimit = p * PageLimit + PageLimit
  BY <1>1, <1>2
<1>5. p > 0 => p * PageLimit >= PageLimit
  <2>1. CASE p > 0
    <3>1. PICK q \in Nat : p = q + 1
      BY <1>2, <2>1
    <3>2. (q + 1) * PageLimit = q * PageLimit + PageLimit /\ q * PageLimit \in Nat
      BY <1>1, <3>1
    <3> QED BY <1>1, <3>1, <3>2
  <2> QED BY <2>1
<1>6. p = 0 => p * PageLimit = 0
  BY <1>1
<1>7. page = MaxPages + 1 => p = MaxPages
  BY <1>2, PageBounds
<1>8. page + 1 - 1 = p + 1
  BY <1>1, <1>2
<1> QED BY <1>1, <1>2, <1>3, <1>4, <1>5, <1>6, <1>7, <1>8

\* The page that the API serves.
LEMMA ServedFact ==
  ASSUME PagesTypeOK
  PROVE  /\ Served \in Seq(PageItems) /\ Len(Served) <= PageLimit
         /\ Covered + PageLimit <= Len(list) => Len(Served) = PageLimit
         /\ Covered + PageLimit > Len(list) /\ Covered <= Len(list) =>
              Len(Served) = Len(list) - Covered
         /\ Covered >= Len(list) => Served = <<>>
         /\ \A i \in 1..Len(Served) : Served[i] = list[Covered + i]
<1> DEFINE first == Covered + 1
           last == IF page * PageLimit < Len(list) THEN page * PageLimit ELSE Len(list)
<1>1. /\ Covered \in Nat /\ page * PageLimit = Covered + PageLimit
      /\ PageLimit \in Nat /\ PageLimit > 0
  BY CoveredFact, PageBounds DEF PagesTypeOK
<1>2. list \in Seq(PageItems) /\ Len(list) \in Nat
  BY DEF PagesTypeOK
<1>3. /\ first \in Int /\ last \in Int /\ first >= 1 /\ last <= Len(list)
      /\ last <= Covered + PageLimit
      /\ Covered + PageLimit <= Len(list) => last = Covered + PageLimit
      /\ Covered + PageLimit > Len(list) => last = Len(list)
  BY <1>1, <1>2
<1>4. Served = SubSeq(list, first, last)
  BY DEF Served, Covered
<1>5. first = Covered + 1
  OBVIOUS
<1> HIDE DEF first, last
<1>6. \A i \in first..last : list[i] \in PageItems
  BY <1>2, <1>3
<1>7. /\ SubSeq(list, first, last) \in Seq(PageItems)
      /\ Len(SubSeq(list, first, last)) = IF first <= last THEN last - first + 1 ELSE 0
      /\ \A i \in 1..(last - first + 1) :
           SubSeq(list, first, last)[i] = list[first + i - 1]
  BY <1>3, <1>6, SubSeqProperties
<1>8. Served \in Seq(PageItems) /\ Len(Served) <= PageLimit
  BY <1>1, <1>3, <1>4, <1>5, <1>7
<1>9. /\ Covered + PageLimit <= Len(list) => Len(Served) = PageLimit
      /\ Covered + PageLimit > Len(list) /\ Covered <= Len(list) =>
           Len(Served) = Len(list) - Covered
  BY <1>1, <1>2, <1>3, <1>4, <1>5, <1>7
<1>10. Covered >= Len(list) => Served = <<>>
  <2>1. Covered >= Len(list) => Len(Served) = 0
    BY <1>1, <1>2, <1>3, <1>4, <1>5, <1>7
  <2> QED BY <1>8, <2>1, EmptySeq
<1>11. ASSUME NEW i \in 1..Len(Served)
       PROVE  Served[i] = list[Covered + i]
  <2>1. i \in 1..(last - first + 1) /\ first + i - 1 = Covered + i
    BY <1>1, <1>3, <1>4, <1>5, <1>7
  <2> QED BY <1>4, <1>7, <2>1
<1> QED BY <1>8, <1>9, <1>10, <1>11

\* A list without repetition is not longer than there are items.
LEMMA ListIsShort ==
  ASSUME NEW q \in Seq(PageItems), \A i, j \in DOMAIN q : q[i] = q[j] => i = j
  PROVE  Len(q) \in 0..Cardinality(PageItems)
<1>1. Len(q) \in Nat /\ q \in [1..Len(q) -> PageItems] /\ DOMAIN q = 1..Len(q)
  BY LenProperties
<1>2. q \in Injection(1..Len(q), PageItems)
  BY <1>1 DEF Injection, IsInjective
<1>3. Cardinality(1..Len(q)) <= Cardinality(PageItems)
  BY <1>2, PageBounds, FS_Injection
<1>4. Cardinality(1..Len(q)) = Len(q)
  BY <1>1, FS_Interval
<1> QED BY <1>1, <1>3, <1>4, PageBounds

LEMMA PagesTypes ==
  ASSUME PagesInv
  PROVE  /\ list \in Seq(PageItems) /\ Len(list) \in 0..Cardinality(PageItems)
         /\ DOMAIN list = 1..Len(list) /\ Len(list) \in Nat
         /\ yielded \in Seq(PageItems) /\ Len(yielded) \in Nat
         /\ current \in Seq(PageItems) /\ Len(current) \in Nat
         /\ page \in 1..(MaxPages + 1) /\ page \in Nat /\ offset \in Nat
         /\ total \in Int
  BY ListIsShort, LenProperties, PageBounds DEF PagesInv, PagesTypeOK, ListsOnce, Unknown

\* The page that is read, in a list that stands still.
LEMMA OnPageFact ==
  ASSUME PagesInv, ~changed, page > 1
  PROVE  /\ total = Len(list)
         /\ Covered - PageLimit <= Len(list)
         /\ Len(yielded) = Covered - PageLimit + offset
         /\ Len(current) = IF Covered <= Len(list) THEN PageLimit
                           ELSE Len(list) - (Covered - PageLimit)
         /\ \A i \in 1..Len(current) : current[i] = list[Covered - PageLimit + i]
         /\ Covered \in Int /\ PageLimit \in Int
  BY CoveredFact, PagesTypes, PageBounds DEF PagesInv, OnPage

\* next() on a page that is not read to its end.
LEMMA PagesYield ==
  ASSUME PagesInv, Yield
  PROVE  PagesInv'
<1>1. /\ iterator = "idle" /\ offset' = offset + 1 /\ offset < Len(current)
      /\ yielded' = Append(yielded, current[offset + 1])
      /\ UNCHANGED <<list, page, current, total, iterator, aborted, changed, failures>>
  BY DEF Yield
<1>2. offset + 1 \in 1..Len(current) /\ offset' \in 0..Len(current)
  BY <1>1, PagesTypes
<1>3. /\ yielded' \in Seq(PageItems) /\ Len(yielded') = Len(yielded) + 1
      /\ \A i \in 1..Len(yielded) : yielded'[i] = yielded[i]
      /\ yielded'[Len(yielded) + 1] = current[offset + 1]
  BY <1>1, <1>2, PagesTypes
<1>4. PagesTypeOK'
  BY <1>1, <1>2, <1>3 DEF PagesInv, PagesTypeOK
<1>5. page > 1
  BY <1>1, <1>2, PagesTypes DEF PagesInv, BeforeFirstPage
<1>6. /\ Covered' = Covered
      /\ {Covered, PageLimit, offset, Len(list), Len(current), Len(yielded)} \subseteq Int
  <2>1. Covered' = Covered /\ Covered \in Int
    BY <1>1, CoveredFact, PagesTypes DEF Covered
  <2> QED BY <2>1, PagesTypes, PageBounds
<1>7. OnPage'
  <2> SUFFICES ASSUME ~changed
               PROVE  /\ total = Len(list)
                      /\ Covered - PageLimit <= Len(list)
                      /\ Len(yielded') = Covered - PageLimit + offset'
                      /\ Len(current) = IF Covered <= Len(list) THEN PageLimit
                                        ELSE Len(list) - (Covered - PageLimit)
                      /\ \A i \in 1..Len(current) :
                           current[i] = list[Covered - PageLimit + i]
    BY <1>1, <1>6 DEF OnPage
  <2>1. Len(yielded) = Covered - PageLimit + offset
    BY <1>5, OnPageFact
  <2>2. Len(yielded') = Covered - PageLimit + offset'
    BY <1>1, <1>3, <1>6, <2>1
  <2> QED BY <1>5, <2>2, OnPageFact
<1>8. YieldedInOrder'
  <2> SUFFICES ASSUME ~changed
               PROVE  /\ Len(yielded') <= Len(list)
                      /\ \A i \in 1..Len(yielded') : yielded'[i] = list[i]
    BY <1>1 DEF YieldedInOrder
  <2>1. /\ Len(yielded) = Covered - PageLimit + offset
        /\ Len(current) <= Len(list) - (Covered - PageLimit)
        /\ current[offset + 1] = list[Covered - PageLimit + (offset + 1)]
    <3>1. Len(yielded) = Covered - PageLimit + offset
      BY <1>5, OnPageFact
    <3>2. Len(current) <= Len(list) - (Covered - PageLimit)
      <4>1. Len(current) = IF Covered <= Len(list) THEN PageLimit
                           ELSE Len(list) - (Covered - PageLimit)
        BY <1>5, OnPageFact
      <4> QED BY <1>6, <4>1
    <3>3. current[offset + 1] = list[Covered - PageLimit + (offset + 1)]
      BY <1>2, <1>5, OnPageFact
    <3> QED BY <3>1, <3>2, <3>3
  <2>2. Len(yielded) + 1 <= Len(list)
    BY <1>1, <1>6, <2>1
  <2>3. yielded'[Len(yielded) + 1] = list[Len(yielded) + 1]
    <3>1. Covered - PageLimit + (offset + 1) = Len(yielded) + 1
      BY <1>6, <2>1
    <3> QED BY <1>3, <2>1, <3>1
  <2>4. \A i \in 1..Len(yielded) : yielded'[i] = list[i]
    BY <1>3 DEF PagesInv, YieldedInOrder
  <2>5. \A i \in 1..(Len(yielded) + 1) : i \in 1..Len(yielded) \/ i = Len(yielded) + 1
    BY PagesTypes
  <2> QED BY <1>3, <2>2, <2>3, <2>4, <2>5
<1>9. ListsOnce' /\ WholeAtTheEnd' /\ BeforeFirstPage' /\ iterator' # "fetching"
  BY <1>1, <1>5, PagesTypes DEF PagesInv, ListsOnce, WholeAtTheEnd, BeforeFirstPage
<1> QED BY <1>4, <1>7, <1>8, <1>9 DEF PagesInv

\* next() at the end of a page.
LEMMA PagesTurn ==
  ASSUME PagesInv, NextPage
  PROVE  PagesInv'
<1>1. /\ iterator = "idle" /\ offset >= Len(current)
      /\ UNCHANGED <<list, page, current, offset, total, aborted, yielded, changed, failures>>
      /\ iterator' = IF LastPage \/ page > MaxPages THEN "exhausted" ELSE "fetching"
  BY DEF NextPage
<1>2. offset = Len(current) /\ PagesTypeOK
  BY <1>1, PagesTypes DEF PagesInv, PagesTypeOK
<1>3. Covered' = Covered /\ Covered \in Int
  BY <1>1, CoveredFact, PagesTypes DEF Covered
<1>4. LastPage <=> (page > 1 /\ Covered >= total)
  BY PagesTypes DEF LastPage, Covered, PagesInv, BeforeFirstPage
<1>5. CASE LastPage \/ page > MaxPages
  <2>1. iterator' = "exhausted"
    BY <1>1, <1>5
  <2>2. WholeAtTheEnd'
    <3> SUFFICES ASSUME ~changed
                 PROVE  Len(yielded) = Len(list) \/ Len(yielded) = MaxPages * PageLimit
      BY <1>1 DEF WholeAtTheEnd
    <3>1. page > 1
      BY <1>4, <1>5, PageBounds, PagesTypes
    <3>2. /\ total = Len(list) /\ Len(yielded) = Covered - PageLimit + Len(current)
          /\ Len(current) = IF Covered <= Len(list) THEN PageLimit
                            ELSE Len(list) - (Covered - PageLimit)
      BY <1>2, <3>1, OnPageFact
    <3>3. CASE Covered >= total
      <4>1. Len(list) \in Int /\ Len(current) \in Int /\ PageLimit \in Int
        BY PagesTypes, PageBounds
      <4>2. Len(yielded) = Len(list)
        BY <1>3, <3>2, <3>3, <4>1
      <4> QED BY <4>2
    <3>4. CASE ~(Covered >= total)
      <4>1. page = MaxPages + 1
        BY <1>4, <1>5, <3>4, PagesTypes, PageBounds
      <4>2. Covered = MaxPages * PageLimit
        BY <4>1, CoveredFact, PagesTypes
      <4>3. Len(yielded) = Covered
        BY <1>3, <3>2, <3>4, PagesTypes, PageBounds
      <4> QED BY <4>2, <4>3
    <3> QED BY <3>3, <3>4
  <2>3. OnPage' /\ YieldedInOrder' /\ BeforeFirstPage' /\ ListsOnce'
    BY <1>1, <1>3, <2>1 DEF PagesInv, OnPage, YieldedInOrder, BeforeFirstPage, ListsOnce
  <2>4. PagesTypeOK'
    BY <1>1, <1>2, <2>1 DEF PagesTypeOK
  <2> QED BY <2>1, <2>2, <2>3, <2>4 DEF PagesInv
<1>6. CASE ~(LastPage \/ page > MaxPages)
  <2>1. iterator' = "fetching"
    BY <1>1, <1>6
  <2>2. page > 1 /\ ~changed => Covered < Len(list)
    BY <1>3, <1>4, <1>6, PagesTypes DEF PagesInv, OnPage
  <2>3. OnPage'
    BY <1>1, <1>2, <1>3, <2>2 DEF PagesInv, OnPage
  <2>4. YieldedInOrder' /\ BeforeFirstPage' /\ ListsOnce' /\ WholeAtTheEnd' /\ page' <= MaxPages
    BY <1>1, <1>6, <2>1, PagesTypes, PageBounds
       DEF PagesInv, YieldedInOrder, BeforeFirstPage, ListsOnce, WholeAtTheEnd
  <2>5. PagesTypeOK'
    BY <1>1, <1>2, <2>1 DEF PagesTypeOK
  <2> QED BY <2>3, <2>4, <2>5 DEF PagesInv
<1> QED BY <1>5, <1>6

\* A page fails to load, or the consumer aborts.
LEMMA PagesStop ==
  ASSUME PagesInv, PageFails \/ Abort
  PROVE  PagesInv'
<1>1. /\ UNCHANGED <<list, page, current, offset, total, yielded, changed>>
      /\ iterator' # "fetching" /\ iterator' \in {"idle", "exhausted"}
      /\ iterator' = "idle" \/ aborted'
  BY DEF PageFails, Abort
<1>2. failures' \in 0..MaxFailures /\ {aborted', changed'} \subseteq BOOLEAN
  <2>1. failures \in 0..MaxFailures /\ {aborted, changed} \subseteq BOOLEAN
    BY DEF PagesInv, PagesTypeOK
  <2>2. CASE PageFails
    BY <2>1, <2>2, PageBounds DEF PageFails
  <2>3. CASE Abort
    BY <2>1, <2>3 DEF Abort
  <2> QED BY <2>2, <2>3
<1>3. PagesTypeOK'
  BY <1>1, <1>2 DEF PagesInv, PagesTypeOK
<1>4. Covered' = Covered
  BY <1>1 DEF Covered
<1>5. ListsOnce' /\ BeforeFirstPage' /\ OnPage' /\ YieldedInOrder'
  BY <1>1, <1>4 DEF PagesInv, ListsOnce, BeforeFirstPage, OnPage, YieldedInOrder
<1>6. WholeAtTheEnd'
  BY <1>1 DEF WholeAtTheEnd
<1> QED BY <1>1, <1>3, <1>5, <1>6 DEF PagesInv

\* A page arrives.
LEMMA PagesLoaded ==
  ASSUME PagesInv, PageLoads
  PROVE  PagesInv'
<1>1. /\ iterator = "fetching" /\ current' = Served /\ total' = Len(list) /\ page' = page + 1
      /\ iterator' = IF Served = <<>> THEN "exhausted" ELSE "idle"
      /\ UNCHANGED <<list, aborted, changed, failures>>
  BY DEF PageLoads
<1>2. page <= MaxPages /\ page' \in 1..(MaxPages + 1) /\ page' > 1
  BY <1>1, PagesTypes, PageBounds DEF PagesInv
<1>3. /\ Covered' = Covered + PageLimit /\ Covered \in Nat
      /\ page = 1 => Covered = 0
      /\ page > 1 => Covered >= PageLimit
  BY <1>1, CoveredFact, PagesTypes DEF Covered
<1>4. /\ Served \in Seq(PageItems) /\ Len(Served) <= PageLimit /\ Len(Served) \in Nat
      /\ Covered + PageLimit <= Len(list) => Len(Served) = PageLimit
      /\ Covered + PageLimit > Len(list) /\ Covered <= Len(list) =>
           Len(Served) = Len(list) - Covered
      /\ Covered >= Len(list) => Served = <<>>
      /\ \A i \in 1..Len(Served) : Served[i] = list[Covered + i]
  BY ServedFact, LenProperties DEF PagesInv
<1>5. ~changed => /\ Covered <= Len(list)
                  /\ Len(yielded) = Covered
                  /\ page > 1 => Covered < Len(list)
  <2> SUFFICES ASSUME ~changed
               PROVE  /\ Covered <= Len(list) /\ Len(yielded) = Covered
                      /\ page > 1 => Covered < Len(list)
    OBVIOUS
  <2>1. CASE page = 1
    BY <1>3, <2>1, PagesTypes, EmptySeq DEF PagesInv, BeforeFirstPage
  <2>2. CASE page > 1
    <3>1. /\ Covered < Len(list) /\ offset = Len(current)
          /\ Len(yielded) = Covered - PageLimit + offset
          /\ Len(current) = IF Covered <= Len(list) THEN PageLimit
                            ELSE Len(list) - (Covered - PageLimit)
      BY <1>1, <2>2 DEF PagesInv, OnPage
    <3> QED BY <1>3, <2>2, <3>1, PagesTypes, PageBounds
  <2> QED BY <2>1, <2>2, PagesTypes
<1>6. CASE Served = <<>>
  <2>1. offset' = 0 /\ yielded' = yielded /\ Len(Served) = 0
    BY <1>6, EmptySeq DEF PageLoads
  <2>2. ~changed => Len(list) = Covered /\ page = 1 /\ Len(list) = 0
    <3> SUFFICES ASSUME ~changed PROVE Len(list) = Covered /\ page = 1 /\ Len(list) = 0
      OBVIOUS
    <3>1. Len(list) \in Nat /\ PageLimit \in Nat /\ PageLimit > 0 /\ page \in 1..(MaxPages + 1)
      BY PagesTypes, PageBounds
    <3>2. Len(list) = Covered
      BY <1>3, <1>4, <1>5, <2>1, <3>1
    <3>3. page = 1
      BY <1>3, <1>5, <3>1, <3>2, PageBounds
    <3> QED BY <1>3, <3>2, <3>3
  <2>3. PagesTypeOK'
    BY <1>1, <1>2, <1>4, <2>1, PagesTypes DEF PagesInv, PagesTypeOK
  <2>4. OnPage'
    BY <1>1, <1>3, <1>5, <2>1, <2>2, PagesTypes, PageBounds DEF OnPage
  <2>5. YieldedInOrder' /\ ListsOnce' /\ BeforeFirstPage'
    BY <1>1, <1>2, <2>1, PagesTypes
       DEF PagesInv, YieldedInOrder, ListsOnce, BeforeFirstPage, Unknown
  <2>6. WholeAtTheEnd' /\ iterator' # "fetching"
    BY <1>1, <1>5, <1>6, <2>1, <2>2 DEF WholeAtTheEnd
  <2> QED BY <2>3, <2>4, <2>5, <2>6 DEF PagesInv
<1>7. CASE Served # <<>>
  <2>1. offset' = 1 /\ yielded' = Append(yielded, Served[1]) /\ Len(Served) >= 1
    BY <1>4, <1>7, EmptySeq DEF PageLoads
  <2>2. /\ yielded' \in Seq(PageItems) /\ Len(yielded') = Len(yielded) + 1
        /\ \A i \in 1..Len(yielded) : yielded'[i] = yielded[i]
        /\ yielded'[Len(yielded) + 1] = list[Covered + 1]
    BY <1>4, <2>1, PagesTypes
  <2>3. PagesTypeOK'
    BY <1>1, <1>2, <1>4, <1>7, <2>1, <2>2, PagesTypes DEF PagesInv, PagesTypeOK
  <2>4. OnPage'
    <3> SUFFICES ASSUME ~changed'
                 PROVE  /\ total' = Len(list')
                        /\ Covered' - PageLimit <= Len(list')
                        /\ Len(yielded') = Covered' - PageLimit + offset'
                        /\ Len(current') = IF Covered' <= Len(list') THEN PageLimit
                                           ELSE Len(list') - (Covered' - PageLimit)
                        /\ \A i \in 1..Len(current') :
                             current'[i] = list'[Covered' - PageLimit + i]
                        /\ iterator' # "fetching"
      BY DEF OnPage
    <3>1. Covered' - PageLimit = Covered
      BY <1>3, PageBounds
    <3>2. ~changed /\ Covered <= Len(list) /\ Len(yielded) = Covered
      BY <1>1, <1>5
    <3>3. Len(yielded') = Covered' - PageLimit + offset'
      BY <2>1, <2>2, <3>1, <3>2
    <3>4. Len(Served) = IF Covered' <= Len(list) THEN PageLimit
                        ELSE Len(list) - (Covered' - PageLimit)
      <4>1. CASE Covered + PageLimit <= Len(list)
        BY <1>3, <1>4, <4>1
      <4>2. CASE ~(Covered + PageLimit <= Len(list))
        <5>1. Covered + PageLimit > Len(list)
          BY <1>3, <4>2, PagesTypes, PageBounds
        <5> QED BY <1>3, <1>4, <3>1, <3>2, <4>2, <5>1
      <4> QED BY <4>1, <4>2
    <3> QED BY <1>1, <1>4, <1>7, <3>1, <3>2, <3>3, <3>4
  <2>5. YieldedInOrder'
    <3> SUFFICES ASSUME ~changed
                 PROVE  /\ Len(yielded') <= Len(list)
                        /\ \A i \in 1..Len(yielded') : yielded'[i] = list[i]
      BY <1>1 DEF YieldedInOrder
    <3>1. Len(yielded) + 1 <= Len(list)
      <4>1. ~(Covered >= Len(list)) /\ Len(yielded) = Covered
        BY <1>4, <1>5, <1>7
      <4> QED BY <1>3, <4>1, PagesTypes
    <3>2. \A i \in 1..Len(yielded) : yielded'[i] = list[i]
      BY <2>2 DEF PagesInv, YieldedInOrder
    <3>3. yielded'[Len(yielded) + 1] = list[Len(yielded) + 1]
      BY <1>5, <2>2
    <3>4. \A i \in 1..(Len(yielded) + 1) : i \in 1..Len(yielded) \/ i = Len(yielded) + 1
      BY PagesTypes
    <3> QED BY <2>2, <3>1, <3>2, <3>3, <3>4
  <2>6. ListsOnce' /\ BeforeFirstPage' /\ WholeAtTheEnd' /\ iterator' # "fetching"
    BY <1>1, <1>2, <1>7, PagesTypes
       DEF PagesInv, ListsOnce, BeforeFirstPage, WholeAtTheEnd, Unknown
  <2> QED BY <2>3, <2>4, <2>5, <2>6 DEF PagesInv
<1> QED BY <1>6, <1>7

\* The list of the server changes: what remains to show are the types.
LEMMA ListGrows ==
  ASSUME NEW q \in Seq(PageItems), \A i, j \in DOMAIN q : q[i] = q[j] => i = j,
         NEW new \in PageItems, \A k \in DOMAIN q : q[k] # new
  PROVE  /\ <<new>> \o q \in Seq(PageItems)
         /\ \A i, j \in DOMAIN (<<new>> \o q) : (<<new>> \o q)[i] = (<<new>> \o q)[j] => i = j
<1>1. /\ <<new>> \in Seq(PageItems) /\ Len(<<new>>) = 1 /\ <<new>>[1] = new
      /\ Len(q) \in Nat /\ DOMAIN q = 1..Len(q)
  BY LenProperties
<1> DEFINE r == <<new>> \o q
<1>2. /\ r \in Seq(PageItems) /\ Len(r) = Len(q) + 1
      /\ \A i \in 1..(Len(q) + 1) : r[i] = IF i <= 1 THEN <<new>>[i] ELSE q[i - 1]
  BY <1>1, ConcatProperties
<1>3. DOMAIN r = 1..(Len(q) + 1)
  BY <1>2, LenProperties
<1> HIDE DEF r
<1>4. \A i \in DOMAIN r : (i = 1 /\ r[i] = new) \/ (i - 1 \in DOMAIN q /\ r[i] = q[i - 1])
  BY <1>1, <1>2, <1>3
<1>5. \A i, j \in DOMAIN r : r[i] = r[j] => i = j
  <2> SUFFICES ASSUME NEW i \in DOMAIN r, NEW j \in DOMAIN r, r[i] = r[j] PROVE i = j
    OBVIOUS
  <2>1. i - 1 \in DOMAIN q /\ j - 1 \in DOMAIN q /\ q[i - 1] = q[j - 1] => i - 1 = j - 1
    OBVIOUS
  <2>2. i \in Int /\ j \in Int
    BY <1>1, <1>3
  <2> QED BY <1>4, <2>1, <2>2
<1> QED BY <1>2, <1>5 DEF r

LEMMA ListShrinks ==
  ASSUME NEW q \in Seq(PageItems), \A i, j \in DOMAIN q : q[i] = q[j] => i = j,
         NEW k \in DOMAIN q
  PROVE  /\ RemoveAt(q, k) \in Seq(PageItems)
         /\ \A i, j \in DOMAIN RemoveAt(q, k) :
              RemoveAt(q, k)[i] = RemoveAt(q, k)[j] => i = j
<1>1. Len(q) \in Nat /\ DOMAIN q = 1..Len(q) /\ k \in 1..Len(q)
      /\ \A i \in 1..Len(q) : q[i] \in PageItems
  BY LenProperties, ElementOfSeq
<1> DEFINE a == SubSeq(q, 1, k - 1)
           b == SubSeq(q, k + 1, Len(q))
           r == a \o b
<1>2. /\ a \in Seq(PageItems) /\ Len(a) = k - 1
      /\ \A i \in 1..(k - 1) : a[i] = q[i]
  <2>1. /\ a \in Seq(PageItems) /\ Len(a) = IF 1 <= k - 1 THEN k - 1 - 1 + 1 ELSE 0
        /\ \A i \in 1..(k - 1 - 1 + 1) : a[i] = q[1 + i - 1]
    BY <1>1, SubSeqProperties
  <2> HIDE DEF a
  <2> QED BY <1>1, <2>1
<1>3. /\ b \in Seq(PageItems) /\ Len(b) = Len(q) - k
      /\ \A i \in 1..(Len(q) - k) : b[i] = q[k + i]
  <2>1. /\ b \in Seq(PageItems)
        /\ Len(b) = IF k + 1 <= Len(q) THEN Len(q) - (k + 1) + 1 ELSE 0
        /\ \A i \in 1..(Len(q) - (k + 1) + 1) : b[i] = q[k + 1 + i - 1]
    BY <1>1, SubSeqProperties
  <2> HIDE DEF b
  <2>2. \A i \in 1..(Len(q) - k) : k + 1 + i - 1 = k + i
    BY <1>1
  <2> QED BY <1>1, <2>1, <2>2
<1> HIDE DEF a, b
<1>4. /\ r \in Seq(PageItems) /\ Len(r) = Len(q) - 1
      /\ \A i \in 1..(Len(q) - 1) : r[i] = IF i <= k - 1 THEN a[i] ELSE b[i - (k - 1)]
  <2>1. /\ r \in Seq(PageItems) /\ Len(r) = Len(a) + Len(b)
        /\ \A i \in 1..(Len(a) + Len(b)) :
             r[i] = IF i <= Len(a) THEN a[i] ELSE b[i - Len(a)]
    <3>1. a \in Seq(PageItems) /\ b \in Seq(PageItems)
      BY <1>2, <1>3
    <3> QED BY <3>1, ConcatProperties
  <2> HIDE DEF r
  <2> QED BY <1>1, <1>2, <1>3, <2>1
<1>5. DOMAIN r = 1..(Len(q) - 1)
  BY <1>4, LenProperties
<1> HIDE DEF r
<1>6. \A i \in DOMAIN r : \/ i < k /\ r[i] = q[i]
                          \/ i >= k /\ r[i] = q[i + 1]
  <2> SUFFICES ASSUME NEW i \in 1..(Len(q) - 1)
               PROVE  \/ i < k /\ r[i] = q[i]
                      \/ i >= k /\ r[i] = q[i + 1]
    BY <1>5
  <2>1. CASE i < k
    BY <1>1, <1>2, <1>4, <2>1
  <2>2. CASE i >= k
    <3>1. i - (k - 1) \in 1..(Len(q) - k) /\ k + (i - (k - 1)) = i + 1 /\ ~(i <= k - 1)
      BY <1>1, <2>2
    <3> QED BY <1>3, <1>4, <2>2, <3>1
  <2> QED BY <1>1, <2>1, <2>2
<1>7. ASSUME NEW i \in DOMAIN r, NEW j \in DOMAIN r, r[i] = r[j]
      PROVE  i = j
  <2>1. i \in 1..(Len(q) - 1) /\ j \in 1..(Len(q) - 1)
    BY <1>5
  <2>2. \A m, n \in 1..Len(q) : q[m] = q[n] => m = n
    BY <1>1
  <2>3. i + 1 \in 1..Len(q) /\ j + 1 \in 1..Len(q) /\ i \in 1..Len(q) /\ j \in 1..Len(q)
    BY <1>1, <2>1
  <2> QED BY <1>1, <1>6, <1>7, <2>1, <2>2, <2>3
<1> QED BY <1>4, <1>7 DEF r, a, b, RemoveAt

LEMMA PagesListChanges ==
  ASSUME PagesInv, ListChanges
  PROVE  PagesInv'
<1>1. /\ page > 1 /\ changed' = TRUE
      /\ UNCHANGED <<page, current, offset, total, iterator, aborted, yielded, failures>>
  BY DEF ListChanges
<1>2. list' \in Seq(PageItems) /\ ListsOnce'
  <2>1. list \in Seq(PageItems) /\ \A i, j \in DOMAIN list : list[i] = list[j] => i = j
    BY PagesTypes DEF PagesInv, ListsOnce
  <2>2. CASE \E i \in PageItems :
               (\A k \in DOMAIN list : list[k] # i) /\ list' = <<i>> \o list
    BY <2>1, <2>2, ListGrows DEF ListsOnce
  <2>3. CASE \E k \in DOMAIN list : list' = RemoveAt(list, k)
    BY <2>1, <2>3, ListShrinks DEF ListsOnce
  <2> QED BY <2>2, <2>3 DEF ListChanges
<1>3. PagesTypeOK'
  BY <1>1, <1>2 DEF PagesInv, PagesTypeOK
<1>4. page # 1 /\ page' # 1 /\ total' # Unknown
  BY <1>1, PagesTypes DEF PagesInv, BeforeFirstPage
<1> QED BY <1>1, <1>2, <1>3, <1>4
        DEF PagesInv, BeforeFirstPage, OnPage, YieldedInOrder, WholeAtTheEnd

LEMMA PagesStep == PagesInv /\ [PagesNext]_pageVars => PagesInv'
<1> SUFFICES ASSUME PagesInv, [PagesNext]_pageVars PROVE PagesInv'
  OBVIOUS
<1>1. CASE UNCHANGED pageVars
  BY <1>1 DEF pageVars, PagesInv, PagesTypeOK, ListsOnce, BeforeFirstPage, OnPage, Covered,
              YieldedInOrder, WholeAtTheEnd
<1>2. CASE PagesNext
  BY <1>2, PagesYield, PagesTurn, PagesLoaded, PagesStop, PagesListChanges DEF PagesNext
<1> QED BY <1>1, <1>2

LEMMA PagesBegin == PagesInit => PagesInv
<1> SUFFICES ASSUME PagesInit PROVE PagesInv
  OBVIOUS
<1>1. PICK n \in 0..Cardinality(PageItems) : list \in [1..n -> PageItems]
  BY DEF PagesInit, Listings
<1>2. n \in Nat /\ DOMAIN list = 1..n
  BY <1>1, PageBounds
<1>3. list \in Seq(PageItems)
  BY <1>1, <1>2, SeqDef
<1>4. ListsOnce
  <2> SUFFICES ASSUME NEW i \in DOMAIN list, NEW j \in DOMAIN list, list[i] = list[j]
               PROVE  i = j
    BY DEF ListsOnce
  <2>1. i \in Nat /\ j \in Nat /\ list[i] \in Nat /\ list[j] \in Nat
    <3>1. PageItems \subseteq Nat
      BY PagesAssumption
    <3>2. i \in 1..n /\ j \in 1..n
      BY <1>2
    <3>3. list[i] \in PageItems /\ list[j] \in PageItems
      BY <1>1, <3>2
    <3>4. list[i] \in Nat /\ list[j] \in Nat
      BY <3>1, <3>3
    <3>5. i \in Nat /\ j \in Nat
      BY <1>2, <3>2
    <3> QED BY <3>4, <3>5
  <2>2. i < j => list[i] < list[j]
    BY DEF PagesInit, Listings
  <2>3. j < i => list[j] < list[i]
    BY DEF PagesInit, Listings
  <2> QED BY <2>1, <2>2, <2>3
<1>5. PagesTypeOK
  <2>1. <<>> \in Seq(PageItems) /\ Len(<<>>) = 0
    BY EmptySeq
  <2>2. page \in 1..(MaxPages + 1) /\ failures \in 0..MaxFailures
    BY PageBounds DEF PagesInit
  <2>3. {aborted, changed} \subseteq BOOLEAN
    BY DEF PagesInit
  <2>4. /\ current = <<>> /\ yielded = <<>> /\ offset = 0 /\ total = Unknown
        /\ iterator = "idle"
    BY DEF PagesInit
  <2>5. Len(current) <= PageLimit /\ offset \in 0..Len(current)
    BY <2>1, <2>4, PageBounds
  <2> QED BY <1>3, <2>1, <2>2, <2>3, <2>4, <2>5 DEF PagesTypeOK
<1>6. /\ BeforeFirstPage /\ OnPage /\ WholeAtTheEnd /\ iterator # "fetching"
  BY DEF PagesInit, BeforeFirstPage, OnPage, WholeAtTheEnd
<1>7. YieldedInOrder
  BY <1>3, EmptySeq, LenProperties DEF PagesInit, YieldedInOrder
<1> QED BY <1>4, <1>5, <1>6, <1>7 DEF PagesInv

\* The invariant, for any items, size and number of pages.
THEOREM PagesInvariance == PagesSpec => []PagesInv
  BY PagesBegin, PagesStep, PTL DEF PagesSpec

\* PaginatedIterator.next: while the list stands still every item is yielded once and in
\* order, past pages that fail to load, and the iteration ends by itself only with the
\* whole list or at maxPages.
THEOREM ItemsComeOnce == PagesSpec => []EachItemOnce
<1>1. PagesInv => EachItemOnce
  <2> SUFFICES ASSUME PagesInv, ~changed
               PROVE  /\ IsPrefix(yielded, list)
                      /\ iterator = "exhausted" /\ ~aborted =>
                           yielded = list \/ Len(yielded) = MaxPages * PageLimit
    BY DEF EachItemOnce
  <2>1. /\ yielded \in Seq(PageItems) /\ list \in Seq(PageItems)
        /\ Len(yielded) \in Nat /\ Len(list) \in Nat
    BY PagesTypes
  <2>2. Len(yielded) <= Len(list) /\ \A i \in 1..Len(yielded) : yielded[i] = list[i]
    BY DEF PagesInv, YieldedInOrder
  <2> DEFINE front == SubSeq(list, 1, Len(yielded))
  <2>3. \A i \in 1..Len(yielded) : list[i] \in PageItems
    BY <2>1, <2>2
  <2>4. /\ front \in Seq(PageItems) /\ Len(front) = Len(yielded)
        /\ \A i \in 1..Len(yielded) : front[i] = list[i]
    <3>1. /\ front \in Seq(PageItems)
          /\ Len(front) = IF 1 <= Len(yielded) THEN Len(yielded) - 1 + 1 ELSE 0
          /\ \A i \in 1..(Len(yielded) - 1 + 1) : front[i] = list[1 + i - 1]
      BY <2>1, <2>3, SubSeqProperties
    <3> HIDE DEF front
    <3> QED BY <2>1, <3>1
  <2> HIDE DEF front
  <2>5. yielded = front
    BY <2>1, <2>2, <2>4, SeqEqual
  <2>6. IsPrefix(yielded, list)
    BY <2>1, <2>2, <2>5, SubSeqFull DEF IsPrefix, front
  <2>7. Len(yielded) = Len(list) => yielded = list
    BY <2>1, <2>2, SeqEqual
  <2> QED BY <2>6, <2>7 DEF PagesInv, WholeAtTheEnd
<1> QED BY <1>1, PagesInvariance, PTL

-----------------------------------------------------------------------------
(* The notifications *)

Sweeps == [on : BOOLEAN, rows : SUBSET Notices]

LEMMA SweepTypes ==
  /\ NoSweep \in Sweeps
  /\ \A B \in SUBSET Notices : Chosen(B) \in Sweeps
  BY DEF NoSweep, Chosen, Sweeps

LEMMA NoticesStep ==
  ASSUME NoticesTypeOK, [NoticesNext]_noticeVars
  PROVE  NoticesTypeOK'
<1> USE DEF NoticesTypeOK, Sweeps
<1>1. CASE UNCHANGED noticeVars
  BY <1>1 DEF noticeVars
<1>2. CASE MarkAllRead
  BY <1>2 DEF MarkAllRead
<1>3. ASSUME NEW n \in Notices,
             CreateNotice(n) \/ MarkRead(n) \/ DeleteNotice(n) \/ Expire(n)
      PROVE  NoticesTypeOK'
  BY <1>3 DEF CreateNotice, MarkRead, DeleteNotice, Expire
<1>4. ASSUME NEW w \in Sweepers, SweepBegins(w)
      PROVE  NoticesTypeOK'
  <2>1. PICK B \in SUBSET Notices : sweep' = [sweep EXCEPT ![w] = Chosen(B)]
    BY <1>4 DEF SweepBegins
  <2> QED BY <1>4, <2>1, SweepTypes DEF SweepBegins
<1>5. ASSUME NEW w \in Sweepers, SweepDeletes(w)
      PROVE  NoticesTypeOK'
  <2>1. notices' \in [Notices -> {"none", "unread", "read", "gone"}]
    BY <1>5 DEF SweepDeletes
  <2>2. PICK next \in Sweeps : sweep' = [sweep EXCEPT ![w] = next]
    BY <1>5, SweepTypes DEF SweepDeletes
  <2> QED BY <1>5, <2>1, <2>2 DEF SweepDeletes
<1>6. ASSUME NEW w \in Sweepers, SweepFails(w)
      PROVE  NoticesTypeOK'
  BY <1>6, SweepTypes, SweepAssumption DEF SweepFails
<1> QED BY <1>1, <1>2, <1>3, <1>4, <1>5, <1>6 DEF NoticesNext

\* NotificationsService: whatever batches the processes choose, a sweep has rows of
\* notifications in hand and its failures stay within the bound.
THEOREM NoticesTypes == NoticesSpec => []NoticesTypeOK
<1>1. NoticesInit => NoticesTypeOK
  BY SweepTypes, SweepAssumption DEF NoticesInit, NoticesTypeOK, Sweeps
<1>2. NoticesTypeOK /\ [NoticesNext]_noticeVars => NoticesTypeOK'
  BY NoticesStep
<1> QED BY <1>1, <1>2, PTL DEF NoticesSpec

\* What a sweep has in hand has expired.
SweepsHoldExpired == \A w \in Sweepers : sweep[w].rows \subseteq expired

\* A row leaves the table by a request of its user or because it has expired, and never
\* comes back.
OnlyExpiredSwept ==
  [][\A n \in Notices :
       /\ notices[n] = "gone" => notices'[n] = "gone"
       /\ Present(n) /\ notices'[n] = "gone" => DeleteNotice(n) \/ n \in expired]_noticeVars

LEMMA SweepInHand ==
  ASSUME NoticesTypeOK, SweepsHoldExpired, [NoticesNext]_noticeVars
  PROVE  SweepsHoldExpired'
<1>1. NoSweep.rows = {} /\ \A B : Chosen(B).rows = B
  BY DEF NoSweep, Chosen
<1>2. sweep = [w \in Sweepers |-> sweep[w]]
  BY DEF NoticesTypeOK
<1>3. ASSUME UNCHANGED sweep, expired \subseteq expired'
      PROVE  SweepsHoldExpired'
  BY <1>3 DEF SweepsHoldExpired
<1>4. ASSUME NEW w \in Sweepers, UNCHANGED expired, NEW x, x.rows \subseteq expired,
             sweep' = [sweep EXCEPT ![w] = x]
      PROVE  SweepsHoldExpired'
  <2>1. \A v \in Sweepers : sweep'[v] = x \/ sweep'[v] = sweep[v]
    BY <1>2, <1>4
  <2> QED BY <1>4, <2>1 DEF SweepsHoldExpired
<1>5. CASE UNCHANGED noticeVars \/ MarkAllRead
  BY <1>3, <1>5 DEF noticeVars, MarkAllRead
<1>6. ASSUME NEW n \in Notices,
             CreateNotice(n) \/ MarkRead(n) \/ DeleteNotice(n) \/ Expire(n)
      PROVE  SweepsHoldExpired'
  BY <1>3, <1>6 DEF CreateNotice, MarkRead, DeleteNotice, Expire
<1>7. ASSUME NEW w \in Sweepers, SweepBegins(w)
      PROVE  SweepsHoldExpired'
  <2>1. PICK B \in SUBSET Notices : IsBatch(B) /\ sweep' = [sweep EXCEPT ![w] = Chosen(B)]
    BY <1>7 DEF SweepBegins
  <2>2. B \subseteq expired
    BY <2>1 DEF IsBatch, Sweepable, Due
  <2>3. UNCHANGED expired
    BY <1>7 DEF SweepBegins
  <2> QED BY <1>1, <1>4, <2>1, <2>2, <2>3
<1>8. ASSUME NEW w \in Sweepers, SweepDeletes(w)
      PROVE  SweepsHoldExpired'
  <2>1. UNCHANGED expired
    BY <1>8 DEF SweepDeletes
  <2>2. CASE sweep' = [sweep EXCEPT ![w] = NoSweep]
    BY <1>1, <1>4, <2>1, <2>2
  <2>3. ASSUME NEW B \in SUBSET Notices, IsBatch(B)',
               sweep' = [sweep EXCEPT ![w] = Chosen(B)]
        PROVE  SweepsHoldExpired'
    <3>1. B \subseteq expired
      BY <2>1, <2>3 DEF IsBatch, Sweepable, Due
    <3> QED BY <1>1, <1>4, <2>1, <2>3, <3>1
  <2> QED BY <1>8, <2>2, <2>3 DEF SweepDeletes
<1>9. ASSUME NEW w \in Sweepers, SweepFails(w)
      PROVE  SweepsHoldExpired'
  BY <1>1, <1>4, <1>9 DEF SweepFails
<1> QED BY <1>5, <1>6, <1>7, <1>8, <1>9 DEF NoticesNext

LEMMA SweptStep ==
  ASSUME NoticesTypeOK, SweepsHoldExpired, NoticesNext, NEW n \in Notices
  PROVE  /\ notices[n] = "gone" => notices'[n] = "gone"
         /\ Present(n) /\ notices'[n] = "gone" => DeleteNotice(n) \/ n \in expired
<1>1. notices = [m \in Notices |-> notices[m]]
  BY DEF NoticesTypeOK
<1>2. CASE MarkAllRead
  BY <1>2 DEF MarkAllRead, Present
<1>3. ASSUME NEW m \in Notices, CreateNotice(m) \/ MarkRead(m) \/ Expire(m)
      PROVE  /\ notices[n] = "gone" => notices'[n] = "gone"
             /\ notices'[n] = "gone" => notices[n] = "gone"
  BY <1>1, <1>3 DEF CreateNotice, MarkRead, Expire
<1>4. ASSUME NEW m \in Notices, DeleteNotice(m)
      PROVE  /\ notices'[n] = "gone" \/ notices'[n] = notices[n]
             /\ n # m => notices'[n] = notices[n]
  BY <1>1, <1>4 DEF DeleteNotice
<1>5. ASSUME NEW w \in Sweepers, SweepDeletes(w)
      PROVE  \/ notices'[n] = notices[n]
             \/ notices'[n] = "gone" /\ n \in expired
  BY <1>5 DEF SweepDeletes, SweepsHoldExpired
<1>6. ASSUME NEW w \in Sweepers, SweepBegins(w) \/ SweepFails(w)
      PROVE  UNCHANGED notices
  BY <1>6 DEF SweepBegins, SweepFails
<1> QED BY <1>2, <1>3, <1>4, <1>5, <1>6 DEF NoticesNext, Present

\* sweepExpired: however the batches of several processes overlap with each other and
\* with the requests of the user, a notification that is swept had expired, and one that
\* is gone stays gone.
THEOREM SweepsTakeOnlyExpired == NoticesSpec => OnlyExpiredSwept
<1>1. NoticesInit => SweepsHoldExpired
  BY DEF NoticesInit, SweepsHoldExpired, NoSweep
<1>2. NoticesTypeOK /\ SweepsHoldExpired /\ [NoticesNext]_noticeVars => SweepsHoldExpired'
  BY SweepInHand
<1>3. NoticesTypeOK /\ SweepsHoldExpired /\ [NoticesNext]_noticeVars =>
        [\A n \in Notices :
           /\ notices[n] = "gone" => notices'[n] = "gone"
           /\ Present(n) /\ notices'[n] = "gone"
              => DeleteNotice(n) \/ n \in expired]_noticeVars
  BY SweptStep
<1> QED BY <1>1, <1>2, <1>3, NoticesTypes, PTL DEF NoticesSpec, OnlyExpiredSwept

-----------------------------------------------------------------------------
(* The toasts *)

ToastRecords == [id : ToastIds, open : BOOLEAN]

\* No id is shown twice, and each was given out.
IdsOnce ==
  /\ \A i, j \in 1..Len(toasts) : toasts[i].id = toasts[j].id => i = j
  /\ \A i \in 1..Len(toasts) : toasts[i].id \in used

ToastsInv == ToastsTypeOK /\ IdsOnce

LEMMA ToastFields ==
  ASSUME ToastsInv
  PROVE  /\ toasts \in Seq(ToastRecords) /\ DOMAIN toasts = 1..Len(toasts)
         /\ Len(toasts) \in Nat
         /\ \A i \in 1..Len(toasts) : toasts[i] \in ToastRecords /\ toasts[i].id \in ToastIds
<1>1. toasts \in Seq(ToastRecords)
  BY DEF ToastsInv, ToastsTypeOK, ToastRecords
<1>2. \A i \in 1..Len(toasts) : toasts[i] \in ToastRecords
  BY <1>1
<1>3. \A i \in 1..Len(toasts) : toasts[i].id \in ToastIds
  BY <1>2 DEF ToastRecords
<1> QED BY <1>1, <1>2, <1>3

\* A list that keeps the toasts of the present one in their order, or fewer of them.
Thinned(f, m) ==
  /\ m \in 0..Len(toasts) /\ f \in [1..m -> 1..Len(toasts)]
  /\ \A i, j \in 1..m : f[i] = f[j] => i = j

\* What is shown keeps its ids, and some of them leave.
LEMMA FewerToasts ==
  ASSUME ToastsInv, NEW f, NEW m, Thinned(f, m),
         toasts' \in Seq(ToastRecords), Len(toasts') = m,
         \A i \in 1..m : toasts'[i].id = toasts[f[i]].id,
         timeouts' \subseteq ToastIds, UNCHANGED used, dismissed' \subseteq used
  PROVE  ToastsInv' /\ Shown' \subseteq Shown
<1>1. Len(toasts) \in Nat /\ Len(toasts) <= ToastLimit /\ ToastLimit \in Nat
  BY ToastFields, ToastAssumption DEF ToastsInv, ToastsTypeOK
<1>2. Len(toasts') <= ToastLimit
  BY <1>1 DEF Thinned
<1>3. \A i \in 1..m : f[i] \in 1..Len(toasts)
  BY DEF Thinned
<1>4. ASSUME NEW i \in 1..m, NEW j \in 1..m, toasts'[i].id = toasts'[j].id
      PROVE  i = j
  <2>1. toasts[f[i]].id = toasts[f[j]].id
    BY <1>4
  <2>2. f[i] = f[j]
    BY <1>3, <2>1 DEF ToastsInv, IdsOnce
  <2> QED BY <2>2 DEF Thinned
<1>5. \A i \in 1..m : toasts'[i].id \in used'
  BY <1>3 DEF ToastsInv, IdsOnce
<1>6. IdsOnce'
  BY <1>4, <1>5 DEF IdsOnce
<1>7. ToastsInv'
  BY <1>2, <1>6 DEF ToastsInv, ToastsTypeOK, ToastRecords
<1>8. Shown' \subseteq Shown
  <2>1. DOMAIN toasts' = 1..m /\ DOMAIN toasts = 1..Len(toasts)
    BY ToastFields
  <2> QED BY <1>3, <2>1 DEF Shown
<1> QED BY <1>7, <1>8

\* UPDATE_TOAST and DISMISS_TOAST: every toast keeps its place.
LEMMA RestatedToasts ==
  ASSUME ToastsInv, NEW ids, NEW open \in BOOLEAN, toasts' = Restated(ids, open),
         timeouts' \subseteq ToastIds, UNCHANGED used, dismissed' \subseteq used
  PROVE  ToastsInv' /\ Shown' \subseteq Shown
<1> DEFINE f == [i \in 1..Len(toasts) |-> i]
           next(i) == IF toasts[i].id \in ids THEN [toasts[i] EXCEPT !.open = open]
                      ELSE toasts[i]
<1>1. \A i \in 1..Len(toasts) : next(i) \in ToastRecords /\ next(i).id = toasts[i].id
  BY ToastFields DEF ToastRecords
<1>2. toasts' = [i \in 1..Len(toasts) |-> next(i)]
  BY ToastFields DEF Restated
<1> HIDE DEF next
<1>3. toasts' \in Seq(ToastRecords) /\ Len(toasts') = Len(toasts)
  BY <1>1, <1>2, ToastFields
<1>4. \A i \in 1..Len(toasts) : toasts'[i].id = toasts[f[i]].id
  BY <1>1, <1>2
<1>5. Thinned(f, Len(toasts))
  BY ToastFields DEF Thinned
<1> HIDE DEF f
<1> QED BY <1>3, <1>4, <1>5, FewerToasts

LEMMA ToastAdded ==
  ASSUME ToastsInv, NEW t \in ToastIds, AddToast(t)
  PROVE  ToastsInv' /\ Shown' \subseteq Shown \cup {t}
<1> DEFINE new == [id |-> t, open |-> TRUE]
           all == <<new>> \o toasts
           kept == IF Len(all) < ToastLimit THEN Len(all) ELSE ToastLimit
<1>1. new \in ToastRecords /\ new.id = t /\ <<new>> \in Seq(ToastRecords) /\ Len(<<new>>) = 1
  BY DEF ToastRecords
<1>2. /\ all \in Seq(ToastRecords) /\ Len(all) = 1 + Len(toasts)
      /\ all[1] = new /\ \A i \in 2..Len(all) : all[i] = toasts[i - 1]
  BY <1>1, ToastFields, ConcatProperties
<1>3. Len(toasts) \in Nat /\ ToastLimit \in Nat \ {0} /\ Len(toasts) <= ToastLimit
  BY ToastFields, ToastAssumption DEF ToastsInv, ToastsTypeOK
<1> HIDE DEF new, all
<1>4. kept \in 1..Len(all) /\ kept <= ToastLimit
  BY <1>2, <1>3
<1>5. toasts' = SubSeq(all, 1, kept) /\ used' = used \cup {t} /\ t \notin used
      /\ UNCHANGED <<timeouts, dismissed>>
  BY DEF AddToast, all, new
<1> HIDE DEF kept
<1>6. \A i \in 1..kept : all[i] \in ToastRecords
  BY <1>2, <1>4
<1>7. /\ toasts' \in Seq(ToastRecords) /\ Len(toasts') = kept
      /\ \A i \in 1..kept : toasts'[i] = all[i]
  BY <1>2, <1>4, <1>5, <1>6, SubSeqProperties
<1>8. \A i \in 2..kept : i - 1 \in 1..Len(toasts) /\ toasts'[i].id = toasts[i - 1].id
  BY <1>2, <1>3, <1>4, <1>7
<1>9. toasts'[1].id = t
  BY <1>1, <1>2, <1>4, <1>7
<1>10. \A i \in 2..kept : toasts'[i].id \in used
  BY <1>8 DEF ToastsInv, IdsOnce
<1>11. \A i \in 1..kept : i = 1 \/ i \in 2..kept
  BY <1>4
<1>12. IdsOnce'
  <2>1. \A i, j \in 2..kept : toasts'[i].id = toasts'[j].id => i - 1 = j - 1
    BY <1>8 DEF ToastsInv, IdsOnce
  <2>2. \A i, j \in 1..kept : toasts'[i].id = toasts'[j].id => i = j
    <3> SUFFICES ASSUME NEW i \in 1..kept, NEW j \in 1..kept,
                        toasts'[i].id = toasts'[j].id
                 PROVE  i = j
      OBVIOUS
    <3>1. CASE i = 1 \/ j = 1
      BY <1>5, <1>9, <1>10, <1>11, <3>1
    <3>2. CASE i \in 2..kept /\ j \in 2..kept
      <4>1. i - 1 = j - 1
        BY <2>1, <3>2
      <4> QED BY <3>2, <4>1
    <3> QED BY <1>11, <3>1, <3>2
  <2>3. \A i \in 1..kept : toasts'[i].id \in used'
    BY <1>5, <1>9, <1>10, <1>11
  <2> QED BY <1>7, <2>2, <2>3 DEF IdsOnce
<1>13. ToastsInv'
  BY <1>4, <1>5, <1>7, <1>12 DEF ToastsInv, ToastsTypeOK, ToastRecords
<1>14. Shown' \subseteq Shown \cup {t}
  <2>1. DOMAIN toasts' = 1..kept /\ DOMAIN toasts = 1..Len(toasts)
    BY <1>7, ToastFields
  <2>2. \A i \in 2..kept : toasts'[i].id \in Shown
    BY <1>8, <2>1 DEF Shown
  <2>3. \A i \in 1..kept : toasts'[i].id \in Shown \cup {t}
    BY <1>9, <1>11, <2>2
  <2> QED BY <2>1, <2>3 DEF Shown
<1> QED BY <1>13, <1>14

LEMMA ToastRemoved ==
  ASSUME ToastsInv, NEW t \in ToastIds, RemoveToast(t)
  PROVE  ToastsInv' /\ Shown' \subseteq Shown \ {t}
<1>1. /\ timeouts' \subseteq ToastIds /\ UNCHANGED used /\ dismissed' \subseteq used
  BY DEF RemoveToast, ToastsInv, ToastsTypeOK
<1>2. CASE t \notin Shown
  <2>1. UNCHANGED toasts
    BY <1>2 DEF RemoveToast
  <2> QED BY <1>1, <1>2, <2>1 DEF ToastsInv, ToastsTypeOK, IdsOnce, Shown
<1>3. CASE t \in Shown
  <2> DEFINE k == CHOOSE i \in DOMAIN toasts : toasts[i].id = t
             before == SubSeq(toasts, 1, k - 1)
             after == SubSeq(toasts, k + 1, Len(toasts))
  <2>1. toasts' = before \o after
    BY <1>3 DEF RemoveToast, Without
  <2>2. k \in 1..Len(toasts) /\ toasts[k].id = t /\ Len(toasts) \in Nat
    BY <1>3, ToastFields DEF Shown
  <2> HIDE DEF k
  <2>3. /\ before \in Seq(ToastRecords) /\ Len(before) = k - 1
        /\ \A i \in 1..(k - 1) : before[i] = toasts[i]
    <3>1. \A i \in 1..(k - 1) : toasts[i] \in ToastRecords
      BY <2>2, ToastFields
    <3>2. 1 \in Int /\ k - 1 \in Int
      BY <2>2
    <3>3. /\ SubSeq(toasts, 1, k - 1) \in Seq(ToastRecords)
          /\ Len(SubSeq(toasts, 1, k - 1)) =
               IF 1 <= k - 1 THEN (k - 1) - 1 + 1 ELSE 0
          /\ \A i \in 1..((k - 1) - 1 + 1) : SubSeq(toasts, 1, k - 1)[i] = toasts[1 + i - 1]
      BY <3>1, <3>2, SubSeqProperties
    <3> QED BY <2>2, <3>3
  <2>4. /\ after \in Seq(ToastRecords) /\ Len(after) = Len(toasts) - k
        /\ \A i \in 1..(Len(toasts) - k) : after[i] = toasts[k + i]
    <3>1. \A i \in (k + 1)..Len(toasts) : toasts[i] \in ToastRecords
      BY <2>2, ToastFields
    <3>2. k + 1 \in Int /\ Len(toasts) \in Int
      BY <2>2
    <3>3. /\ SubSeq(toasts, k + 1, Len(toasts)) \in Seq(ToastRecords)
          /\ Len(SubSeq(toasts, k + 1, Len(toasts))) =
               IF k + 1 <= Len(toasts) THEN Len(toasts) - (k + 1) + 1 ELSE 0
          /\ \A i \in 1..(Len(toasts) - (k + 1) + 1) :
               SubSeq(toasts, k + 1, Len(toasts))[i] = toasts[(k + 1) + i - 1]
      BY <3>1, <3>2, SubSeqProperties
    <3> QED BY <2>2, <3>3
  <2> HIDE DEF before, after
  <2> DEFINE m == Len(toasts) - 1
             f == [i \in 1..m |-> IF i < k THEN i ELSE i + 1]
  <2>5. /\ toasts' \in Seq(ToastRecords) /\ Len(toasts') = m
        /\ \A i \in 1..m : toasts'[i] = toasts[f[i]]
    <3>1. /\ before \o after \in Seq(ToastRecords)
          /\ Len(before \o after) = Len(before) + Len(after)
          /\ \A i \in 1..(Len(before) + Len(after)) :
               (before \o after)[i] = IF i <= Len(before) THEN before[i]
                                      ELSE after[i - Len(before)]
      <4>1. before \in Seq(ToastRecords) /\ after \in Seq(ToastRecords)
        BY <2>3, <2>4
      <4> QED BY <4>1, ConcatProperties
    <3>2. Len(before) + Len(after) = m
      BY <2>2, <2>3, <2>4
    <3>3. ASSUME NEW i \in 1..m
          PROVE  toasts'[i] = toasts[f[i]]
      <4>1. CASE i < k
        BY <2>1, <2>2, <2>3, <3>1, <3>2, <4>1
      <4>2. CASE ~(i < k)
        <5>1. i - Len(before) \in 1..(Len(toasts) - k) /\ k + (i - Len(before)) = i + 1
          BY <2>2, <2>3, <4>2
        <5>2. toasts'[i] = after[i - Len(before)]
          BY <2>1, <2>2, <2>3, <3>1, <3>2, <4>2
        <5>3. toasts'[i] = toasts[i + 1]
          BY <2>4, <5>1, <5>2
        <5> QED BY <4>2, <5>3
      <4> QED BY <4>1, <4>2
    <3> QED BY <2>1, <3>1, <3>2, <3>3
  <2>6. Thinned(f, m)
    BY <2>2 DEF Thinned
  <2>7. \A i \in 1..m : f[i] \in 1..Len(toasts) /\ f[i] # k
    BY <2>2
  <2> HIDE DEF f
  <2>8. ToastsInv' /\ Shown' \subseteq Shown
    BY <1>1, <2>5, <2>6, FewerToasts
  <2>9. t \notin Shown'
    BY <2>2, <2>5, <2>7 DEF Shown, ToastsInv, IdsOnce
  <2> QED BY <2>8, <2>9
<1> QED BY <1>2, <1>3

\* What a step may show: what was shown, and a toast that is new.
LEMMA ToastsStep ==
  ASSUME ToastsInv, [ToastsNext]_toastVars
  PROVE  ToastsInv' /\ Shown' \subseteq Shown \cup (ToastIds \ used)
<1>1. CASE UNCHANGED toastVars
  BY <1>1 DEF toastVars, ToastsInv, ToastsTypeOK, IdsOnce, Shown
<1>2. Shown \subseteq used /\ Shown \subseteq ToastIds
  BY ToastFields DEF Shown, ToastsInv, IdsOnce
<1>3. CASE DismissAll
  BY <1>2, <1>3, RestatedToasts DEF DismissAll, Queued, ToastsInv, ToastsTypeOK
<1>4. ASSUME NEW t \in ToastIds, DismissToast(t)
      PROVE  ToastsInv' /\ Shown' \subseteq Shown
  BY <1>4, RestatedToasts DEF DismissToast, Queued, ToastsInv, ToastsTypeOK
<1>5. ASSUME NEW t \in ToastIds, NEW open \in BOOLEAN, UpdateToast(t, open)
      PROVE  ToastsInv' /\ Shown' \subseteq Shown
  BY <1>5, RestatedToasts DEF UpdateToast, ToastsInv, ToastsTypeOK
<1>6. ASSUME NEW t \in ToastIds, AddToast(t)
      PROVE  ToastsInv' /\ Shown' \subseteq Shown \cup (ToastIds \ used)
  <2>1. t \notin used
    BY <1>6 DEF AddToast
  <2> QED BY <1>6, <2>1, ToastAdded
<1>7. ASSUME NEW t \in ToastIds, RemoveToast(t)
      PROVE  ToastsInv' /\ Shown' \subseteq Shown
  BY <1>7, ToastRemoved
<1> QED BY <1>1, <1>3, <1>4, <1>5, <1>6, <1>7 DEF ToastsNext

\* The reducer of use-toast: it shows no id twice and no more toasts than the limit,
\* in whatever order toasts are added, updated, dismissed and removed by their timers.
THEOREM ToastsInvariance == ToastsSpec => []ToastsInv
<1>1. ToastsInit => ToastsInv
  BY ToastAssumption DEF ToastsInit, ToastsInv, ToastsTypeOK, IdsOnce
<1>2. ToastsInv /\ [ToastsNext]_toastVars => ToastsInv'
  BY ToastsStep
<1> QED BY <1>1, <1>2, PTL DEF ToastsSpec

\* A toast that was dismissed and is still shown has its timer, the step that removes it
\* being the only one that takes the timer away.
DismissedHasTimer == \A t \in dismissed : t \in Shown => t \in timeouts

\* A toast that has left the screen does not come back.
NeverShownAgain ==
  [][\A t \in used : t \notin Shown => t \notin Shown']_toastVars

LEMMA TimersStep ==
  ASSUME ToastsInv, DismissedHasTimer, [ToastsNext]_toastVars
  PROVE  DismissedHasTimer'
<1>1. dismissed \subseteq used /\ Shown' \subseteq Shown \cup (ToastIds \ used)
  BY ToastsStep DEF ToastsInv, ToastsTypeOK
<1>2. ASSUME timeouts \subseteq timeouts', dismissed' = dismissed
      PROVE  DismissedHasTimer'
  BY <1>1, <1>2 DEF DismissedHasTimer
<1>3. CASE UNCHANGED toastVars
  BY <1>2, <1>3 DEF toastVars
<1>4. CASE DismissAll
  <2>1. /\ timeouts' = timeouts \cup Shown /\ dismissed' = dismissed \cup Shown
        /\ UNCHANGED used
    BY <1>4 DEF DismissAll, Queued
  <2>2. Shown \subseteq used
    BY ToastFields DEF Shown, ToastsInv, IdsOnce
  <2> QED BY <1>1, <2>1, <2>2 DEF DismissedHasTimer
<1>5. ASSUME NEW t \in ToastIds, DismissToast(t)
      PROVE  DismissedHasTimer'
  <2>1. timeouts' = timeouts \cup {t} /\ dismissed' = dismissed \cup (Shown \cap {t})
    BY <1>5 DEF DismissToast, Queued
  <2> QED BY <1>1, <2>1 DEF DismissedHasTimer
<1>6. ASSUME NEW t \in ToastIds, RemoveToast(t)
      PROVE  DismissedHasTimer'
  <2>1. timeouts' = timeouts \ {t} /\ UNCHANGED dismissed
    BY <1>6 DEF RemoveToast
  <2>2. Shown' \subseteq Shown \ {t}
    BY <1>6, ToastRemoved
  <2> QED BY <2>1, <2>2 DEF DismissedHasTimer
<1>7. ASSUME NEW t \in ToastIds, NEW open \in BOOLEAN,
             AddToast(t) \/ UpdateToast(t, open)
      PROVE  DismissedHasTimer'
  BY <1>2, <1>7 DEF AddToast, UpdateToast
<1> QED BY <1>3, <1>4, <1>5, <1>6, <1>7 DEF ToastsNext

\* addToRemoveQueue and the reducer of use-toast: no order of updates, dismissals and
\* expired timers leaves a dismissed toast on the screen with nothing to remove it.
THEOREM DismissedToastsHaveTimers == ToastsSpec => []DismissedHasTimer
<1>1. ToastsInit => DismissedHasTimer
  BY DEF ToastsInit, DismissedHasTimer
<1>2. ToastsInv /\ DismissedHasTimer /\ [ToastsNext]_toastVars => DismissedHasTimer'
  BY TimersStep
<1> QED BY <1>1, <1>2, ToastsInvariance, PTL DEF ToastsSpec

\* The reducer of use-toast: an update, or a dismissal, that comes after the toast has
\* made place for another does not bring it back.
THEOREM ToastsDoNotReturn == ToastsSpec => NeverShownAgain
<1>1. ToastsInv /\ [ToastsNext]_toastVars =>
        [\A t \in used : t \notin Shown => t \notin Shown']_toastVars
  BY ToastsStep
<1> QED BY <1>1, ToastsInvariance, PTL DEF ToastsSpec, NeverShownAgain

-----------------------------------------------------------------------------
(* All parts *)

\* A behaviour of the run is one of every part: the parts share no variable, and those
\* that stand still stutter.
THEOREM PartsRunAlone ==
  Spec => /\ StreamsSpec /\ AccountsSpec /\ NoticesSpec /\ TagsSpec
          /\ SdkSpec /\ PagesSpec /\ ToastsSpec
<1>1. Init => /\ StreamsInit /\ AccountsInit /\ NoticesInit /\ TagsInit
              /\ SdkInit /\ PagesInit /\ ToastsInit
  BY DEF Init
<1>2. [Next]_<<part, apiVars, accountVars, noticeVars, tagVars, sdkVars, pageVars, toastVars>> =>
        /\ [StreamsNext]_apiVars /\ [AccountsNext]_accountVars
        /\ [NoticesNext]_noticeVars /\ [TagsNext]_tagVars
        /\ [SdkNext]_sdkVars /\ [PagesNext]_pageVars /\ [ToastsNext]_toastVars
  BY DEF Next
<1> QED BY <1>1, <1>2, PTL DEF Spec, StreamsSpec, AccountsSpec, NoticesSpec, TagsSpec,
        SdkSpec, PagesSpec, ToastsSpec

\* Every part of the API and of its clients keeps its types and its bounds.
THEOREM ApiTypes == Spec => []ApiTypeOK
<1>1. StreamsInv /\ WithinBounds /\ NoticesTypeOK /\ TagsInv /\ SdkInv /\ PagesInv
      /\ ToastsInv => ApiTypeOK
  BY DEF StreamsInv, WithinBounds, TagsInv, SdkInv, PagesInv, ToastsInv, ApiTypeOK
<1> QED BY <1>1, PartsRunAlone, StreamsInvariance, AccountsBounds, NoticesTypes,
           TagsInvariance, SdkInvariance, PagesInvariance, ToastsInvariance, PTL

=============================================================================
