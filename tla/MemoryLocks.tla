----------------------------- MODULE MemoryLocks -----------------------------
(***************************************************************************)
(* The in-process lock manager (MemoryLockManager): the LOCK_BACKEND of a  *)
(* worker that runs alone.  A claim is an entry of a Map with a timer that *)
(* evicts it after the TTL.  Every call is synchronous; timers fire at     *)
(* their time or later, and a renewal keeps the token of the entry.  The   *)
(* branch for an entry of another worker is left out: a Map has only one.  *)
(***************************************************************************)
EXTENDS Naturals

CONSTANTS
  LocalStreams,   \* ids of streams
  LocalTTL,       \* ttlMs
  MaxTokens,      \* bound: acquires
  MaxNow          \* bound: Date.now()

ASSUME LocalTTLAssumption == LocalTTL \in Nat \ {0}
ASSUME LocalBoundsAssumption == MaxTokens \in Nat /\ MaxNow \in Nat

VARIABLES
  entry,     \* entry[s]: the token that holds s and when it expires, or NoEntry
  timers,    \* the armed timers
  now,       \* Date.now()
  issued,    \* issued[t]: the stream token t was issued for; tokens are 1, 2, ...
  givenUp    \* history: tokens released by their holder, or by releaseAll

localVars == <<entry, timers, now, issued, givenUp>>

Tokens  == 1..MaxTokens
NoEntry == [token |-> 0, expiresAt |-> 0]
Entries == [token : Tokens, expiresAt : Nat]
Timers  == [stream : LocalStreams, token : Tokens, at : Nat]

LocalTypeOK ==
  /\ entry \in [LocalStreams -> Entries \cup {NoEntry}]
  /\ timers \in SUBSET Timers
  /\ now \in 0..MaxNow
  /\ issued \in SUBSET (Tokens \X LocalStreams)
  /\ givenUp \in SUBSET Tokens

LocalInit ==
  /\ entry = [s \in LocalStreams |-> NoEntry]
  /\ timers = {}
  /\ now = 0
  /\ issued = {}
  /\ givenUp = {}

\* The timer of the entry of s.
TimerOf(s) == {t \in timers : t.stream = s /\ t.token = entry[s].token}

\* Mutant: the timer of the replaced entry stays armed.
KeptTimers(s) == timers

\* clearTimeout(entry.timer)
ClearedTimers(s) == timers \ TimerOf(s)

\* The entry of s is now token tok, for one TTL.
SetEntry(s, tok) ==
  /\ entry' = [entry EXCEPT ![s] = [token |-> tok, expiresAt |-> now + LocalTTL]]
  /\ timers' = ClearedTimers(s) \cup
                 {[stream |-> s, token |-> tok, at |-> now + LocalTTL]}

\* acquire: a new token, in the place of an entry of its own.
LocalAcquire(s, tok) ==
  /\ \A t \in Tokens : (t < tok) <=> (\E x \in issued : x[1] = t)
  /\ SetEntry(s, tok)
  /\ issued' = issued \cup {<<tok, s>>}
  /\ UNCHANGED <<now, givenUp>>

\* renew: true while the token holds the entry, whether it has expired or not.
LocalRenew(s, tok) ==
  /\ <<tok, s>> \in issued
  /\ entry[s].token = tok
  /\ SetEntry(s, tok)
  /\ UNCHANGED <<now, issued, givenUp>>

\* release: true if the token holds the entry; otherwise nothing happens.
LocalRelease(s, tok) ==
  /\ <<tok, s>> \in issued
  /\ entry[s].token = tok
  /\ entry' = [entry EXCEPT ![s] = NoEntry]
  /\ timers' = ClearedTimers(s)
  /\ givenUp' = givenUp \cup {tok}
  /\ UNCHANGED <<now, issued>>

\* releaseAll, and close.
LocalReleaseAll ==
  /\ entry' = [s \in LocalStreams |-> NoEntry]
  /\ timers' = timers \ UNION {TimerOf(s) : s \in LocalStreams}
  /\ givenUp' = givenUp \cup ({entry[s].token : s \in LocalStreams} \cap Tokens)
  /\ UNCHANGED <<now, issued>>

\* evictIfCurrent: a timer fires; it spares the entry of another token.
TimerFires(t) ==
  /\ t \in timers
  /\ t.at <= now
  /\ timers' = timers \ {t}
  /\ entry' = IF entry[t.stream].token = t.token
              THEN [entry EXCEPT ![t.stream] = NoEntry] ELSE entry
  /\ UNCHANGED <<now, issued, givenUp>>

TimePasses ==
  /\ now < MaxNow
  /\ now' = now + 1
  /\ UNCHANGED <<entry, timers, issued, givenUp>>

LocalNext ==
  \/ \E s \in LocalStreams, tok \in Tokens :
       LocalAcquire(s, tok) \/ LocalRenew(s, tok) \/ LocalRelease(s, tok)
  \/ LocalReleaseAll
  \/ \E t \in timers : TimerFires(t)
  \/ TimePasses

LocalSpec == LocalInit /\ [][LocalNext]_localVars

-----------------------------------------------------------------------------
(* Properties *)

\* A claim disappears from the map only when its holder has given it up or its
\* lease, counted from the last renewal, is over: no timer of an earlier acquire or
\* renewal evicts it, although a renewal keeps the token the timer looks for.
LocalClaimKept ==
  [][\A s \in LocalStreams :
       entry[s] # NoEntry /\ entry'[s] = NoEntry =>
         entry[s].expiresAt <= now \/ entry[s].token \in givenUp']_localVars

\* Who holds the streams, as StreamOwnership sees it: the one worker of the process,
\* by the token of the entry.
Held(s) == IF entry[s] = NoEntry THEN <<"nobody", 0>> ELSE <<"self", entry[s].token>>

LocalOwn == INSTANCE StreamOwnership
              WITH Workers <- {"self"}, Streams <- LocalStreams, Claims <- Tokens,
                   None <- "nobody", holder <- [s \in LocalStreams |-> Held(s)],
                   used <- {x[1] : x \in issued}

\* The in-process manager promises what the one behind Postgres does: every claim is
\* new, and one that was given up, evicted or replaced never holds a stream again.
LocalOwnership == LocalOwn!Spec
=============================================================================
