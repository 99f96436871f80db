------------------------------- MODULE Accounts -------------------------------
(***************************************************************************)
(* One account of the API: registration, login, refresh, logout, profile   *)
(* and password changes, password reset, and the check of access tokens.   *)
(* Every await is a step: a request works with the row it has read, with   *)
(* the denylist it has looked at and with the time it took for the change, *)
(* while other requests go on.  A token is the number of the mint that     *)
(* made it; names, hashes and e-mails are left out, and tokens do not      *)
(* expire by themselves.                                                   *)
(***************************************************************************)
EXTENDS Integers, FiniteSets, Sequences

CONSTANTS
  Requests,          \* concurrent requests
  ResetTokens,       \* reset tokens
  MaxResetAttempts,  \* MAX_ATTEMPTS_PER_EMAIL
  MaxMints,          \* bound: mints
  MaxChanges,        \* bound: hashes of a new password
  MaxCacheLosses     \* bound: entries the cache loses

ASSUME AccountBoundsAssumption ==
  {MaxResetAttempts, MaxMints, MaxChanges, MaxCacheLosses} \subseteq Nat

\* What a request is for is either a reset token or one of the purposes below.
ASSUME ResetTokenAssumption == ResetTokens \cap {"profile", "password"} = {}

VARIABLES
  account,     \* the row of users: version counts its passwords (history)
  resets,      \* resets[k]: password_reset_tokens
  minted,      \* the tokens minted: [version, stamp, refresh] of the row they came from
  denied,      \* denylist: <<mint, kind>>
  attempts,    \* the cached counter of executed resets
  request,     \* request[r]
  time,        \* Date.now(): a bcrypt hash takes longer than its tick
  overlapped,  \* history: a password change began before another was committed
  losses       \* entries lost so far

accountVars == <<account, resets, minted, denied, attempts, request, time, overlapped,
                 losses>>

\* What a step of a request that only reads or signs leaves alone.
stored == <<account, resets, denied, attempts, overlapped, losses>>

NoAccount == [version |-> 0, stamp |-> 0]
RowTypes  == [version : 0..(MaxChanges + 1), stamp : 0..MaxChanges]
Kinds     == {"access", "refresh"}
Mints     == 1..MaxMints
Steps     == {"idle", "registering", "reading", "minting", "revoking", "checking",
              "admitted", "hashing", "changing", "leaving", "resetting", "counting"}
Purposes  == {"profile", "password"}

Idle == [step |-> "idle", for |-> "profile", token |-> 0, row |-> NoAccount, at |-> 0,
         pair |-> FALSE]

AccountsTypeOK ==
  /\ account \in RowTypes
  /\ resets \in [ResetTokens -> {"none", "open", "used"}]
  /\ minted \in Seq([version : 0..(MaxChanges + 1), stamp : 0..MaxChanges,
                    refresh : BOOLEAN])
  /\ Len(minted) <= MaxMints
  /\ denied \subseteq Mints \X Kinds
  /\ attempts \in 0..MaxResetAttempts
  /\ request \in [Requests -> [step : Steps, for : Purposes \cup ResetTokens,
                               token : 0..MaxMints, row : RowTypes,
                               at : 0..(MaxChanges + MaxResetAttempts),
                               pair : BOOLEAN]]
  /\ time \in 0..MaxChanges
  /\ overlapped \in BOOLEAN
  /\ losses \in 0..MaxCacheLosses

AccountsInit ==
  /\ account = NoAccount
  /\ resets = [k \in ResetTokens |-> "none"]
  /\ minted = <<>> /\ denied = {} /\ attempts = 0
  /\ request = [r \in Requests |-> Idle]
  /\ time = 0 /\ overlapped = FALSE /\ losses = 0

Becomes(r, next) == request' = [request EXCEPT ![r] = next]
Finishes(r) == Becomes(r, Idle)
At(r, step) == request[r].step = step
Registered  == account # NoAccount

-----------------------------------------------------------------------------
(* Tokens *)

\* Mutant: a token carries the time it is signed.
StampSigned(row) == time

\* The passwordChangedAt claim: that of the row in hand.
StampOf(row) == row.stamp

\* signAccessToken, and signRefreshToken where both are returned.
Mint(r) ==
  /\ At(r, "minting") /\ Len(minted) < MaxMints
  /\ minted' = Append(minted, [version |-> request[r].row.version,
                               stamp |-> StampOf(request[r].row),
                               refresh |-> request[r].pair])
  /\ Finishes(r)
  /\ UNCHANGED <<stored, time>>

\* register: no row has the name or the address, up to the hash.
Register(r) ==
  /\ At(r, "idle") /\ ~Registered
  /\ Becomes(r, [Idle EXCEPT !.step = "registering"])
  /\ UNCHANGED <<stored, minted, time>>

\* The INSERT; the unique columns refuse the second of two.
InsertUser(r) ==
  /\ At(r, "registering")
  /\ IF Registered
     THEN Finishes(r) /\ UNCHANGED account
     ELSE /\ account' = [version |-> 1, stamp |-> time]
          /\ Becomes(r, [Idle EXCEPT !.step = "minting", !.row = account', !.pair = TRUE])
  /\ UNCHANGED <<resets, minted, denied, attempts, time, overlapped, losses>>

\* login: the row is read and its hash is compared; the audit entry and the tokens are
\* for later.
Login(r) ==
  /\ At(r, "idle") /\ Registered
  /\ Becomes(r, [Idle EXCEPT !.step = "minting", !.row = account, !.pair = TRUE])
  /\ UNCHANGED <<stored, minted, time>>

\* refresh: the token is verified and not on the denylist.
Refresh(r, n) ==
  /\ At(r, "idle") /\ minted[n].refresh /\ <<n, "refresh">> \notin denied
  /\ Becomes(r, [Idle EXCEPT !.step = "reading", !.token = n])
  /\ UNCHANGED <<stored, minted, time>>

RefreshReads(r) ==
  /\ At(r, "reading")
  /\ Becomes(r, [request[r] EXCEPT !.step = "minting", !.row = account, !.pair = TRUE])
  /\ UNCHANGED <<stored, minted, time>>

\* logout: the access token is revoked, then the refresh token of the cookie.
Logout(r, n) ==
  /\ At(r, "idle")
  /\ denied' = denied \cup {<<n, "access">>}
  /\ IF minted[n].refresh
     THEN Becomes(r, [Idle EXCEPT !.step = "leaving", !.token = n])
     ELSE UNCHANGED request
  /\ UNCHANGED <<account, resets, minted, attempts, time, overlapped, losses>>

LogoutEnds(r) ==
  /\ At(r, "leaving")
  /\ denied' = denied \cup {<<request[r].token, "refresh">>}
  /\ Finishes(r)
  /\ UNCHANGED <<account, resets, minted, attempts, time, overlapped, losses>>

\* An entry of the cache reaches its ttl or is evicted.
CacheForgets ==
  /\ losses < MaxCacheLosses /\ losses' = losses + 1
  /\ \/ \E d \in denied : denied' = denied \ {d} /\ UNCHANGED attempts
     \/ attempts > 0 /\ attempts' = 0 /\ UNCHANGED denied
  /\ UNCHANGED <<account, resets, minted, request, time, overlapped>>

-----------------------------------------------------------------------------
(* Requests with an access token *)

\* AuthGuard: the token is verified and not on the denylist.
Authenticate(r, n, purpose) ==
  /\ At(r, "idle") /\ <<n, "access">> \notin denied
  /\ Becomes(r, [Idle EXCEPT !.step = "checking", !.token = n, !.for = purpose])
  /\ UNCHANGED <<stored, minted, time>>

\* Its claim is compared with the row; row is what the check saw.
CheckClaim(r) ==
  /\ At(r, "checking")
  /\ IF minted[request[r].token].stamp < account.stamp
     THEN Finishes(r)
     ELSE Becomes(r, [request[r] EXCEPT !.step = "admitted", !.row = account])
  /\ UNCHANGED <<stored, minted, time>>

\* updateProfile: the row keeps its password, and RETURNING is read; a new address
\* revokes the token and signs another.  With the address unchanged it stands for
\* every handler that leaves the account alone.
UpdateProfile(r, emailChanged) ==
  /\ At(r, "admitted") /\ request[r].for = "profile"
  /\ IF emailChanged
     THEN Becomes(r, [request[r] EXCEPT !.step = "revoking", !.row = account])
     ELSE Finishes(r)
  /\ UNCHANGED <<stored, minted, time>>

\* changePassword: the row is read and the current password is right or a 401.
ChangePassword(r, right) ==
  /\ At(r, "admitted") /\ request[r].for = "password"
  /\ IF right
     THEN Becomes(r, [request[r] EXCEPT !.step = "hashing", !.row = account])
     ELSE Finishes(r)
  /\ UNCHANGED <<stored, minted, time>>

\* The new password is hashed, and new Date() is its time.
Hash(r) ==
  /\ At(r, "hashing") /\ time < MaxChanges
  /\ time' = time + 1
  /\ Becomes(r, [request[r] EXCEPT !.step = "changing", !.at = time'])
  /\ UNCHANGED <<stored, minted>>

\* UPDATE users SET password_hash, password_changed_at
PasswordWritten(r) ==
  /\ account' = [version |-> account.version + 1, stamp |-> request[r].at]
  /\ overlapped' = (overlapped \/ account.version # request[r].row.version)

ChangeWrites(r) ==
  /\ At(r, "changing") /\ request[r].for = "password"
  /\ PasswordWritten(r)
  /\ Becomes(r, [request[r] EXCEPT !.step = "revoking", !.row = account'])
  /\ UNCHANGED <<resets, minted, denied, attempts, time, losses>>

\* The token of the request is revoked, and a new access token is signed.
RevokeOwn(r) ==
  /\ At(r, "revoking")
  /\ denied' = denied \cup {<<request[r].token, "access">>}
  /\ Becomes(r, [request[r] EXCEPT !.step = "minting", !.pair = FALSE])
  /\ UNCHANGED <<account, resets, minted, attempts, time, overlapped, losses>>

-----------------------------------------------------------------------------
(* Password reset *)

\* sendResetToken: a token is stored and then sent; sending may fail.
SendResetToken(k) ==
  /\ Registered /\ resets[k] = "none"
  /\ resets' = [resets EXCEPT ![k] = "open"]
  /\ UNCHANGED <<account, minted, denied, attempts, request, time, overlapped, losses>>

\* resetPassword: the token is open.
ResetPassword(r, k) ==
  /\ At(r, "idle") /\ resets[k] = "open"
  /\ Becomes(r, [Idle EXCEPT !.step = "resetting", !.for = k])
  /\ UNCHANGED <<stored, minted, time>>

\* The user is found and its counter of attempts is read,
ResetReadsCount(r) ==
  /\ At(r, "resetting")
  /\ IF attempts >= MaxResetAttempts
     THEN Finishes(r)
     ELSE Becomes(r, [request[r] EXCEPT !.step = "counting", !.row = account,
                                                 !.at = attempts])
  /\ UNCHANGED <<stored, minted, time>>

\* and what was read plus one is written.
ResetCounts(r) ==
  /\ At(r, "counting")
  /\ attempts' = request[r].at + 1
  /\ Becomes(r, [request[r] EXCEPT !.step = "hashing", !.at = 0])
  /\ UNCHANGED <<account, resets, minted, denied, time, overlapped, losses>>

\* The transaction: the token is used and the password written, or neither.
ResetCommits(r, committed) ==
  /\ At(r, "changing") /\ request[r].for \in ResetTokens
  /\ IF committed
     THEN resets' = [resets EXCEPT ![request[r].for] = "used"] /\ PasswordWritten(r)
     ELSE UNCHANGED <<resets, account, overlapped>>
  /\ Finishes(r)
  /\ UNCHANGED <<minted, denied, attempts, time, losses>>

-----------------------------------------------------------------------------

AccountsNext ==
  \/ CacheForgets
  \/ \E k \in ResetTokens : SendResetToken(k)
  \/ \E r \in Requests :
       \/ Register(r) \/ InsertUser(r) \/ Login(r) \/ RefreshReads(r) \/ Mint(r)
       \/ LogoutEnds(r) \/ CheckClaim(r) \/ Hash(r) \/ ChangeWrites(r)
       \/ RevokeOwn(r) \/ ResetReadsCount(r) \/ ResetCounts(r)
       \/ \E n \in DOMAIN minted :
            \/ Refresh(r, n) \/ Logout(r, n)
            \/ \E purpose \in Purposes : Authenticate(r, n, purpose)
       \/ \E yes \in BOOLEAN :
            UpdateProfile(r, yes) \/ ChangePassword(r, yes) \/ ResetCommits(r, yes)
       \/ \E k \in ResetTokens : ResetPassword(r, k)

AccountsSpec == AccountsInit /\ [][AccountsNext]_accountVars

-----------------------------------------------------------------------------
(* Properties *)

\* A token signed from a row that had an older password is refused by every check that
\* reads the row after the change, however the login or refresh that signed it was
\* interleaved with the change; as long as no two changes of the password overlapped.
OldTokensRefused ==
  \A r \in Requests :
    At(r, "admitted") /\ ~overlapped =>
      minted[request[r].token].version >= request[r].row.version
=============================================================================
