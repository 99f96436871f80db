----------------------------- MODULE Api_proofs ------------------------------
(***************************************************************************)
(* What the API promises about its streams and its accounts, for any       *)
(* number of users, streams, sockets, tokens and concurrent requests.      *)
(*                                                                         *)
(* The rooms of the gateway and the status of the streams.  The invariant  *)
(* behind the rooms: a subscription that was allowed stays justified until *)
(* it is joined, and as long as the socket is in the room.  The one behind *)
(* the status: a request that is about to write has had its transition     *)
(* validated against the status it saw.                                    *)
(*                                                                         *)
(* The tokens: none of an older password is accepted by a check that reads *)
(* the row after the change, for changes that do not overlap.  The         *)
(* invariant behind it: a row that was read, and the claim of every token, *)
(* agrees with the account or is older in both its version and its stamp.  *)
(*                                                                         *)
(* The bounds of the account: every password change that is on its way has *)
(* taken a time of its own, so the version is never ahead of the clock.    *)
(***************************************************************************)
EXTENDS StreamsApi, Accounts, FiniteSetTheorems, TLAPS

-----------------------------------------------------------------------------
(* Streams, sockets and rooms *)

\* Why socket c may be in the room of s.
Justified(c, s) == \/ s \in seenPublic[c]
                   \/ streams[s] = Deleted
                   \/ streams[s] \in Rows /\ streams[s].owner = userId[c]

AllJustified ==
  \A c \in Sockets, s \in ApiStreams :
    s \in rooms[c] \/ <<s, TRUE>> \in asked[c] => Justified(c, s)

\* What a request is about to write was validated.
Validated ==
  \A p \in Patches :
    patch[p].step = "read" /\ patch[p].body.status # Same =>
      Allowed(patch[p].seen, patch[p].body.status)

StreamsInv == StreamsTypeOK /\ AllJustified /\ Validated

\* What a step does to the status of the streams: the body of StatusChangesLegal.
LegalStep ==
  \A s \in ApiStreams :
    StreamExists(s) /\ StreamExists(s)' /\ streams'[s].status # streams[s].status =>
      \/ Allowed(streams[s].status, streams'[s].status)
      \/ \E p \in Patches : patch[p] # NoPatch /\ patch[p].id = s /\ Overtaken(p)

\* A row keeps its owner until it is deleted, and a deleted one does not come back.
RowsKept ==
  \A s \in ApiStreams :
    /\ streams[s] = Deleted => streams'[s] = Deleted
    /\ streams[s] \in Rows => \/ streams'[s] = Deleted
                              \/ streams'[s] \in Rows /\ streams'[s].owner = streams[s].owner

-----------------------------------------------------------------------------

LEMMA RowsAreRows ==
  /\ NotCreated \notin Rows /\ Deleted \notin Rows /\ NotCreated # Deleted
  /\ \A x : x \in Rows => /\ x.owner \in ApiUsers /\ x.status \in Statuses
                          /\ x.visibility \in Visibilities
<1>1. \A x \in Rows : DOMAIN x = {"owner", "status", "visibility"}
  BY DEF Rows
<1>2. DOMAIN NotCreated = {"state"} /\ DOMAIN Deleted = {"state"}
  BY DEF NotCreated, Deleted
<1>3. NotCreated.state # Deleted.state
  BY DEF NotCreated, Deleted
<1>4. "state" \notin {"owner", "status", "visibility"}
  OBVIOUS
<1> QED BY <1>1, <1>2, <1>3, <1>4 DEF Rows

\* A stream that exists is a row.
LEMMA ExistsIsRow ==
  ASSUME StreamsTypeOK, NEW s \in ApiStreams
  PROVE  StreamExists(s) <=> streams[s] \in Rows
  BY RowsAreRows DEF StreamsTypeOK, StreamExists

\* The history only grows, and has what is public under the eyes of an open socket.
LEMMA WitnessedGrows ==
  ASSUME StreamsTypeOK, Witnessed
  PROVE  /\ seenPublic' \in [Sockets -> SUBSET ApiStreams]
         /\ \A c \in Sockets : seenPublic[c] \subseteq seenPublic'[c]
         /\ \A c \in Sockets, s \in ApiStreams :
              socket'[c] = "open" /\ IsPublic(s) => s \in seenPublic'[c]
  BY DEF StreamsTypeOK, Witnessed

\* Requests leave the justifications of the sockets alone.
LEMMA RequestsKeepRooms ==
  ASSUME StreamsInv, Witnessed, RowsKept, UNCHANGED socketVars
  PROVE  AllJustified'
<1> SUFFICES ASSUME NEW c \in Sockets, NEW s \in ApiStreams,
                    s \in rooms'[c] \/ <<s, TRUE>> \in asked'[c]
             PROVE  Justified(c, s)'
  BY DEF AllJustified
<1>1. Justified(c, s)
  BY DEF StreamsInv, AllJustified, socketVars
<1>2. CASE s \in seenPublic[c]
  BY <1>2, WitnessedGrows DEF Justified, StreamsInv
<1>3. CASE streams[s] = Deleted
  BY <1>3 DEF Justified, RowsKept
<1>4. CASE streams[s] \in Rows /\ streams[s].owner = userId[c]
  BY <1>4 DEF Justified, RowsKept, socketVars
<1> QED BY <1>1, <1>2, <1>3, <1>4 DEF Justified

\* What is common to the steps of requests.
LEMMA PatchMoves ==
  ASSUME StreamsInv, Witnessed, UNCHANGED socketVars, RowsKept,
         streams' \in [ApiStreams -> Rows \cup {NotCreated, Deleted}],
         patch' \in [Patches -> PatchSteps],
         patches' \in 0..MaxPatches, dbFailures' \in 0..MaxDbFailures,
         Validated'
  PROVE  StreamsInv'
<1>1. StreamsTypeOK'
  BY WitnessedGrows DEF StreamsInv, StreamsTypeOK, socketVars
<1> QED BY <1>1, RequestsKeepRooms DEF StreamsInv

\* A request takes a step of its own: the others keep what they had validated.
LEMMA GoesOn ==
  ASSUME StreamsInv, NEW p \in Patches, NEW next \in PatchSteps, GoesOnTo(p, next),
         next.step = "read" /\ next.body.status # Same => Allowed(next.seen, next.body.status)
  PROVE  /\ patch' \in [Patches -> PatchSteps] /\ Validated' /\ patch'[p] = next
         /\ \A q \in Patches \ {p} : patch'[q] = patch[q]
<1>1. /\ patch' \in [Patches -> PatchSteps] /\ patch'[p] = next
      /\ \A q \in Patches \ {p} : patch'[q] = patch[q]
  BY DEF GoesOnTo, StreamsInv, StreamsTypeOK
<1> QED BY <1>1 DEF StreamsInv, Validated

LEMMA NoPatchStep == NoPatch \in PatchSteps /\ NoPatch.step = "none"
  BY DEF NoPatch, PatchSteps

\* The streams stay as they are.
LEMMA StreamsStay ==
  ASSUME StreamsInv, UNCHANGED streams
  PROVE  /\ RowsKept /\ LegalStep
         /\ streams' \in [ApiStreams -> Rows \cup {NotCreated, Deleted}]
  BY DEF StreamsInv, StreamsTypeOK, RowsKept, LegalStep

\* A request that is past the guard has a stream, a body and what it saw.
LEMMA PatchFields ==
  ASSUME StreamsInv, NEW p \in Patches, patch[p].step \in {"owned", "read", "written"}
  PROVE  /\ patch[p] \in [step : {"owned", "read", "written"}, id : ApiStreams,
                          body : PatchBodies, seen : Statuses]
         /\ patch[p].id \in ApiStreams /\ patch[p].body \in PatchBodies
         /\ patch[p].seen \in Statuses /\ patch[p] # NoPatch
  BY NoPatchStep DEF StreamsInv, StreamsTypeOK, PatchSteps, NoPatch

-----------------------------------------------------------------------------
(* Requests *)

LEMMA InvCreate ==
  ASSUME StreamsInv, Witnessed, NEW s \in ApiStreams, NEW u \in ApiUsers,
         NEW v \in Visibilities, CreateStream(s, u, v)
  PROVE  StreamsInv' /\ LegalStep
<1> DEFINE row == [owner |-> u, status |-> "inactive", visibility |-> v]
<1>1. row \in Rows
  BY DEF Rows, Statuses
<1>2. /\ streams' = [streams EXCEPT ![s] = row] /\ streams[s] = NotCreated
      /\ UNCHANGED <<patch, socketVars, patches, dbFailures>>
  BY DEF CreateStream, apiSpent
<1>3. streams' \in [ApiStreams -> Rows \cup {NotCreated, Deleted}]
  BY <1>1, <1>2 DEF StreamsInv, StreamsTypeOK
<1>4. \A x \in ApiStreams \ {s} : streams'[x] = streams[x]
  BY <1>2 DEF StreamsInv, StreamsTypeOK
<1>5. RowsKept
  BY <1>2, <1>4, RowsAreRows DEF RowsKept
<1>6. LegalStep
  BY <1>2, <1>4 DEF LegalStep, StreamExists
<1>7. Validated'
  BY <1>2 DEF StreamsInv, Validated
<1> QED BY <1>2, <1>3, <1>5, <1>6, <1>7, PatchMoves DEF StreamsInv, StreamsTypeOK

LEMMA InvArrives ==
  ASSUME StreamsInv, Witnessed, NEW p \in Patches, NEW u \in ApiUsers, NEW s \in ApiStreams,
         NEW body \in PatchBodies, PatchArrives(p, u, s, body)
  PROVE  StreamsInv' /\ LegalStep
<1> DEFINE next == [step |-> "owned", id |-> s, body |-> body, seen |-> "inactive"]
<1>1. next \in PatchSteps /\ next.step = "owned"
  BY DEF PatchSteps, Statuses
<1>2. patch' \in [Patches -> PatchSteps] /\ Validated'
  BY <1>1, GoesOn DEF PatchArrives
<1>3. patches' \in 0..MaxPatches /\ dbFailures' = dbFailures
      /\ UNCHANGED <<streams, socketVars>>
  BY ApiBoundsAssumption DEF PatchArrives, StreamsInv, StreamsTypeOK
<1> QED BY <1>2, <1>3, StreamsStay, PatchMoves DEF StreamsInv, StreamsTypeOK

\* update validates the transition against the row it has found.
LEMMA InvReads ==
  ASSUME StreamsInv, Witnessed, NEW p \in Patches, PatchReads(p)
  PROVE  StreamsInv' /\ LegalStep
<1> DEFINE s == patch[p].id
           new == patch[p].body.status
           read == [patch[p] EXCEPT !.step = "read", !.seen = streams[s].status]
<1>1. patch[p].step = "owned" /\ UNCHANGED <<streams, socketVars, patches, dbFailures>>
  BY DEF PatchReads, apiSpent
<1>2. patch' \in [Patches -> PatchSteps] /\ Validated'
  <2>1. CASE Valid(s, new)
    <3>1. streams[s].status \in Statuses
      BY <1>1, <2>1, PatchFields, ExistsIsRow, RowsAreRows DEF Valid, StreamsInv
    <3>2. /\ read \in PatchSteps /\ read.seen = streams[s].status
          /\ read.body = patch[p].body
      BY <1>1, <3>1, PatchFields DEF PatchSteps
    <3>3. read.body.status # Same => Allowed(read.seen, read.body.status)
      BY <2>1, <3>2 DEF Valid
    <3>4. GoesOnTo(p, read)
      BY <2>1 DEF PatchReads
    <3> QED BY <3>2, <3>3, <3>4, GoesOn
  <2>2. CASE ~ Valid(s, new)
    BY <2>2, NoPatchStep, GoesOn DEF PatchReads
  <2> QED BY <2>1, <2>2
<1> QED BY <1>1, <1>2, StreamsStay, PatchMoves DEF StreamsInv, StreamsTypeOK

\* The UPDATE: an allowed transition, or one that was overtaken.
LEMMA WritesRowStep ==
  ASSUME StreamsInv, NEW p \in Patches, patch[p].step = "read", WritesRow(p),
         patch'[p].step # "read"
  PROVE  /\ streams' \in [ApiStreams -> Rows \cup {NotCreated, Deleted}]
         /\ RowsKept /\ LegalStep
<1> DEFINE s == patch[p].id
           body == patch[p].body
<1>1. /\ s \in ApiStreams /\ body \in PatchBodies /\ patch[p] # NoPatch
      /\ patch[p].seen \in Statuses
  BY PatchFields
<1>2. CASE ~ StreamExists(s)
  BY <1>2, StreamsStay DEF WritesRow
<1>3. CASE StreamExists(s)
  <2> DEFINE row == Updated(streams[s], body)
  <2>1. streams' = [streams EXCEPT ![s] = row]
    BY <1>3 DEF WritesRow
  <2>2. /\ streams[s] \in Rows /\ streams[s].status \in Statuses
        /\ streams[s].visibility \in Visibilities
    BY <1>1, <1>3, ExistsIsRow, RowsAreRows DEF StreamsInv
  <2>3. (body.status = Same \/ body.status \in Statuses)
        /\ (body.visibility = Same \/ body.visibility \in Visibilities)
    BY <1>1 DEF PatchBodies
  <2>4. row \in Rows /\ row.owner = streams[s].owner
    BY <2>2, <2>3 DEF Updated, Rows
  <2>5. body.status # Same => row.status = body.status
    BY <2>2 DEF Updated, Rows
  <2>6. body.status = Same => row.status = streams[s].status
    BY <2>2 DEF Updated, Rows
  <2>7. streams'[s] = row /\ \A x \in ApiStreams \ {s} : streams'[x] = streams[x]
    BY <1>1, <2>1 DEF StreamsInv, StreamsTypeOK
  <2>8. streams' \in [ApiStreams -> Rows \cup {NotCreated, Deleted}]
    BY <2>1, <2>4 DEF StreamsInv, StreamsTypeOK
  <2>9. RowsKept
    BY <2>2, <2>4, <2>7, RowsAreRows DEF RowsKept
  <2>10. row.status # streams[s].status =>
           Allowed(streams[s].status, row.status) \/ Overtaken(p)
    <3>1. CASE patch[p].seen = streams[s].status
      BY <2>5, <2>6, <3>1 DEF StreamsInv, Validated
    <3>2. CASE patch[p].seen # streams[s].status
      BY <1>3, <3>2 DEF Overtaken
    <3> QED BY <3>1, <3>2
  <2>11. LegalStep
    BY <1>1, <2>7, <2>10 DEF LegalStep
  <2> QED BY <2>8, <2>9, <2>11
<1> QED BY <1>2, <1>3

LEMMA InvWrites ==
  ASSUME StreamsInv, Witnessed, NEW p \in Patches, PatchWrites(p)
  PROVE  StreamsInv' /\ LegalStep
<1> DEFINE written == [patch[p] EXCEPT !.step = "written"]
<1>1. patch[p].step = "read" /\ WritesRow(p) /\ UNCHANGED <<socketVars, patches, dbFailures>>
  BY DEF PatchWrites, apiSpent
<1>2. written \in PatchSteps /\ written.step = "written"
  BY <1>1, PatchFields DEF PatchSteps
<1>3. /\ patch' \in [Patches -> PatchSteps] /\ Validated' /\ patch'[p].step # "read"
  <2>1. CASE GoesOnTo(p, written)
    BY <1>2, <2>1, GoesOn
  <2>2. CASE GoesOnTo(p, NoPatch)
    BY <2>2, NoPatchStep, GoesOn
  <2> QED BY <2>1, <2>2 DEF PatchWrites
<1> QED BY <1>1, <1>3, WritesRowStep, PatchMoves DEF StreamsInv, StreamsTypeOK

LEMMA InvFails ==
  ASSUME StreamsInv, Witnessed, NEW p \in Patches, NEW applied \in BOOLEAN,
         PatchFails(p, applied)
  PROVE  StreamsInv' /\ LegalStep
<1>1. /\ patch[p].step = "read" /\ UNCHANGED <<socketVars, patches>>
      /\ dbFailures' \in 0..MaxDbFailures
  BY ApiBoundsAssumption DEF PatchFails, StreamsInv, StreamsTypeOK
<1>2. /\ patch' \in [Patches -> PatchSteps] /\ Validated' /\ patch'[p].step # "read"
  BY NoPatchStep, GoesOn DEF PatchFails
<1>3. /\ streams' \in [ApiStreams -> Rows \cup {NotCreated, Deleted}]
      /\ RowsKept /\ LegalStep
  BY <1>1, <1>2, WritesRowStep, StreamsStay DEF PatchFails
<1> QED BY <1>1, <1>2, <1>3, PatchMoves DEF StreamsInv, StreamsTypeOK

LEMMA InvAnnounces ==
  ASSUME StreamsInv, Witnessed, NEW p \in Patches, PatchAnnounces(p)
  PROVE  StreamsInv' /\ LegalStep
<1>1. patch' \in [Patches -> PatchSteps] /\ Validated'
  BY NoPatchStep, GoesOn DEF PatchAnnounces
<1> QED BY <1>1, StreamsStay, PatchMoves DEF PatchAnnounces, apiSpent, StreamsInv,
           StreamsTypeOK

LEMMA InvDeleteArrives ==
  ASSUME StreamsInv, Witnessed, NEW p \in Patches, NEW u \in ApiUsers, NEW s \in ApiStreams,
         DeleteArrives(p, u, s)
  PROVE  StreamsInv' /\ LegalStep
<1> DEFINE next == [step |-> "deleting", id |-> s]
<1>1. next \in PatchSteps /\ next.step = "deleting"
  BY DEF PatchSteps
<1>2. patch' \in [Patches -> PatchSteps] /\ Validated'
  BY <1>1, GoesOn DEF DeleteArrives
<1> QED BY <1>2, StreamsStay, PatchMoves DEF DeleteArrives, apiSpent, StreamsInv,
           StreamsTypeOK

LEMMA InvDelete ==
  ASSUME StreamsInv, Witnessed, NEW p \in Patches, NEW refused \in BOOLEAN,
         DeleteStream(p, refused)
  PROVE  StreamsInv' /\ LegalStep
<1> DEFINE s == patch[p].id
<1>1. patch' \in [Patches -> PatchSteps] /\ Validated'
  BY NoPatchStep, GoesOn DEF DeleteStream
<1>2. s \in ApiStreams
  BY NoPatchStep DEF DeleteStream, StreamsInv, StreamsTypeOK, PatchSteps
<1>3. CASE refused
  BY <1>1, <1>3, StreamsStay, PatchMoves DEF DeleteStream, apiSpent, StreamsInv,
     StreamsTypeOK
<1>4. CASE ~ refused
  <2>1. streams' = [streams EXCEPT ![s] = Deleted]
    BY <1>4 DEF DeleteStream
  <2>2. streams'[s] = Deleted /\ \A x \in ApiStreams \ {s} : streams'[x] = streams[x]
    BY <1>2, <2>1 DEF StreamsInv, StreamsTypeOK
  <2>3. RowsKept
    BY <2>2 DEF RowsKept
  <2>4. LegalStep
    BY <2>2 DEF LegalStep, StreamExists
  <2>5. streams' \in [ApiStreams -> Rows \cup {NotCreated, Deleted}]
    BY <2>1 DEF StreamsInv, StreamsTypeOK
  <2> QED BY <1>1, <2>3, <2>4, <2>5, PatchMoves DEF DeleteStream, apiSpent, StreamsInv,
             StreamsTypeOK
<1> QED BY <1>3, <1>4

-----------------------------------------------------------------------------
(* Sockets *)

\* What is common to the steps of sockets: only subscriptions that are justified are
\* added, and nobody's user changes under a justification.
LEMMA SocketStep ==
  ASSUME StreamsInv, Witnessed, UNCHANGED <<streams, patch, apiSpent>>,
         socket' \in [Sockets -> {"new", "authenticating", "open", "closed"}],
         userId' \in [Sockets -> ApiUsers \cup {NoOne}],
         rooms' \in [Sockets -> SUBSET ApiStreams],
         asked' \in [Sockets -> SUBSET (ApiStreams \X BOOLEAN)],
         gauge' \in Int,
         \A c \in Sockets : userId[c] # NoOne => userId'[c] = userId[c],
         \A c \in Sockets, s \in ApiStreams :
           s \in rooms'[c] \/ <<s, TRUE>> \in asked'[c] =>
             \/ s \in rooms[c] \/ <<s, TRUE>> \in asked[c]
             \/ socket'[c] = "open" /\ IsPublic(s)
             \/ OwnsStream(userId'[c], s)
  PROVE  StreamsInv' /\ LegalStep
<1>1. StreamsTypeOK' /\ Validated' /\ LegalStep
  BY WitnessedGrows, StreamsStay DEF StreamsInv, StreamsTypeOK, Validated, apiSpent
<1>2. ASSUME NEW c \in Sockets, NEW s \in ApiStreams,
             s \in rooms'[c] \/ <<s, TRUE>> \in asked'[c]
      PROVE  Justified(c, s)'
  <2>1. CASE s \in rooms[c] \/ <<s, TRUE>> \in asked[c]
    <3>1. Justified(c, s)
      BY <2>1 DEF StreamsInv, AllJustified
    <3>2. streams[s] \in Rows /\ streams[s].owner = userId[c] => userId'[c] = userId[c]
      BY NoOneAssumption, RowsAreRows
    <3> QED BY <3>1, <3>2, WitnessedGrows DEF Justified, StreamsInv
  <2>2. CASE socket'[c] = "open" /\ IsPublic(s)
    BY <2>2, WitnessedGrows DEF Justified, StreamsInv
  <2>3. CASE OwnsStream(userId'[c], s)
    BY <2>3, ExistsIsRow DEF OwnsStream, Justified, StreamsInv
  <2> QED BY <1>2, <2>1, <2>2, <2>3
<1> QED BY <1>1, <1>2 DEF StreamsInv, AllJustified

LEMMA InvConnect ==
  ASSUME StreamsInv, Witnessed, NEW c \in Sockets, Connect(c)
  PROVE  StreamsInv' /\ LegalStep
<1>1. socket' \in [Sockets -> {"new", "authenticating", "open", "closed"}]
  BY DEF Connect, StreamsInv, StreamsTypeOK
<1> QED BY <1>1, SocketStep DEF Connect, StreamsInv, StreamsTypeOK

LEMMA InvAuthenticated ==
  ASSUME StreamsInv, Witnessed, NEW c \in Sockets, NEW u \in ApiUsers, Authenticated(c, u)
  PROVE  StreamsInv' /\ LegalStep
<1>1. /\ socket' \in [Sockets -> {"new", "authenticating", "open", "closed"}]
      /\ userId' \in [Sockets -> ApiUsers \cup {NoOne}] /\ gauge' \in Int
  BY DEF Authenticated, StreamsInv, StreamsTypeOK
<1>2. \A d \in Sockets : userId[d] # NoOne => userId'[d] = userId[d]
  BY DEF Authenticated, StreamsInv, StreamsTypeOK
<1> QED BY <1>1, <1>2, SocketStep DEF Authenticated, StreamsInv, StreamsTypeOK

LEMMA InvDisconnects ==
  ASSUME StreamsInv, Witnessed, NEW c \in Sockets, Disconnects(c)
  PROVE  StreamsInv' /\ LegalStep
<1>1. /\ socket' \in [Sockets -> {"new", "authenticating", "open", "closed"}]
      /\ rooms' \in [Sockets -> SUBSET ApiStreams] /\ gauge' \in Int
      /\ \A d \in Sockets : rooms'[d] \subseteq rooms[d]
  BY DEF Disconnects, StreamsInv, StreamsTypeOK
<1> QED BY <1>1, SocketStep DEF Disconnects, StreamsInv, StreamsTypeOK

\* A subscription is allowed to the owner, or because the stream is public now.
LEMMA InvAsks ==
  ASSUME StreamsInv, Witnessed, NEW c \in Sockets, NEW s \in ApiStreams, SubscribeAsks(c, s)
  PROVE  StreamsInv' /\ LegalStep
<1> DEFINE may == CanSubscribe(userId[c], s)
<1>1. /\ socket[c] = "open" /\ UNCHANGED <<streams, patch, socket, userId, rooms, gauge, apiSpent>>
      /\ asked' = [asked EXCEPT ![c] = @ \cup {<<s, may>>}]
  BY DEF SubscribeAsks
<1>2. may \in BOOLEAN
  BY Zenon DEF CanSubscribe, OwnsStream, IsPublic, StreamExists
<1>3. asked' \in [Sockets -> SUBSET (ApiStreams \X BOOLEAN)]
  <2> HIDE DEF may
  <2> QED BY <1>1, <1>2 DEF StreamsInv, StreamsTypeOK
<1>4. ASSUME NEW d \in Sockets, NEW x \in ApiStreams, <<x, TRUE>> \in asked'[d],
             <<x, TRUE>> \notin asked[d]
      PROVE  d = c /\ x = s /\ may
  <2> HIDE DEF may
  <2>1. d = c
    BY <1>1, <1>4 DEF StreamsInv, StreamsTypeOK
  <2>2. <<x, TRUE>> = <<s, may>>
    BY <1>1, <1>4, <2>1 DEF StreamsInv, StreamsTypeOK
  <2> QED BY <2>1, <2>2
<1>5. ASSUME NEW d \in Sockets, NEW x \in ApiStreams, <<x, TRUE>> \in asked'[d],
             <<x, TRUE>> \notin asked[d]
      PROVE  (socket'[d] = "open" /\ IsPublic(x)) \/ OwnsStream(userId'[d], x)
  BY <1>1, <1>4, <1>5 DEF CanSubscribe
<1> QED BY <1>1, <1>3, <1>5, SocketStep DEF StreamsInv, StreamsTypeOK

LEMMA InvJoins ==
  ASSUME StreamsInv, Witnessed, NEW c \in Sockets, NEW answer \in asked[c],
         SubscribeJoins(c, answer)
  PROVE  StreamsInv' /\ LegalStep
<1>1. answer \in ApiStreams \X BOOLEAN
  BY DEF StreamsInv, StreamsTypeOK
<1>2. /\ asked' \in [Sockets -> SUBSET (ApiStreams \X BOOLEAN)]
      /\ \A d \in Sockets : asked'[d] \subseteq asked[d]
  BY DEF SubscribeJoins, StreamsInv, StreamsTypeOK
<1>3. rooms' \in [Sockets -> SUBSET ApiStreams]
  BY <1>1 DEF SubscribeJoins, StreamsInv, StreamsTypeOK
<1>4. ASSUME NEW d \in Sockets, NEW x \in ApiStreams, x \in rooms'[d], x \notin rooms[d]
      PROVE  <<x, TRUE>> \in asked[d]
  <2>1. d = c /\ answer[2] /\ x = answer[1]
    BY <1>4 DEF SubscribeJoins, StreamsInv, StreamsTypeOK
  <2>2. PICK y \in ApiStreams, b \in BOOLEAN : answer = <<y, b>>
    BY <1>1
  <2>3. answer[1] = y /\ answer[2] = b
    BY <2>2
  <2>4. b = TRUE
    BY <2>1, <2>3, <2>2, Zenon
  <2>5. answer = <<x, TRUE>>
    BY <2>1, <2>2, <2>3, <2>4
  <2> QED BY <2>1, <2>5
<1> QED BY <1>2, <1>3, <1>4, SocketStep DEF SubscribeJoins, StreamsInv, StreamsTypeOK

LEMMA InvUnsubscribe ==
  ASSUME StreamsInv, Witnessed, NEW c \in Sockets, NEW s \in ApiStreams, Unsubscribe(c, s)
  PROVE  StreamsInv' /\ LegalStep
<1>1. /\ rooms' \in [Sockets -> SUBSET ApiStreams]
      /\ \A d \in Sockets : rooms'[d] \subseteq rooms[d]
  BY DEF Unsubscribe, StreamsInv, StreamsTypeOK
<1> QED BY <1>1, SocketStep DEF Unsubscribe, StreamsInv, StreamsTypeOK

-----------------------------------------------------------------------------

LEMMA StreamsStep ==
  ASSUME StreamsInv, StreamsNext
  PROVE  StreamsInv' /\ LegalStep
<1>1. Witnessed
  BY DEF StreamsNext
<1>2. CASE StreamRequests
  BY <1>1, <1>2, InvCreate, InvArrives, InvReads, InvWrites, InvFails, InvAnnounces,
     InvDeleteArrives, InvDelete DEF StreamRequests
<1>3. CASE Connections
  BY <1>1, <1>3, InvConnect, InvAuthenticated, InvDisconnects, InvAsks, InvJoins,
     InvUnsubscribe DEF Connections
<1> QED BY <1>2, <1>3 DEF StreamsNext

\* The invariant, for all values of the constants.
THEOREM StreamsInvariance == StreamsSpec => []StreamsInv
<1>1. StreamsInit => StreamsInv
  <2> SUFFICES ASSUME StreamsInit PROVE StreamsInv
    OBVIOUS
  <2>1. StreamsTypeOK
    BY NoPatchStep, ApiBoundsAssumption DEF StreamsInit, StreamsTypeOK
  <2> QED BY <2>1, NoPatchStep DEF StreamsInit, StreamsInv, AllJustified, Validated
<1>2. StreamsInv /\ [StreamsNext]_apiVars => StreamsInv'
  <2> SUFFICES ASSUME StreamsInv, [StreamsNext]_apiVars PROVE StreamsInv'
    OBVIOUS
  <2>1. CASE UNCHANGED apiVars
    BY <2>1 DEF apiVars, socketVars, apiSpent, StreamsInv, StreamsTypeOK, AllJustified,
                Justified, Validated
  <2> QED BY <2>1, StreamsStep
<1> QED BY <1>1, <1>2, PTL DEF StreamsSpec

\* handleSubscribe and canSubscribe: nobody is in the room of a private stream of
\* somebody else that was not public while the socket was open.
THEOREM RoomsAreAdmitted == StreamsSpec => []RoomsAdmitted
<1>1. StreamsInv => RoomsAdmitted
  BY DEF StreamsInv, AllJustified, Justified, RoomsAdmitted
<1> QED BY <1>1, StreamsInvariance, PTL

\* StreamsService.update: the status changes along validateStatusTransition, unless the
\* request was overtaken between its check and its write.
THEOREM StatusChangesAreLegal == StreamsSpec => StatusChangesLegal
<1>1. StreamsInv /\ [StreamsNext]_apiVars => [LegalStep]_apiVars
  BY StreamsStep
<1> QED BY <1>1, StreamsInvariance, PTL DEF StreamsSpec, StatusChangesLegal, LegalStep

-----------------------------------------------------------------------------
(* Accounts and tokens *)

RowRecords == [version : Nat, stamp : Nat]
TokenRecords == [version : Nat, stamp : Nat, refresh : BOOLEAN]
RequestRecords == [step : Steps, for : Purposes \cup ResetTokens, token : Nat,
                   row : RowRecords, at : Nat, pair : BOOLEAN]

\* The types, without the bounds.
AccountTypes ==
  /\ account \in RowRecords
  /\ resets \in [ResetTokens -> {"none", "open", "used"}]
  /\ minted \in Seq(TokenRecords)
  /\ attempts \in Nat
  /\ request \in [Requests -> RequestRecords]
  /\ time \in Nat
  /\ overlapped \in BOOLEAN

\* Before the registration there is nothing to sign, to check or to change.
NothingBefore ==
  ~ Registered => /\ minted = <<>>
                  /\ \A k \in ResetTokens : resets[k] = "none"
                  /\ \A r \in Requests : request[r].step \in {"idle", "registering"}

\* x was read from the account: it agrees with it, or is older in both fields.
Sound(x) ==
  /\ x.version <= account.version
  /\ x.version = account.version => x.stamp = account.stamp
  /\ x.version < account.version => x.stamp < account.stamp

\* The steps that hold a row.
RowSteps == {"minting", "admitted", "hashing", "changing", "revoking", "counting"}

\* What request q holds.
Holds(q) ==
  /\ q.step \in RowSteps => Sound(q.row)
  /\ q.step \in {"checking", "admitted"} => q.token \in 1..Len(minted)
  /\ q.step = "admitted" => minted[q.token].version >= q.row.version
  /\ q.step = "changing" => q.row.stamp < q.at /\ q.at <= time

InStep ==
  /\ account.stamp <= time
  /\ \A n \in 1..Len(minted) : Sound(minted[n])
  /\ \A r \in Requests : Holds(request[r])

AccountsInv == AccountTypes /\ NothingBefore /\ (~ overlapped => InStep)

-----------------------------------------------------------------------------

LEMMA IdleHolds ==
  Idle \in RequestRecords /\ Idle.step = "idle" /\ Idle.row = NoAccount
  BY DEF Idle, RequestRecords, RowRecords, NoAccount, Steps, Purposes

LEMMA SoundStamp ==
  ASSUME AccountTypes, NEW x, x.version \in Nat, x.stamp \in Nat, Sound(x)
  PROVE  x.stamp <= account.stamp
  BY DEF AccountTypes, RowRecords, Sound

LEMMA AccountIsSound == AccountTypes => Sound(account) /\ account.version \in Nat
                                                       /\ account.stamp \in Nat
  BY DEF AccountTypes, RowRecords, Sound

LEMMA RowFields ==
  ASSUME AccountTypes, NEW r \in Requests
  PROVE  /\ request[r] \in RequestRecords /\ request[r].row \in RowRecords
         /\ request[r].row.version \in Nat /\ request[r].row.stamp \in Nat
         /\ request[r].at \in Nat /\ request[r].token \in Nat
  BY DEF AccountTypes, RequestRecords, RowRecords

LEMMA TokenFields ==
  ASSUME AccountTypes
  PROVE  /\ DOMAIN minted = 1..Len(minted) /\ Len(minted) \in Nat
         /\ \A n \in 1..Len(minted) :
              /\ n \in Nat /\ minted[n] \in TokenRecords
              /\ minted[n].version \in Nat /\ minted[n].stamp \in Nat
<1>1. minted \in Seq(TokenRecords)
  BY DEF AccountTypes
<1>2. \A n \in 1..Len(minted) : minted[n] \in TokenRecords
  BY <1>1
<1> QED BY <1>1, <1>2 DEF TokenRecords

\* Only request r goes on.
Moves(r) == /\ request' \in [Requests -> RequestRecords]
            /\ \A q \in Requests \ {r} : request'[q] = request[q]

LEMMA BecomesMoves ==
  ASSUME AccountsInv, NEW r \in Requests, NEW next \in RequestRecords, Becomes(r, next)
  PROVE  Moves(r) /\ request'[r] = next
  BY DEF Becomes, Moves, AccountsInv, AccountTypes

\* What a step of a request that does not touch the account has to show.
Aside == /\ UNCHANGED <<account, minted, overlapped>>
         /\ attempts' \in Nat
         /\ resets' \in [ResetTokens -> {"none", "open", "used"}]

LEMMA StoredAside ==
  ASSUME AccountsInv, UNCHANGED <<account, minted, overlapped, resets, attempts>>
  PROVE  Aside
  BY DEF Aside, AccountsInv, AccountTypes

\* A request goes on; the account and the tokens stay as they are.
LEMMA RequestMoves ==
  ASSUME AccountsInv, NEW r \in Requests, Moves(r), Aside,
         time' \in Nat, time <= time',
         ~ Registered => request'[r].step \in {"idle", "registering"} /\ resets' = resets,
         ~ overlapped => Holds(request[r])'
  PROVE  AccountsInv'
<1>1. AccountTypes'
  BY DEF AccountsInv, AccountTypes, Aside, Moves
<1>2. NothingBefore'
  BY DEF AccountsInv, NothingBefore, Registered, Aside, Moves
<1>3. ASSUME ~ overlapped
      PROVE  InStep'
  <2>1. account'.stamp <= time'
    BY <1>3, AccountIsSound DEF AccountsInv, InStep, AccountTypes, Aside
  <2>2. \A n \in 1..Len(minted') : Sound(minted[n])'
    BY <1>3 DEF AccountsInv, InStep, Sound, Aside
  <2>3. ASSUME NEW q \in Requests \ {r}
        PROVE  Holds(request[q])'
    <3>1. request[q].at \in Nat /\ time \in Nat
      BY RowFields DEF AccountsInv, AccountTypes
    <3>2. Holds(request[q]) /\ request'[q] = request[q]
      BY <1>3 DEF AccountsInv, InStep, Moves
    <3> QED BY <3>1, <3>2 DEF Holds, Sound, Aside
  <2>4. \A q \in Requests : Holds(request[q])'
    BY <1>3, <2>3
  <2> QED BY <2>1, <2>2, <2>4 DEF InStep
<1> QED BY <1>1, <1>2, <1>3 DEF AccountsInv, Aside

\* A request ends.
LEMMA RequestEnds ==
  ASSUME AccountsInv, NEW r \in Requests, Finishes(r), Aside, UNCHANGED <<resets, time>>
  PROVE  AccountsInv'
<1>1. Moves(r) /\ request'[r] = Idle
  BY IdleHolds, BecomesMoves DEF Finishes
<1>2. Holds(request[r])'
  BY <1>1, IdleHolds DEF Holds, RowSteps
<1>3. time \in Nat
  BY DEF AccountsInv, AccountTypes
<1> QED BY <1>1, <1>2, <1>3, IdleHolds, RequestMoves

\* A request reads the account, or hands its row on.
LEMMA ReadsRow ==
  ASSUME AccountsInv, NEW r \in Requests, Moves(r), Aside, UNCHANGED <<resets, time>>,
         Registered, request'[r].step \in {"minting", "hashing", "revoking", "counting"},
         \/ request'[r].row = account
         \/ /\ request[r].step \in {"revoking", "counting"}
            /\ request'[r].row = request[r].row
  PROVE  AccountsInv'
<1>1. ASSUME ~ overlapped
      PROVE  Holds(request[r])'
  <2>1. Sound(account)
    BY AccountIsSound DEF AccountsInv
  <2>2. request[r].step \in {"revoking", "counting"} => Sound(request[r].row)
    BY <1>1 DEF AccountsInv, InStep, Holds, RowSteps
  <2>3. Sound(request[r].row)'
    BY <2>1, <2>2 DEF Sound, Aside
  <2> QED BY <2>3 DEF Holds
<1>2. time \in Nat
  BY DEF AccountsInv, AccountTypes
<1> QED BY <1>1, <1>2, RequestMoves

\* A request goes on that holds no row and no checked token.
LEMMA HoldsNothing ==
  ASSUME AccountsInv, NEW r \in Requests, Moves(r), Aside, UNCHANGED <<resets, time>>,
         Registered, request'[r].step \in {"reading", "leaving", "resetting"}
  PROVE  AccountsInv'
<1>1. Holds(request[r])'
  BY DEF Holds, RowSteps
<1>2. time \in Nat
  BY DEF AccountsInv, AccountTypes
<1> QED BY <1>1, <1>2, RequestMoves

\* A request that is under way, a token or a reset token: the user has registered.
LEMMA HasRegistered ==
  ASSUME AccountsInv
  PROVE  /\ \A r \in Requests : request[r].step \notin {"idle", "registering"} => Registered
         /\ \A n \in 1..Len(minted) : Registered
         /\ \A k \in ResetTokens : resets[k] # "none" => Registered
  BY DEF AccountsInv, NothingBefore

-----------------------------------------------------------------------------
(* Tokens *)

LEMMA InvMint ==
  ASSUME AccountsInv, NEW r \in Requests, Mint(r)
  PROVE  AccountsInv'
<1> DEFINE new == [version |-> request[r].row.version, stamp |-> request[r].row.stamp,
                   refresh |-> request[r].pair]
<1>1. /\ minted' = Append(minted, new) /\ At(r, "minting")
      /\ UNCHANGED <<account, resets, attempts, overlapped, time>>
      /\ request' = [request EXCEPT ![r] = Idle]
  BY DEF Mint, StampOf, stored, Finishes, Becomes
<1>2. new \in TokenRecords /\ minted \in Seq(TokenRecords)
  BY DEF AccountsInv, AccountTypes, RequestRecords, RowRecords, TokenRecords
<1>3. /\ minted' \in Seq(TokenRecords) /\ Len(minted') = Len(minted) + 1
      /\ \A n \in 1..Len(minted) : minted'[n] = minted[n]
      /\ minted'[Len(minted) + 1] = new /\ Len(minted) \in Nat
  BY <1>1, <1>2
<1>4. request'[r] = Idle /\ Moves(r)
  BY <1>1, IdleHolds, BecomesMoves DEF Becomes
<1>5. AccountTypes'
  BY <1>1, <1>3, <1>4 DEF AccountsInv, AccountTypes, Moves
<1>6. NothingBefore'
  BY <1>1 DEF AccountsInv, NothingBefore, Registered, At
<1>7. ASSUME ~ overlapped
      PROVE  InStep'
  <2>1. Sound(new)
    BY <1>1, <1>7 DEF AccountsInv, InStep, Holds, RowSteps, At, Sound
  <2>2. \A n \in 1..Len(minted') : n \in 1..Len(minted) \/ n = Len(minted) + 1
    BY <1>3
  <2>3. \A n \in 1..Len(minted') : Sound(minted[n])'
    BY <1>1, <1>3, <1>7, <2>1, <2>2 DEF AccountsInv, InStep, Sound
  <2>4. ASSUME NEW q \in Requests \ {r}
        PROVE  Holds(request[q])'
    <3>1. Holds(request[q]) /\ request'[q] = request[q]
      BY <1>4, <1>7 DEF AccountsInv, InStep, Moves
    <3> QED BY <1>1, <1>3, <3>1 DEF Holds, Sound
  <2>5. Holds(request[r])'
    BY <1>4, IdleHolds DEF Holds, RowSteps
  <2>6. \A q \in Requests : Holds(request[q])'
    BY <2>4, <2>5
  <2> QED BY <1>1, <1>7, <2>3, <2>6 DEF AccountsInv, InStep
<1> QED BY <1>1, <1>5, <1>6, <1>7 DEF AccountsInv

LEMMA InvRegister ==
  ASSUME AccountsInv, NEW r \in Requests, Register(r)
  PROVE  AccountsInv'
<1> DEFINE next == [Idle EXCEPT !.step = "registering"]
<1>1. next \in RequestRecords /\ next.step = "registering"
  BY IdleHolds DEF RequestRecords, Steps
<1>2. Becomes(r, next) /\ Aside /\ UNCHANGED <<resets, time>>
  BY StoredAside DEF Register, stored
<1>3. Moves(r) /\ request'[r] = next
  BY <1>1, <1>2, BecomesMoves
<1>4. Holds(request[r])'
  BY <1>1, <1>3 DEF Holds, RowSteps
<1>5. time \in Nat /\ time <= time' /\ request'[r].step = "registering"
  BY <1>1, <1>2, <1>3 DEF AccountsInv, AccountTypes
<1>6. time' \in Nat /\ (~ Registered => request'[r].step \in {"idle", "registering"}
                                         /\ resets' = resets)
  BY <1>2, <1>5
<1> HIDE DEF next
<1> QED BY <1>2, <1>3, <1>4, <1>5, <1>6, RequestMoves

\* The first row: nobody holds another.
LEMMA InvInsert ==
  ASSUME AccountsInv, NEW r \in Requests, InsertUser(r)
  PROVE  AccountsInv'
<1>1. CASE Registered
  BY <1>1, RequestEnds, StoredAside DEF InsertUser
<1>2. CASE ~ Registered
  <2> DEFINE next == [Idle EXCEPT !.step = "minting", !.row = account', !.pair = TRUE]
  <2>1. /\ account' = [version |-> 1, stamp |-> time] /\ Becomes(r, next)
        /\ UNCHANGED <<resets, minted, attempts, time, overlapped>>
    BY <1>2 DEF InsertUser
  <2>2. /\ account' \in RowRecords /\ time \in Nat
        /\ account'.version = 1 /\ account'.stamp = time
    BY <2>1 DEF AccountsInv, AccountTypes, RowRecords
  <2>3. next \in RequestRecords /\ next.step = "minting" /\ next.row = account'
    BY <2>2, IdleHolds DEF RequestRecords, Steps
  <2>4. Moves(r) /\ request'[r] = next
    BY <2>1, <2>3, BecomesMoves
  <2>5. AccountTypes'
    BY <2>1, <2>2, <2>4 DEF AccountsInv, AccountTypes, Moves
  <2>6. NothingBefore'
    BY <2>2 DEF NothingBefore, Registered, NoAccount
  <2>7. minted = <<>> /\ \A q \in Requests : request[q].step \in {"idle", "registering"}
    BY <1>2 DEF AccountsInv, NothingBefore
  <2>8. Holds(request[r])'
    BY <2>2, <2>3, <2>4 DEF Holds, Sound
  <2>9. ASSUME NEW q \in Requests \ {r}
        PROVE  Holds(request[q])'
    BY <2>4, <2>7 DEF Holds, RowSteps, Moves
  <2>10. Len(minted') = 0
    BY <2>1, <2>7
  <2>11. InStep'
    BY <2>1, <2>2, <2>8, <2>9, <2>10 DEF InStep
  <2> QED BY <2>5, <2>6, <2>11 DEF AccountsInv
<1> QED BY <1>1, <1>2

LEMMA InvLogin ==
  ASSUME AccountsInv, NEW r \in Requests, Login(r)
  PROVE  AccountsInv'
<1> DEFINE next == [Idle EXCEPT !.step = "minting", !.row = account, !.pair = TRUE]
<1>1. next \in RequestRecords /\ next.step = "minting" /\ next.row = account
  BY IdleHolds DEF RequestRecords, Steps, Purposes, AccountsInv, AccountTypes
<1>2. Becomes(r, next) /\ Aside /\ UNCHANGED <<resets, time>>
  BY StoredAside DEF Login, stored
<1>3. Moves(r) /\ request'[r] = next
  BY <1>1, <1>2, BecomesMoves
<1>4. Registered
  BY HasRegistered DEF Login, stored, At, AccountsInv
<1> QED BY <1>1, <1>2, <1>3, <1>4, ReadsRow

LEMMA InvRefresh ==
  ASSUME AccountsInv, NEW r \in Requests, NEW n \in DOMAIN minted, Refresh(r, n)
  PROVE  AccountsInv'
<1> DEFINE next == [Idle EXCEPT !.step = "reading", !.token = n]
<1>1. next \in RequestRecords /\ next.step = "reading"
  BY IdleHolds, TokenFields DEF RequestRecords, Steps, Purposes, AccountsInv, AccountTypes
<1>2. Becomes(r, next) /\ Aside /\ UNCHANGED <<resets, time>>
  BY StoredAside DEF Refresh, stored
<1>3. Moves(r) /\ request'[r] = next
  BY <1>1, <1>2, BecomesMoves
<1>4. Registered
  BY HasRegistered, TokenFields DEF Refresh, stored, At, AccountsInv
<1> QED BY <1>1, <1>2, <1>3, <1>4, HoldsNothing

LEMMA InvRefreshReads ==
  ASSUME AccountsInv, NEW r \in Requests, RefreshReads(r)
  PROVE  AccountsInv'
<1> DEFINE next == [request[r] EXCEPT !.step = "minting", !.row = account, !.pair = TRUE]
<1>1. next \in RequestRecords /\ next.step = "minting" /\ next.row = account
  BY RowFields DEF RequestRecords, Steps, Purposes, AccountsInv, AccountTypes
<1>2. Becomes(r, next) /\ Aside /\ UNCHANGED <<resets, time>>
  BY StoredAside DEF RefreshReads, stored
<1>3. Moves(r) /\ request'[r] = next
  BY <1>1, <1>2, BecomesMoves
<1>4. Registered
  BY HasRegistered DEF RefreshReads, stored, At, AccountsInv
<1> QED BY <1>1, <1>2, <1>3, <1>4, ReadsRow

LEMMA InvLogout ==
  ASSUME AccountsInv, NEW r \in Requests, NEW n \in DOMAIN minted, Logout(r, n)
  PROVE  AccountsInv'
<1>1. Aside /\ UNCHANGED <<resets, time>>
  BY StoredAside DEF Logout
<1>2. CASE minted[n].refresh
  <2> DEFINE next == [Idle EXCEPT !.step = "leaving", !.token = n]
  <2>1. next \in RequestRecords /\ next.step = "leaving"
    BY IdleHolds, TokenFields DEF RequestRecords, Steps, AccountsInv
  <2>2. Moves(r) /\ request'[r] = next
    BY <1>2, <2>1, BecomesMoves DEF Logout
  <2>3. Registered
    BY HasRegistered, TokenFields DEF AccountsInv
  <2> QED BY <1>1, <2>1, <2>2, <2>3, HoldsNothing
<1>3. CASE ~ minted[n].refresh
  <2>1. UNCHANGED request
    BY <1>3 DEF Logout
  <2> QED BY <1>1, <2>1 DEF AccountsInv, AccountTypes, NothingBefore, Registered, InStep,
                            Holds, Sound, Aside
<1> QED BY <1>2, <1>3

\* No request moves.
LEMMA InvStored ==
  ASSUME AccountsInv, Aside, UNCHANGED <<request, time>>, ~ Registered => resets' = resets
  PROVE  AccountsInv'
  BY DEF AccountsInv, AccountTypes, NothingBefore, Registered, InStep, Holds, Sound, Aside

-----------------------------------------------------------------------------
(* Requests with an access token *)

LEMMA InvAuthenticate ==
  ASSUME AccountsInv, NEW r \in Requests, NEW n \in DOMAIN minted, NEW purpose \in Purposes,
         Authenticate(r, n, purpose)
  PROVE  AccountsInv'
<1> DEFINE next == [Idle EXCEPT !.step = "checking", !.token = n, !.for = purpose]
<1>1. n \in 1..Len(minted) /\ n \in Nat
  BY TokenFields DEF AccountsInv
<1>2. next \in RequestRecords /\ next.step = "checking" /\ next.token = n
  BY <1>1, IdleHolds DEF RequestRecords, Steps
<1>3. Becomes(r, next) /\ Aside /\ UNCHANGED <<resets, time>>
  BY StoredAside DEF Authenticate, stored
<1>4. Moves(r) /\ request'[r] = next
  BY <1>2, <1>3, BecomesMoves
<1>5. Holds(request[r])'
  BY <1>1, <1>2, <1>3, <1>4 DEF Holds, RowSteps, Aside
<1>6. Registered /\ time \in Nat
  BY <1>1, HasRegistered DEF AccountsInv, AccountTypes
<1> QED BY <1>3, <1>4, <1>5, <1>6, RequestMoves

\* The check: a token that is let through has the version of the row.
LEMMA InvCheck ==
  ASSUME AccountsInv, NEW r \in Requests, CheckClaim(r)
  PROVE  AccountsInv'
<1> DEFINE tok == request[r].token
           next == [request[r] EXCEPT !.step = "admitted", !.row = account]
<1>1. Aside /\ UNCHANGED <<resets, time>>
  BY StoredAside DEF CheckClaim, stored
<1>2. CASE minted[tok].stamp < account.stamp
  BY <1>1, <1>2, RequestEnds DEF CheckClaim
<1>3. CASE ~ (minted[tok].stamp < account.stamp)
  <2>1. Becomes(r, next) /\ request[r].step = "checking"
    BY <1>3 DEF CheckClaim, At
  <2>2. next \in RequestRecords /\ next.step = "admitted" /\ next.row = account
        /\ next.token = tok
    BY RowFields DEF RequestRecords, Steps, AccountsInv, AccountTypes
  <2>3. Moves(r) /\ request'[r] = next
    BY <2>1, <2>2, BecomesMoves
  <2>4. Registered /\ time \in Nat
    BY <2>1, HasRegistered DEF AccountsInv, AccountTypes
  <2>5. ASSUME ~ overlapped
        PROVE  Holds(request[r])'
    <3>1. tok \in 1..Len(minted) /\ Sound(minted[tok])
      BY <2>1, <2>5 DEF AccountsInv, InStep, Holds
    <3>2. /\ minted[tok].version \in Nat /\ minted[tok].stamp \in Nat
          /\ account.version \in Nat /\ account.stamp \in Nat
      BY <3>1, TokenFields, AccountIsSound DEF AccountsInv
    <3>3. minted[tok].version >= account.version
      BY <1>3, <3>1, <3>2 DEF Sound
    <3>4. Sound(account)
      BY AccountIsSound DEF AccountsInv
    <3>5. /\ request'[r].token = tok /\ request'[r].row = account
          /\ request'[r].step = "admitted"
      BY <2>2, <2>3
    <3>6. Sound(request[r].row)'
      BY <1>1, <3>4, <3>5 DEF Sound, Aside
    <3> QED BY <1>1, <3>1, <3>3, <3>5, <3>6 DEF Holds, Aside
  <2> QED BY <1>1, <2>3, <2>4, <2>5, RequestMoves
<1> QED BY <1>2, <1>3

LEMMA InvUpdateProfile ==
  ASSUME AccountsInv, NEW r \in Requests, NEW yes \in BOOLEAN, UpdateProfile(r, yes)
  PROVE  AccountsInv'
<1> DEFINE next == [request[r] EXCEPT !.step = "revoking", !.row = account]
<1>1. Aside /\ UNCHANGED <<resets, time>>
  BY StoredAside DEF UpdateProfile, stored
<1>2. CASE yes
  <2>1. next \in RequestRecords /\ next.step = "revoking" /\ next.row = account
    BY RowFields DEF RequestRecords, Steps, AccountsInv, AccountTypes
  <2>2. Moves(r) /\ request'[r] = next
    BY <1>2, <2>1, BecomesMoves DEF UpdateProfile
  <2>3. Registered
    BY HasRegistered DEF UpdateProfile, At
  <2> QED BY <1>1, <2>1, <2>2, <2>3, ReadsRow
<1>3. CASE ~ yes
  BY <1>1, <1>3, RequestEnds DEF UpdateProfile
<1> QED BY <1>2, <1>3

LEMMA InvChangePassword ==
  ASSUME AccountsInv, NEW r \in Requests, NEW yes \in BOOLEAN, ChangePassword(r, yes)
  PROVE  AccountsInv'
<1> DEFINE next == [request[r] EXCEPT !.step = "hashing", !.row = account]
<1>1. Aside /\ UNCHANGED <<resets, time>>
  BY StoredAside DEF ChangePassword, stored
<1>2. CASE yes
  <2>1. next \in RequestRecords /\ next.step = "hashing" /\ next.row = account
    BY RowFields DEF RequestRecords, Steps, AccountsInv, AccountTypes
  <2>2. Moves(r) /\ request'[r] = next
    BY <1>2, <2>1, BecomesMoves DEF ChangePassword
  <2>3. Registered
    BY HasRegistered DEF ChangePassword, At
  <2> QED BY <1>1, <2>1, <2>2, <2>3, ReadsRow
<1>3. CASE ~ yes
  BY <1>1, <1>3, RequestEnds DEF ChangePassword
<1> QED BY <1>2, <1>3

\* The hash takes its time, which is later than everything that was read.
LEMMA InvHash ==
  ASSUME AccountsInv, NEW r \in Requests, Hash(r)
  PROVE  AccountsInv'
<1> DEFINE next == [request[r] EXCEPT !.step = "changing", !.at = time + 1]
<1>1. time' = time + 1 /\ Becomes(r, next) /\ request[r].step = "hashing" /\ Aside
      /\ resets' = resets
  BY StoredAside DEF Hash, stored, At
<1>2. time \in Nat /\ time + 1 \in Nat
  BY DEF AccountsInv, AccountTypes
<1>3. /\ next \in RequestRecords /\ next.step = "changing" /\ next.at = time + 1
      /\ next.row = request[r].row
  BY <1>2, RowFields DEF RequestRecords, Steps, AccountsInv
<1>4. Moves(r) /\ request'[r] = next
  BY <1>1, <1>3, BecomesMoves
<1>5. Registered
  BY <1>1, HasRegistered
<1>6. ASSUME ~ overlapped
      PROVE  Holds(request[r])'
  <2>1. Sound(request[r].row) /\ account.stamp <= time
    BY <1>1, <1>6 DEF AccountsInv, InStep, Holds, RowSteps
  <2>2. request[r].row.stamp <= account.stamp
    BY <2>1, SoundStamp, RowFields DEF AccountsInv
  <2>3. request[r].row.stamp < time + 1
    BY <1>2, <2>1, <2>2, RowFields, AccountIsSound DEF AccountsInv
  <2>4. Sound(request[r].row)'
    BY <1>1, <1>3, <1>4, <2>1 DEF Sound, Aside
  <2>5. /\ request'[r].step = "changing" /\ request'[r].at = time'
        /\ request'[r].row.stamp < time'
    BY <1>1, <1>3, <1>4, <2>3
  <2> QED BY <1>1, <1>2, <2>4, <2>5 DEF Holds
<1> QED BY <1>1, <1>2, <1>4, <1>5, <1>6, RequestMoves

\* The UPDATE: everything that was read before is older in both fields, unless
\* another change was committed since this one read the row.
LEMMA InvWritten ==
  ASSUME AccountsInv, NEW r \in Requests, request[r].step = "changing",
         PasswordWritten(r), Moves(r), UNCHANGED <<minted, attempts, time>>,
         resets' \in [ResetTokens -> {"none", "open", "used"}],
         \/ request'[r].step = "idle"
         \/ request'[r].step = "revoking" /\ request'[r].row = account'
  PROVE  AccountsInv'
<1> DEFINE row == request[r].row
<1>1. account' = [version |-> account.version + 1, stamp |-> request[r].at]
      /\ (overlapped' <=> (overlapped \/ account.version # row.version))
  BY Zenon DEF PasswordWritten
<1>2. /\ account.version \in Nat /\ account.stamp \in Nat /\ request[r].at \in Nat
      /\ row.version \in Nat /\ row.stamp \in Nat /\ time \in Nat
  BY RowFields, AccountIsSound DEF AccountsInv, AccountTypes
<1>3. account' \in RowRecords /\ account'.version = account.version + 1
      /\ account'.stamp = request[r].at
  BY <1>1, <1>2 DEF RowRecords
<1>4. overlapped' \in BOOLEAN
  BY Zenon DEF PasswordWritten
<1>5. AccountTypes'
  BY <1>3, <1>4 DEF AccountsInv, AccountTypes, Moves
<1>6. NothingBefore'
  BY <1>2, <1>3 DEF NothingBefore, Registered, NoAccount
<1>7. ASSUME ~ overlapped'
      PROVE  InStep'
  <2>1. ~ overlapped /\ account.version = row.version
    BY <1>1, <1>7
  <2>2. InStep
    BY <2>1 DEF AccountsInv
  <2>3. Holds(request[r])
    BY <2>2 DEF InStep
  <2>4. account.stamp < request[r].at /\ request[r].at <= time
    BY <2>1, <2>3 DEF Holds, Sound, RowSteps
  <2>5. ASSUME NEW x, x.version \in Nat, x.stamp \in Nat, Sound(x)
        PROVE  x.version < account'.version /\ x.stamp < account'.stamp
    BY <1>2, <1>3, <2>4, <2>5, SoundStamp DEF AccountsInv, Sound
  <2>6. ASSUME NEW n \in 1..Len(minted')
        PROVE  Sound(minted[n])'
    <3>1. minted[n].version \in Nat /\ minted[n].stamp \in Nat
      BY <2>6, TokenFields DEF AccountsInv
    <3>2. Sound(minted[n])
      BY <2>2, <2>6 DEF InStep
    <3>3. minted[n].version < account'.version /\ minted[n].stamp < account'.stamp
      BY <2>5, <3>1, <3>2
    <3> QED BY <1>2, <1>3, <3>1, <3>3 DEF Sound
  <2>7. ASSUME NEW q \in Requests \ {r}
        PROVE  Holds(request[q])'
    <3>1. request[q].row.version \in Nat /\ request[q].row.stamp \in Nat
      BY RowFields DEF AccountsInv
    <3>2. Holds(request[q]) /\ request'[q] = request[q]
      BY <2>2 DEF InStep, Moves
    <3>3. request[q].step \in RowSteps =>
            request[q].row.version < account'.version /\ request[q].row.stamp < account'.stamp
      BY <2>5, <3>1, <3>2 DEF Holds
    <3>4. request[q].step \in RowSteps => Sound(request[q].row)'
      BY <1>2, <1>3, <3>1, <3>2, <3>3 DEF Sound
    <3> QED BY <3>2, <3>4 DEF Holds
  <2>8. Holds(request[r])'
    BY <1>2, <1>3 DEF Holds, Sound, RowSteps
  <2> QED BY <1>3, <2>4, <2>6, <2>7, <2>8 DEF InStep
<1> QED BY <1>5, <1>6, <1>7 DEF AccountsInv

LEMMA InvChangeWrites ==
  ASSUME AccountsInv, NEW r \in Requests, ChangeWrites(r)
  PROVE  AccountsInv'
<1> DEFINE next == [request[r] EXCEPT !.step = "revoking", !.row = account']
<1>1. account' \in RowRecords
  BY AccountIsSound, RowFields DEF ChangeWrites, PasswordWritten, RowRecords, AccountsInv
<1>2. next \in RequestRecords /\ next.step = "revoking" /\ next.row = account'
  BY <1>1, RowFields DEF RequestRecords, Steps, AccountsInv
<1>3. Moves(r) /\ request'[r] = next
  BY <1>2, BecomesMoves DEF ChangeWrites
<1>4. resets' \in [ResetTokens -> {"none", "open", "used"}]
  BY DEF AccountsInv, AccountTypes, ChangeWrites
<1> QED BY <1>2, <1>3, <1>4, InvWritten DEF ChangeWrites, At

LEMMA InvRevoke ==
  ASSUME AccountsInv, NEW r \in Requests, RevokeOwn(r)
  PROVE  AccountsInv'
<1> DEFINE next == [request[r] EXCEPT !.step = "minting", !.pair = FALSE]
<1>1. next \in RequestRecords /\ next.step = "minting" /\ next.row = request[r].row
  BY RowFields DEF RequestRecords, Steps, AccountsInv
<1>2. Becomes(r, next) /\ Aside /\ UNCHANGED <<resets, time>> /\ request[r].step = "revoking"
  BY StoredAside DEF RevokeOwn, At
<1>3. Moves(r) /\ request'[r] = next /\ Registered
  BY <1>1, <1>2, BecomesMoves, HasRegistered
<1> QED BY <1>1, <1>2, <1>3, ReadsRow

-----------------------------------------------------------------------------
(* Password reset *)

LEMMA InvResetPassword ==
  ASSUME AccountsInv, NEW r \in Requests, NEW k \in ResetTokens, ResetPassword(r, k)
  PROVE  AccountsInv'
<1> DEFINE next == [Idle EXCEPT !.step = "resetting", !.for = k]
<1>1. next \in RequestRecords /\ next.step = "resetting"
  BY IdleHolds DEF RequestRecords, Steps, Purposes, AccountsInv, AccountTypes
<1>2. Becomes(r, next) /\ Aside /\ UNCHANGED <<resets, time>>
  BY StoredAside DEF ResetPassword, stored
<1>3. Moves(r) /\ request'[r] = next
  BY <1>1, <1>2, BecomesMoves
<1>4. Registered
  BY HasRegistered DEF ResetPassword, stored, At, AccountsInv
<1> QED BY <1>1, <1>2, <1>3, <1>4, HoldsNothing

LEMMA InvResetReadsCount ==
  ASSUME AccountsInv, NEW r \in Requests, ResetReadsCount(r)
  PROVE  AccountsInv'
<1> DEFINE next == [request[r] EXCEPT !.step = "counting", !.row = account, !.at = attempts]
<1>1. Aside /\ UNCHANGED <<resets, time>>
  BY StoredAside DEF ResetReadsCount, stored
<1>2. CASE attempts >= MaxResetAttempts
  BY <1>1, <1>2, RequestEnds DEF ResetReadsCount
<1>3. CASE ~ (attempts >= MaxResetAttempts)
  <2>1. next \in RequestRecords /\ next.step = "counting" /\ next.row = account
    BY RowFields DEF RequestRecords, Steps, AccountsInv, AccountTypes
  <2>2. Moves(r) /\ request'[r] = next
    BY <1>3, <2>1, BecomesMoves DEF ResetReadsCount
  <2>3. Registered
    BY HasRegistered DEF ResetReadsCount, At
  <2> QED BY <1>1, <2>1, <2>2, <2>3, ReadsRow
<1> QED BY <1>2, <1>3

LEMMA InvResetCounts ==
  ASSUME AccountsInv, NEW r \in Requests, ResetCounts(r)
  PROVE  AccountsInv'
<1> DEFINE next == [request[r] EXCEPT !.step = "hashing", !.at = 0]
<1>1. next \in RequestRecords /\ next.step = "hashing" /\ next.row = request[r].row
  BY RowFields DEF RequestRecords, Steps, AccountsInv
<1>2. attempts' \in Nat
  BY RowFields DEF ResetCounts, AccountsInv
<1>3. /\ Becomes(r, next) /\ Aside /\ UNCHANGED <<resets, time>>
      /\ request[r].step = "counting"
  BY <1>2 DEF ResetCounts, At, Aside, AccountsInv, AccountTypes
<1>4. Moves(r) /\ request'[r] = next /\ Registered
  BY <1>1, <1>3, BecomesMoves, HasRegistered
<1> QED BY <1>1, <1>3, <1>4, ReadsRow

LEMMA InvResetCommits ==
  ASSUME AccountsInv, NEW r \in Requests, NEW yes \in BOOLEAN, ResetCommits(r, yes)
  PROVE  AccountsInv'
<1>1. UNCHANGED <<minted, attempts, time>> /\ Finishes(r) /\ request[r].step = "changing"
  BY DEF ResetCommits, At
<1>2. CASE yes
  <2>1. PasswordWritten(r) /\ resets' \in [ResetTokens -> {"none", "open", "used"}]
    BY <1>2 DEF ResetCommits, AccountsInv, AccountTypes
  <2>2. Moves(r) /\ request'[r].step = "idle"
    BY <1>1, IdleHolds, BecomesMoves DEF Finishes
  <2> QED BY <1>1, <2>1, <2>2, InvWritten
<1>3. CASE ~ yes
  <2>1. UNCHANGED <<account, overlapped, resets>>
    BY <1>3 DEF ResetCommits
  <2> QED BY <1>1, <2>1, RequestEnds, StoredAside
<1> QED BY <1>2, <1>3

-----------------------------------------------------------------------------

LEMMA AccountsStep ==
  ASSUME AccountsInv, AccountsNext
  PROVE  AccountsInv'
<1> USE DEF AccountsNext
<1>1. CASE CacheForgets
  <2>1. UNCHANGED <<account, minted, request, time, overlapped, resets>> /\ attempts' \in Nat
    BY <1>1 DEF CacheForgets, AccountsInv, AccountTypes
  <2> QED BY <2>1, InvStored DEF Aside, AccountsInv, AccountTypes
<1>2. ASSUME NEW k \in ResetTokens, SendResetToken(k)
      PROVE  AccountsInv'
  BY <1>2, InvStored DEF SendResetToken, Aside, AccountsInv, AccountTypes
<1>3. ASSUME NEW r \in Requests, LogoutEnds(r)
      PROVE  AccountsInv'
  BY <1>3, RequestEnds, StoredAside DEF LogoutEnds
<1>4. ASSUME NEW r \in Requests, NEW n \in DOMAIN minted,
             \/ Refresh(r, n) \/ Logout(r, n)
             \/ \E purpose \in Purposes : Authenticate(r, n, purpose)
      PROVE  AccountsInv'
  BY <1>4, InvRefresh, InvLogout, InvAuthenticate
<1>5. ASSUME NEW r \in Requests, NEW yes \in BOOLEAN,
             UpdateProfile(r, yes) \/ ChangePassword(r, yes) \/ ResetCommits(r, yes)
      PROVE  AccountsInv'
  BY <1>5, InvUpdateProfile, InvChangePassword, InvResetCommits
<1>6. ASSUME NEW r \in Requests,
             \/ Register(r) \/ InsertUser(r) \/ Login(r) \/ RefreshReads(r) \/ Mint(r)
             \/ CheckClaim(r) \/ Hash(r) \/ ChangeWrites(r)
             \/ RevokeOwn(r) \/ ResetReadsCount(r) \/ ResetCounts(r)
      PROVE  AccountsInv'
  BY <1>6, InvRegister, InvInsert, InvLogin, InvRefreshReads, InvMint, InvCheck, InvHash,
     InvChangeWrites, InvRevoke, InvResetReadsCount, InvResetCounts
<1>7. ASSUME NEW r \in Requests, NEW k \in ResetTokens, ResetPassword(r, k)
      PROVE  AccountsInv'
  BY <1>7, InvResetPassword
<1> QED BY <1>1, <1>2, <1>3, <1>4, <1>5, <1>6, <1>7

\* The invariant, for all values of the constants.
THEOREM AccountsInvariance == AccountsSpec => []AccountsInv
<1>1. AccountsInit => AccountsInv
  <2> SUFFICES ASSUME AccountsInit PROVE AccountsInv
    OBVIOUS
  <2>1. overlapped \in BOOLEAN
    BY Zenon DEF AccountsInit
  <2>2. AccountTypes
    BY <2>1, IdleHolds DEF AccountsInit, AccountTypes, RowRecords, NoAccount
  <2>3. NothingBefore
    BY IdleHolds DEF AccountsInit, NothingBefore, Registered
  <2>4. InStep
    BY IdleHolds DEF AccountsInit, InStep, Holds, RowSteps, NoAccount
  <2> QED BY <2>2, <2>3, <2>4 DEF AccountsInv
<1>2. AccountsInv /\ [AccountsNext]_accountVars => AccountsInv'
  <2> SUFFICES ASSUME AccountsInv, [AccountsNext]_accountVars PROVE AccountsInv'
    OBVIOUS
  <2>1. CASE UNCHANGED accountVars
    <3>1. UNCHANGED <<account, minted, request, time, overlapped, attempts, resets>>
      BY <2>1 DEF accountVars
    <3> QED BY <3>1, InvStored, StoredAside
  <2> QED BY <2>1, AccountsStep
<1> QED BY <1>1, <1>2, PTL DEF AccountsSpec

\* JwtExtractorService.authenticate: a token of an older password is refused by every
\* check that reads the row after the change.
THEOREM OlderTokensAreRefused == AccountsSpec => []OldTokensRefused
<1>1. AccountsInv => OldTokensRefused
  BY DEF AccountsInv, InStep, Holds, OldTokensRefused, At
<1> QED BY <1>1, AccountsInvariance, PTL

-----------------------------------------------------------------------------
(* The bounds of an account *)

\* What a request carries from step to step, when it is now.
Carries(q, now) ==
  /\ q.step \in {"checking", "admitted", "leaving", "revoking"} => q.token # 0
  /\ q.step \in {"resetting", "counting"} => q.for \in ResetTokens
  /\ q.step \in {"hashing", "changing"} => q.for \in ResetTokens \/ q.token # 0
  /\ q.step = "counting" => q.at < MaxResetAttempts
  /\ q.step = "changing" => q.at \in 1..now

\* The times of the passwords that are hashed and not written yet.
Unwritten == {request[r].at : r \in {q \in Requests : At(q, "changing")}}

\* No two of them have the same time, and with those that were written there are no
\* more passwords than hashes were computed, but for the first.
WithinBounds ==
  /\ AccountsTypeOK
  /\ \A r \in Requests : Carries(request[r], time)
  /\ \A r, q \in Requests :
       At(r, "changing") /\ At(q, "changing") /\ request[r].at = request[q].at => r = q
  /\ account.version + Cardinality(Unwritten) <= time + 1


AccountRecords == [step : Steps, for : Purposes \cup ResetTokens, token : 0..MaxMints,
                   row : RowTypes, at : 0..(MaxChanges + MaxResetAttempts),
                   pair : BOOLEAN]

BoundTokens == [version : 0..(MaxChanges + 1), stamp : 0..MaxChanges, refresh : BOOLEAN]

LEMMA BoundsAreNaturals ==
  /\ MaxResetAttempts \in Nat /\ MaxMints \in Nat /\ MaxChanges \in Nat
  /\ MaxCacheLosses \in Nat
  BY AccountBoundsAssumption

LEMMA IdleIsBound ==
  /\ Idle \in AccountRecords /\ Idle.step = "idle"
  /\ \A now \in Nat : Carries(Idle, now)
  /\ NoAccount \in RowTypes
  BY BoundsAreNaturals DEF Idle, AccountRecords, RowTypes, NoAccount, Steps, Purposes, Carries

LEMMA BoundFields ==
  ASSUME WithinBounds, NEW r \in Requests
  PROVE  /\ request[r] \in AccountRecords /\ Carries(request[r], time)
         /\ request[r].row \in RowTypes /\ request[r].token \in 0..MaxMints
         /\ request[r].at \in Nat /\ request[r].for \in Purposes \cup ResetTokens
         /\ request[r].pair \in BOOLEAN
         /\ request[r].row.version \in 0..(MaxChanges + 1)
         /\ request[r].row.stamp \in 0..MaxChanges
<1>1. request[r] \in AccountRecords /\ Carries(request[r], time)
  BY DEF WithinBounds, AccountsTypeOK, AccountRecords
<1> QED BY <1>1, BoundsAreNaturals DEF AccountRecords, RowTypes

LEMMA BoundNumbers ==
  ASSUME WithinBounds
  PROVE  /\ account \in RowTypes
         /\ account.version \in 0..(MaxChanges + 1) /\ account.stamp \in 0..MaxChanges
         /\ time \in 0..MaxChanges /\ attempts \in 0..MaxResetAttempts
         /\ time \in Nat /\ attempts \in Nat
  BY BoundsAreNaturals DEF WithinBounds, AccountsTypeOK, RowTypes

\* The times are those of hashes, so there are no more than that.
LEMMA UnwrittenIsSmall ==
  ASSUME WithinBounds
  PROVE  /\ Unwritten \subseteq 1..time /\ IsFiniteSet(Unwritten)
         /\ Cardinality(Unwritten) \in Nat /\ Cardinality(Unwritten) <= time
<1>1. Unwritten \subseteq 1..time
  BY BoundFields DEF Unwritten, At, Carries
<1>2. time \in Nat
  BY BoundNumbers
<1>3. IsFiniteSet(1..time) /\ Cardinality(1..time) = time
  BY <1>2, FS_Interval
<1> QED BY <1>1, <1>3, FS_Subset, FS_CardinalityType

\* Request r goes on to next, and no other does.
MovesTo(r, next) == /\ Becomes(r, next)
                    /\ next \in AccountRecords
                    /\ Carries(next, time')

LEMMA OthersStay ==
  ASSUME WithinBounds, NEW r \in Requests, NEW next, MovesTo(r, next), time <= time',
         time' \in Nat
  PROVE  /\ request' \in [Requests -> AccountRecords] /\ request'[r] = next
         /\ \A q \in Requests \ {r} : request'[q] = request[q]
         /\ \A q \in Requests : Carries(request'[q], time')
<1>1. /\ request \in [Requests -> AccountRecords]
      /\ request' = [request EXCEPT ![r] = next]
  BY DEF WithinBounds, AccountsTypeOK, AccountRecords, MovesTo, Becomes
<1>2. /\ request' \in [Requests -> AccountRecords] /\ request'[r] = next
      /\ \A q \in Requests \ {r} : request'[q] = request[q]
  BY <1>1 DEF MovesTo
<1>3. ASSUME NEW q \in Requests \ {r}
      PROVE  Carries(request'[q], time')
  <2>1. Carries(request[q], time) /\ request[q].at \in Nat /\ time \in Nat
    BY BoundFields, BoundNumbers
  <2> QED BY <1>2, <2>1 DEF Carries
<1>4. Carries(request'[r], time')
  BY <1>2 DEF MovesTo, Carries
<1> QED BY <1>2, <1>3, <1>4

\* The types of what is stored, after a step.
StoredBounds ==
  /\ resets \in [ResetTokens -> {"none", "open", "used"}]
  /\ minted \in Seq(BoundTokens) /\ Len(minted) <= MaxMints
  /\ denied \subseteq Mints \X Kinds
  /\ attempts \in 0..MaxResetAttempts
  /\ time \in 0..MaxChanges
  /\ overlapped \in BOOLEAN
  /\ losses \in 0..MaxCacheLosses

LEMMA HasStoredBounds == WithinBounds => StoredBounds
  BY DEF WithinBounds, AccountsTypeOK, StoredBounds, BoundTokens

\* A step of request r that hashes and writes no password.
LEMMA BoundsMove ==
  ASSUME WithinBounds, NEW r \in Requests, NEW next, MovesTo(r, next),
         next.step # "changing", StoredBounds', UNCHANGED time,
         \/ UNCHANGED account
         \/ account'.version = 1 /\ account' \in RowTypes
  PROVE  WithinBounds'
<1>1. /\ request' \in [Requests -> AccountRecords] /\ request'[r] = next
      /\ \A q \in Requests \ {r} : request'[q] = request[q]
      /\ \A q \in Requests : Carries(request'[q], time')
  BY OthersStay, BoundNumbers
<1>2. \A q \in Requests : At(q, "changing")' => At(q, "changing") /\ request'[q] = request[q]
  BY <1>1 DEF At
<1>3. \A p, q \in Requests :
        (At(p, "changing") /\ At(q, "changing") /\ request[p].at = request[q].at)' => p = q
  BY <1>2 DEF WithinBounds
<1>4. Unwritten' \subseteq Unwritten
  BY <1>2 DEF Unwritten
<1>5. Cardinality(Unwritten') \in Nat /\ Cardinality(Unwritten') <= Cardinality(Unwritten)
  BY <1>4, UnwrittenIsSmall, FS_Subset, FS_CardinalityType
<1>6. (account.version + Cardinality(Unwritten) <= time + 1)'
  BY <1>5, UnwrittenIsSmall, BoundNumbers DEF WithinBounds
<1>7. account' \in RowTypes
  BY BoundNumbers
<1>8. AccountsTypeOK'
  BY <1>1, <1>7 DEF AccountsTypeOK, StoredBounds, AccountRecords, BoundTokens
<1> QED BY <1>1, <1>3, <1>6, <1>8 DEF WithinBounds

\* A step of request r that changes nothing that is stored.
LEMMA BoundsRead ==
  ASSUME WithinBounds, NEW r \in Requests, NEW next, MovesTo(r, next),
         next.step # "changing", UNCHANGED <<stored, minted, time>>
  PROVE  WithinBounds'
<1>1. StoredBounds'
  BY HasStoredBounds DEF StoredBounds, stored
<1> QED BY <1>1, BoundsMove DEF stored

LEMMA BoundsFinish ==
  ASSUME WithinBounds, NEW r \in Requests, Finishes(r), StoredBounds',
         UNCHANGED <<account, time>>
  PROVE  WithinBounds'
  BY IdleIsBound, BoundNumbers, BoundsMove DEF Finishes, MovesTo

\* The requests that read: what they hand on.
LEMMA BoundsReading ==
  ASSUME WithinBounds, NEW r \in Requests,
         \/ Register(r) \/ Login(r) \/ RefreshReads(r) \/ CheckClaim(r)
         \/ ResetReadsCount(r)
         \/ \E yes \in BOOLEAN : UpdateProfile(r, yes) \/ ChangePassword(r, yes)
         \/ \E k \in ResetTokens : ResetPassword(r, k)
  PROVE  WithinBounds'
<1> DEFINE Goes(next) == /\ next \in AccountRecords /\ next.step # "changing"
                         /\ Carries(next, time) /\ Becomes(r, next)
                         /\ UNCHANGED <<stored, minted, time>>
<1>1. ASSUME NEW next, Goes(next)
      PROVE  WithinBounds'
  <2>1. MovesTo(r, next)
    BY <1>1 DEF MovesTo
  <2> QED BY <1>1, <2>1, BoundsRead
<1>2. ASSUME Finishes(r), UNCHANGED <<stored, minted, time>>
      PROVE  WithinBounds'
  <2>1. Goes(Idle)
    BY <1>2, IdleIsBound, BoundNumbers DEF Finishes
  <2> QED BY <1>1, <2>1
<1>3. CASE Register(r)
  <2> DEFINE next == [Idle EXCEPT !.step = "registering"]
  <2>1. Goes(next)
    BY <1>3, IdleIsBound DEF Register, AccountRecords, Steps, Carries
  <2> QED BY <1>1, <2>1
<1>4. CASE Login(r)
  <2> DEFINE next == [Idle EXCEPT !.step = "minting", !.row = account, !.pair = TRUE]
  <2>1. Goes(next)
    BY <1>4, IdleIsBound, BoundNumbers DEF Login, AccountRecords, Steps, Carries
  <2> QED BY <1>1, <2>1
<1>5. CASE RefreshReads(r)
  <2> DEFINE next == [request[r] EXCEPT !.step = "minting", !.row = account, !.pair = TRUE]
  <2>1. Goes(next)
    BY <1>5, BoundFields, BoundNumbers DEF RefreshReads, AccountRecords, Steps, Carries
  <2> QED BY <1>1, <2>1
<1>6. CASE CheckClaim(r)
  <2> DEFINE next == [request[r] EXCEPT !.step = "admitted", !.row = account]
  <2>1. request[r].step = "checking" /\ UNCHANGED <<stored, minted, time>>
    BY <1>6 DEF CheckClaim, At
  <2>2. next \in AccountRecords /\ next.step # "changing" /\ Carries(next, time)
    BY <2>1, BoundFields, BoundNumbers DEF AccountRecords, Steps, Carries
  <2>3. Finishes(r) \/ Becomes(r, next)
    BY <1>6 DEF CheckClaim
  <2> QED BY <1>1, <1>2, <2>1, <2>2, <2>3
<1>7. CASE ResetReadsCount(r)
  <2> DEFINE next == [request[r] EXCEPT !.step = "counting", !.row = account, !.at = attempts]
  <2>1. request[r].step = "resetting" /\ UNCHANGED <<stored, minted, time>>
    BY <1>7 DEF ResetReadsCount, At
  <2>2. CASE attempts >= MaxResetAttempts
    BY <1>2, <1>7, <2>1, <2>2 DEF ResetReadsCount
  <2>3. CASE ~(attempts >= MaxResetAttempts)
    <3>1. attempts \in 0..(MaxChanges + MaxResetAttempts) /\ attempts < MaxResetAttempts
      BY <2>3, BoundNumbers, BoundsAreNaturals
    <3>2. next \in AccountRecords /\ next.step # "changing" /\ Carries(next, time)
      BY <2>1, <3>1, BoundFields, BoundNumbers DEF AccountRecords, Steps, Carries
    <3>3. Becomes(r, next)
      BY <1>7, <2>3 DEF ResetReadsCount
    <3> QED BY <1>1, <2>1, <3>2, <3>3
  <2> QED BY <2>2, <2>3
<1>8. ASSUME NEW yes \in BOOLEAN, UpdateProfile(r, yes)
      PROVE  WithinBounds'
  <2> DEFINE next == [request[r] EXCEPT !.step = "revoking", !.row = account]
  <2>1. request[r].step = "admitted" /\ UNCHANGED <<stored, minted, time>>
    BY <1>8 DEF UpdateProfile, At
  <2>2. next \in AccountRecords /\ next.step # "changing" /\ Carries(next, time)
    BY <2>1, BoundFields, BoundNumbers DEF AccountRecords, Steps, Carries
  <2>3. Finishes(r) \/ Becomes(r, next)
    BY <1>8 DEF UpdateProfile
  <2> QED BY <1>1, <1>2, <2>1, <2>2, <2>3
<1>9. ASSUME NEW yes \in BOOLEAN, ChangePassword(r, yes)
      PROVE  WithinBounds'
  <2> DEFINE next == [request[r] EXCEPT !.step = "hashing", !.row = account]
  <2>1. request[r].step = "admitted" /\ UNCHANGED <<stored, minted, time>>
    BY <1>9 DEF ChangePassword, At
  <2>2. next \in AccountRecords /\ next.step # "changing" /\ Carries(next, time)
    BY <2>1, BoundFields, BoundNumbers DEF AccountRecords, Steps, Carries
  <2>3. Finishes(r) \/ Becomes(r, next)
    BY <1>9 DEF ChangePassword
  <2> QED BY <1>1, <1>2, <2>1, <2>2, <2>3
<1>10. ASSUME NEW k \in ResetTokens, ResetPassword(r, k)
       PROVE  WithinBounds'
  <2> DEFINE next == [Idle EXCEPT !.step = "resetting", !.for = k]
  <2>1. Goes(next)
    BY <1>10, IdleIsBound DEF ResetPassword, AccountRecords, Steps, Purposes, Carries
  <2> QED BY <1>1, <2>1
<1> QED BY <1>3, <1>4, <1>5, <1>6, <1>7, <1>8, <1>9, <1>10

\* The requests that present a token.
LEMMA BoundsToken ==
  ASSUME WithinBounds, NEW r \in Requests, NEW n \in DOMAIN minted,
         \/ Refresh(r, n) \/ Logout(r, n)
         \/ \E purpose \in Purposes : Authenticate(r, n, purpose)
  PROVE  WithinBounds'
<1>1. n \in 1..MaxMints /\ n # 0 /\ n \in 0..MaxMints
  <2>1. minted \in Seq(BoundTokens) /\ Len(minted) <= MaxMints
    BY HasStoredBounds DEF StoredBounds
  <2>2. n \in 1..Len(minted) /\ Len(minted) \in Nat
    BY <2>1
  <2> QED BY <2>1, <2>2, BoundsAreNaturals
<1>2. CASE Refresh(r, n)
  <2> DEFINE next == [Idle EXCEPT !.step = "reading", !.token = n]
  <2>1. next \in AccountRecords /\ next.step # "changing" /\ Carries(next, time')
    BY <1>1, IdleIsBound DEF AccountRecords, Steps, Carries
  <2>2. Becomes(r, next) /\ UNCHANGED <<stored, minted, time>>
    BY <1>2 DEF Refresh
  <2>3. MovesTo(r, next)
    BY <2>1, <2>2 DEF MovesTo
  <2> QED BY <2>1, <2>2, <2>3, BoundsRead
<1>3. CASE Logout(r, n)
  <2> DEFINE next == [Idle EXCEPT !.step = "leaving", !.token = n]
  <2>1. next \in AccountRecords /\ next.step # "changing" /\ Carries(next, time')
    BY <1>1, IdleIsBound DEF AccountRecords, Steps, Carries
  <2>2. UNCHANGED <<account, resets, minted, attempts, time, overlapped, losses>>
    BY <1>3 DEF Logout
  <2>3. denied' \subseteq Mints \X Kinds
    BY <1>1, <1>3, HasStoredBounds DEF Logout, StoredBounds, Mints, Kinds
  <2>4. StoredBounds'
    BY <2>2, <2>3, HasStoredBounds DEF StoredBounds
  <2>5. CASE minted[n].refresh
    <3>1. Becomes(r, next)
      BY <1>3, <2>5 DEF Logout
    <3>2. MovesTo(r, next)
      BY <2>1, <3>1 DEF MovesTo
    <3> QED BY <2>1, <2>2, <2>4, <3>2, BoundsMove
  <2>6. CASE ~minted[n].refresh
    <3>1. UNCHANGED request
      BY <1>3, <2>6 DEF Logout
    <3> QED BY <2>2, <2>4, <3>1
            DEF WithinBounds, AccountsTypeOK, StoredBounds, BoundTokens, Unwritten, At
  <2> QED BY <2>5, <2>6
<1>4. ASSUME NEW purpose \in Purposes, Authenticate(r, n, purpose)
      PROVE  WithinBounds'
  <2> DEFINE next == [Idle EXCEPT !.step = "checking", !.token = n, !.for = purpose]
  <2>1. next \in AccountRecords /\ next.step # "changing" /\ Carries(next, time')
    BY <1>1, IdleIsBound DEF AccountRecords, Steps, Carries
  <2>2. Becomes(r, next) /\ UNCHANGED <<stored, minted, time>>
    BY <1>4 DEF Authenticate
  <2>3. MovesTo(r, next)
    BY <2>1, <2>2 DEF MovesTo
  <2> QED BY <2>1, <2>2, <2>3, BoundsRead
<1> QED BY <1>2, <1>3, <1>4

LEMMA BoundsInsert ==
  ASSUME WithinBounds, NEW r \in Requests, InsertUser(r)
  PROVE  WithinBounds'
<1>1. UNCHANGED <<resets, minted, denied, attempts, time, overlapped, losses>>
  BY DEF InsertUser
<1>2. StoredBounds'
  BY <1>1, HasStoredBounds DEF StoredBounds
<1>3. CASE Registered
  BY <1>1, <1>2, <1>3, BoundsFinish DEF InsertUser
<1>4. CASE ~Registered
  <2> DEFINE next == [Idle EXCEPT !.step = "minting", !.row = account', !.pair = TRUE]
  <2>1. account' = [version |-> 1, stamp |-> time] /\ Becomes(r, next)
    BY <1>4 DEF InsertUser
  <2>2. account' \in RowTypes /\ account'.version = 1
    BY <2>1, BoundNumbers, BoundsAreNaturals DEF RowTypes
  <2>3. next \in AccountRecords /\ next.step # "changing" /\ Carries(next, time')
    BY <2>2, IdleIsBound DEF AccountRecords, Steps, Carries
  <2>4. MovesTo(r, next)
    BY <2>1, <2>3 DEF MovesTo
  <2> QED BY <1>1, <1>2, <2>2, <2>3, <2>4, BoundsMove
<1> QED BY <1>3, <1>4

LEMMA BoundsMint ==
  ASSUME WithinBounds, NEW r \in Requests, Mint(r)
  PROVE  WithinBounds'
<1> DEFINE new == [version |-> request[r].row.version, stamp |-> request[r].row.stamp,
                   refresh |-> request[r].pair]
<1>1. /\ minted' = Append(minted, new) /\ Len(minted) < MaxMints /\ Finishes(r)
      /\ UNCHANGED <<account, resets, denied, attempts, overlapped, losses, time>>
  BY DEF Mint, StampOf, stored
<1>2. new \in BoundTokens
  BY BoundFields DEF BoundTokens
<1>3. minted \in Seq(BoundTokens) /\ StoredBounds
  BY HasStoredBounds DEF StoredBounds
<1>4. minted' \in Seq(BoundTokens) /\ Len(minted') = Len(minted) + 1 /\ Len(minted) \in Nat
  BY <1>1, <1>2, <1>3
<1>5. Len(minted') <= MaxMints
  BY <1>1, <1>4, BoundsAreNaturals
<1>6. StoredBounds'
  BY <1>1, <1>3, <1>4, <1>5 DEF StoredBounds
<1> QED BY <1>1, <1>6, BoundsFinish

\* The cookie's token, and the one that a request was admitted with, were minted.
LEMMA BoundsRevoke ==
  ASSUME WithinBounds, NEW r \in Requests, LogoutEnds(r) \/ RevokeOwn(r)
  PROVE  WithinBounds'
<1>1. request[r].token \in Mints
  BY BoundFields, BoundsAreNaturals DEF LogoutEnds, RevokeOwn, At, Carries, Mints
<1>2. denied \subseteq Mints \X Kinds
  BY HasStoredBounds DEF StoredBounds
<1>3. \A kind \in Kinds : denied \cup {<<request[r].token, kind>>} \subseteq Mints \X Kinds
  BY <1>1, <1>2
<1>4. denied' \subseteq Mints \X Kinds
  BY <1>3 DEF LogoutEnds, RevokeOwn, Kinds
<1>5. UNCHANGED <<account, resets, minted, attempts, time, overlapped, losses>>
  BY DEF LogoutEnds, RevokeOwn
<1>6. StoredBounds'
  BY <1>4, <1>5, HasStoredBounds DEF StoredBounds
<1>7. CASE LogoutEnds(r)
  BY <1>5, <1>6, <1>7, BoundsFinish DEF LogoutEnds
<1>8. CASE RevokeOwn(r)
  <2> DEFINE next == [request[r] EXCEPT !.step = "minting", !.pair = FALSE]
  <2>1. next \in AccountRecords /\ next.step # "changing" /\ Carries(next, time')
    BY BoundFields DEF AccountRecords, Steps, Carries
  <2>2. MovesTo(r, next)
    BY <1>8, <2>1 DEF RevokeOwn, MovesTo
  <2> QED BY <1>5, <1>6, <2>1, <2>2, BoundsMove
<1> QED BY <1>7, <1>8

LEMMA BoundsCount ==
  ASSUME WithinBounds, NEW r \in Requests, ResetCounts(r)
  PROVE  WithinBounds'
<1> DEFINE next == [request[r] EXCEPT !.step = "hashing", !.at = 0]
<1>1. /\ request[r].step = "counting" /\ attempts' = request[r].at + 1 /\ Becomes(r, next)
      /\ UNCHANGED <<account, resets, minted, denied, time, overlapped, losses>>
  BY DEF ResetCounts, At
<1>2. attempts' \in 0..MaxResetAttempts /\ request[r].for \in ResetTokens
  BY <1>1, BoundFields, BoundsAreNaturals DEF Carries
<1>3. StoredBounds'
  BY <1>1, <1>2, HasStoredBounds DEF StoredBounds
<1>4. next \in AccountRecords /\ next.step # "changing" /\ Carries(next, time')
  <2>1. 0 \in 0..(MaxChanges + MaxResetAttempts)
    BY BoundsAreNaturals
  <2>2. request[r] \in AccountRecords
    BY BoundFields
  <2>3. next \in AccountRecords
    BY <2>1, <2>2 DEF AccountRecords, Steps
  <2>4. next.step = "hashing" /\ next.for = request[r].for
    BY <2>2 DEF AccountRecords
  <2> QED BY <1>2, <2>3, <2>4 DEF Carries
<1>5. MovesTo(r, next)
  BY <1>1, <1>4 DEF MovesTo
<1> QED BY <1>1, <1>3, <1>4, <1>5, BoundsMove

\* The hash adds a time that no other has.
LEMMA BoundsHash ==
  ASSUME WithinBounds, NEW r \in Requests, Hash(r)
  PROVE  WithinBounds'
<1> DEFINE next == [request[r] EXCEPT !.step = "changing", !.at = time']
<1>1. /\ request[r].step = "hashing" /\ time' = time + 1 /\ time < MaxChanges
      /\ Becomes(r, next) /\ UNCHANGED <<stored, minted>>
  BY DEF Hash, At
<1>2. time \in Nat /\ time' \in 0..MaxChanges /\ time' \in Nat /\ time <= time'
  BY <1>1, BoundNumbers, BoundsAreNaturals
<1>3. time' \in 0..(MaxChanges + MaxResetAttempts) /\ time' \in 1..time'
  BY <1>1, <1>2, BoundsAreNaturals
<1>4. /\ next \in AccountRecords /\ Carries(next, time')
      /\ next.step = "changing" /\ next.at = time'
  BY <1>1, <1>3, BoundFields DEF AccountRecords, Steps, Carries
<1>5. MovesTo(r, next)
  BY <1>1, <1>4 DEF MovesTo
<1> HIDE DEF next
<1>6. /\ request' \in [Requests -> AccountRecords] /\ request'[r] = next
      /\ \A q \in Requests \ {r} : request'[q] = request[q]
      /\ \A q \in Requests : Carries(request'[q], time')
  BY <1>2, <1>5, OthersStay
<1>7. \A q \in Requests : At(q, "changing") => request[q].at < time'
  BY <1>1, <1>2, BoundFields DEF At, Carries
<1>8. \A p, q \in Requests :
        (At(p, "changing") /\ At(q, "changing") /\ request[p].at = request[q].at)' => p = q
  <2> SUFFICES ASSUME NEW p \in Requests, NEW q \in Requests,
                      request'[p].step = "changing", request'[q].step = "changing",
                      request'[p].at = request'[q].at
               PROVE  p = q
    BY DEF At
  <2>1. CASE p # r /\ q # r
    BY <1>6, <2>1 DEF WithinBounds, At
  <2>2. CASE p = r \/ q = r
    <3>1. \A x \in Requests \ {r} :
            request'[x].step = "changing" => request'[x].at < time' /\ request'[x].at \in Nat
      BY <1>6, <1>7, BoundFields DEF At
    <3> QED BY <1>2, <1>4, <1>6, <2>2, <3>1
  <2> QED BY <2>1, <2>2
<1>9. Unwritten' \subseteq Unwritten \cup {time'}
  BY <1>4, <1>6 DEF Unwritten, At
<1>10. /\ Cardinality(Unwritten') \in Nat
       /\ Cardinality(Unwritten') <= Cardinality(Unwritten) + 1
  <2>1. /\ IsFiniteSet(Unwritten \cup {time'})
        /\ Cardinality(Unwritten \cup {time'}) <= Cardinality(Unwritten) + 1
    BY UnwrittenIsSmall, FS_AddElement
  <2>2. Cardinality(Unwritten \cup {time'}) \in Nat /\ IsFiniteSet(Unwritten')
    BY <1>9, <2>1, FS_CardinalityType, FS_Subset
  <2>3. Cardinality(Unwritten') <= Cardinality(Unwritten \cup {time'})
    BY <1>9, <2>1, FS_Subset
  <2>4. Cardinality(Unwritten') \in Nat
    BY <2>2, FS_CardinalityType
  <2> QED BY <2>1, <2>2, <2>3, <2>4, UnwrittenIsSmall
<1>11. account' = account
  BY <1>1 DEF stored
<1>12. (account.version + Cardinality(Unwritten) <= time + 1)'
  BY <1>1, <1>2, <1>10, <1>11, UnwrittenIsSmall, BoundNumbers DEF WithinBounds
<1>13. StoredBounds'
  BY <1>1, <1>2, HasStoredBounds DEF StoredBounds, stored
<1>14. AccountsTypeOK'
  BY <1>6, <1>11, <1>13, BoundNumbers
     DEF AccountsTypeOK, StoredBounds, AccountRecords, BoundTokens
<1> QED BY <1>6, <1>8, <1>12, <1>14 DEF WithinBounds

\* The UPDATE takes one time away and adds one password.
LEMMA BoundsWrite ==
  ASSUME WithinBounds, NEW r \in Requests, request[r].step = "changing",
         PasswordWritten(r), NEW next, MovesTo(r, next), next.step # "changing",
         UNCHANGED <<minted, denied, attempts, time, losses>>,
         resets' \in [ResetTokens -> {"none", "open", "used"}],
         account' \in RowTypes, account'.version = account.version + 1
  PROVE  WithinBounds'
<1>1. time \in Nat /\ time <= time' /\ time' \in Nat
  BY BoundNumbers
<1>2. /\ request' \in [Requests -> AccountRecords] /\ request'[r] = next
      /\ \A q \in Requests \ {r} : request'[q] = request[q]
      /\ \A q \in Requests : Carries(request'[q], time')
  BY <1>1, OthersStay
<1>3. \A q \in Requests :
        At(q, "changing")' => q # r /\ At(q, "changing") /\ request'[q] = request[q]
  BY <1>2 DEF At
<1>4. \A p, q \in Requests :
        (At(p, "changing") /\ At(q, "changing") /\ request[p].at = request[q].at)' => p = q
  BY <1>3 DEF WithinBounds
<1>5. At(r, "changing") /\ request[r].at \in Unwritten
  BY DEF Unwritten, At
<1>6. Unwritten' \subseteq Unwritten \ {request[r].at}
  <2> SUFFICES ASSUME NEW q \in Requests, At(q, "changing")'
               PROVE  request'[q].at \in Unwritten \ {request[r].at}
    BY DEF Unwritten
  <2>1. q # r /\ At(q, "changing") /\ request'[q] = request[q]
    BY <1>3
  <2>2. request[q].at # request[r].at
    BY <1>5, <2>1 DEF WithinBounds
  <2> QED BY <2>1, <2>2 DEF Unwritten
<1>7. /\ Cardinality(Unwritten') \in Nat
      /\ Cardinality(Unwritten') + 1 <= Cardinality(Unwritten)
  <2>1. /\ IsFiniteSet(Unwritten \ {request[r].at})
        /\ Cardinality(Unwritten \ {request[r].at}) = Cardinality(Unwritten) - 1
    BY <1>5, UnwrittenIsSmall, FS_RemoveElement
  <2>2. IsFiniteSet(Unwritten')
        /\ Cardinality(Unwritten') <= Cardinality(Unwritten \ {request[r].at})
    BY <1>6, <2>1, FS_Subset
  <2>3. Cardinality(Unwritten') \in Nat
    BY <2>2, FS_CardinalityType
  <2> QED BY <2>1, <2>2, <2>3, UnwrittenIsSmall
<1>8. (account.version + Cardinality(Unwritten) <= time + 1)'
  BY <1>1, <1>7, UnwrittenIsSmall, BoundNumbers DEF WithinBounds
<1>9. overlapped' \in BOOLEAN
  BY Zenon DEF PasswordWritten
<1>10. StoredBounds'
  BY <1>9, HasStoredBounds DEF StoredBounds
<1>11. AccountsTypeOK'
  BY <1>2, <1>10 DEF AccountsTypeOK, StoredBounds, AccountRecords, BoundTokens
<1> QED BY <1>2, <1>4, <1>8, <1>11 DEF WithinBounds

\* The row that is written is within the bounds: a password that is hashed and not
\* written is one that the versions do not count yet.
LEMMA WrittenRow ==
  ASSUME WithinBounds, NEW r \in Requests, request[r].step = "changing", PasswordWritten(r)
  PROVE  account' \in RowTypes /\ account'.version = account.version + 1
<1>1. request[r].at \in Unwritten
  BY DEF Unwritten, At
<1>2. Cardinality(Unwritten) # 0
  BY <1>1, UnwrittenIsSmall, FS_EmptySet
<1>3. account.version + 1 \in 0..(MaxChanges + 1)
  BY <1>2, UnwrittenIsSmall, BoundNumbers, BoundsAreNaturals DEF WithinBounds
<1>4. request[r].at \in 0..MaxChanges
  BY BoundFields, BoundNumbers, BoundsAreNaturals DEF Carries
<1>5. account' = [version |-> account.version + 1, stamp |-> request[r].at]
  BY DEF PasswordWritten
<1> QED BY <1>3, <1>4, <1>5 DEF RowTypes

LEMMA BoundsChange ==
  ASSUME WithinBounds, NEW r \in Requests, ChangeWrites(r)
  PROVE  WithinBounds'
<1> DEFINE next == [request[r] EXCEPT !.step = "revoking", !.row = account']
<1>1. /\ request[r].step = "changing" /\ request[r].for = "password" /\ PasswordWritten(r)
      /\ Becomes(r, next) /\ UNCHANGED <<resets, minted, denied, attempts, time, losses>>
  BY DEF ChangeWrites, At
<1>2. account' \in RowTypes /\ account'.version = account.version + 1
  BY <1>1, WrittenRow
<1>3. request[r].token # 0
  BY <1>1, BoundFields, ResetTokenAssumption DEF Carries
<1>4. next \in AccountRecords /\ next.step # "changing" /\ Carries(next, time')
  BY <1>2, <1>3, BoundFields DEF AccountRecords, Steps, Carries
<1>5. MovesTo(r, next)
  BY <1>1, <1>4 DEF MovesTo
<1>6. resets' \in [ResetTokens -> {"none", "open", "used"}]
  BY <1>1, HasStoredBounds DEF StoredBounds
<1> QED BY <1>1, <1>2, <1>4, <1>5, <1>6, BoundsWrite

LEMMA BoundsCommit ==
  ASSUME WithinBounds, NEW r \in Requests, NEW yes \in BOOLEAN, ResetCommits(r, yes)
  PROVE  WithinBounds'
<1>1. /\ request[r].step = "changing" /\ request[r].for \in ResetTokens /\ Finishes(r)
      /\ UNCHANGED <<minted, denied, attempts, time, losses>>
  BY DEF ResetCommits, At
<1>2. CASE yes
  <2>1. resets' = [resets EXCEPT ![request[r].for] = "used"] /\ PasswordWritten(r)
    BY <1>2 DEF ResetCommits
  <2>2. account' \in RowTypes /\ account'.version = account.version + 1
    BY <1>1, <2>1, WrittenRow
  <2>3. resets' \in [ResetTokens -> {"none", "open", "used"}]
    BY <2>1, HasStoredBounds DEF StoredBounds
  <2>4. MovesTo(r, Idle) /\ Idle.step # "changing"
    BY <1>1, IdleIsBound, BoundNumbers DEF MovesTo, Finishes
  <2> QED BY <1>1, <2>1, <2>2, <2>3, <2>4, BoundsWrite
<1>3. CASE ~yes
  <2>1. UNCHANGED <<resets, account, overlapped>>
    BY <1>3 DEF ResetCommits
  <2>2. StoredBounds'
    BY <1>1, <2>1, HasStoredBounds DEF StoredBounds
  <2> QED BY <1>1, <2>1, <2>2, BoundsFinish
<1> QED BY <1>2, <1>3

\* No request moves.
LEMMA BoundsStored ==
  ASSUME WithinBounds, StoredBounds', UNCHANGED <<account, request, time>>
  PROVE  WithinBounds'
  BY DEF WithinBounds, AccountsTypeOK, StoredBounds, BoundTokens, Unwritten, At

LEMMA BoundsStep ==
  ASSUME WithinBounds, AccountsNext
  PROVE  WithinBounds'
<1>1. CASE CacheForgets
  <2>1. denied' \subseteq Mints \X Kinds /\ attempts' \in 0..MaxResetAttempts
        /\ losses' \in 0..MaxCacheLosses
    BY <1>1, HasStoredBounds, BoundsAreNaturals DEF CacheForgets, StoredBounds
  <2>2. UNCHANGED <<account, resets, minted, request, time, overlapped>>
    BY <1>1 DEF CacheForgets
  <2>3. StoredBounds'
    BY <2>1, <2>2, HasStoredBounds DEF StoredBounds
  <2> QED BY <2>2, <2>3, BoundsStored
<1>2. ASSUME NEW k \in ResetTokens, SendResetToken(k)
      PROVE  WithinBounds'
  <2>1. StoredBounds'
    BY <1>2, HasStoredBounds DEF SendResetToken, StoredBounds
  <2> QED BY <1>2, <2>1, BoundsStored DEF SendResetToken
<1>3. ASSUME NEW r \in Requests, NEW n \in DOMAIN minted,
             \/ Refresh(r, n) \/ Logout(r, n)
             \/ \E purpose \in Purposes : Authenticate(r, n, purpose)
      PROVE  WithinBounds'
  BY <1>3, BoundsToken
<1>4. ASSUME NEW r \in Requests, NEW yes \in BOOLEAN,
             UpdateProfile(r, yes) \/ ChangePassword(r, yes) \/ ResetCommits(r, yes)
      PROVE  WithinBounds'
  BY <1>4, BoundsReading, BoundsCommit
<1>5. ASSUME NEW r \in Requests,
             \/ InsertUser(r) \/ Mint(r) \/ LogoutEnds(r) \/ RevokeOwn(r) \/ Hash(r)
             \/ ChangeWrites(r) \/ ResetCounts(r)
      PROVE  WithinBounds'
  BY <1>5, BoundsInsert, BoundsMint, BoundsRevoke, BoundsHash, BoundsChange, BoundsCount
<1>6. ASSUME NEW r \in Requests,
             \/ Register(r) \/ Login(r) \/ RefreshReads(r) \/ CheckClaim(r)
             \/ ResetReadsCount(r)
             \/ \E k \in ResetTokens : ResetPassword(r, k)
      PROVE  WithinBounds'
  BY <1>6, BoundsReading
<1> QED BY <1>1, <1>2, <1>3, <1>4, <1>5, <1>6 DEF AccountsNext

\* Every change of the password, by its owner or by a reset, takes a hash of its own:
\* the rows, the claims of the tokens and the times stay within what the requests can
\* have done, and a request that revokes a token has one.
THEOREM AccountsBounds == AccountsSpec => []WithinBounds
<1>1. AccountsInit => WithinBounds
  <2> SUFFICES ASSUME AccountsInit PROVE WithinBounds
    OBVIOUS
  <2>1. overlapped \in BOOLEAN
    BY Zenon DEF AccountsInit
  <2>2. AccountsTypeOK
    BY <2>1, IdleIsBound, BoundsAreNaturals DEF AccountsInit, AccountsTypeOK, AccountRecords
  <2>3. \A r \in Requests : request[r] = Idle
    BY DEF AccountsInit
  <2>4. Unwritten = {}
    BY <2>3, IdleIsBound DEF Unwritten, At
  <2>5. account.version = 0 /\ time = 0
    BY DEF AccountsInit, NoAccount
  <2> QED BY <2>2, <2>3, <2>4, <2>5, IdleIsBound, FS_EmptySet DEF WithinBounds, At
<1>2. WithinBounds /\ [AccountsNext]_accountVars => WithinBounds'
  <2> SUFFICES ASSUME WithinBounds, [AccountsNext]_accountVars PROVE WithinBounds'
    OBVIOUS
  <2>1. CASE UNCHANGED accountVars
    <3>1. UNCHANGED <<account, request, time, resets, minted, denied, attempts,
                      overlapped, losses>>
      BY <2>1 DEF accountVars
    <3>2. StoredBounds'
      BY <3>1, HasStoredBounds DEF StoredBounds
    <3> QED BY <3>1, <3>2, BoundsStored
  <2> QED BY <2>1, BoundsStep
<1> QED BY <1>1, <1>2, PTL DEF AccountsSpec

=============================================================================
