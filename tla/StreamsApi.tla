------------------------------ MODULE StreamsApi ------------------------------
(***************************************************************************)
(* The streams of the API and the sockets that follow them: StreamsService *)
(* over the table streams, the ownership checks, and StreamsGateway with   *)
(* its rooms.  A PATCH is the ownership guard, a read that validates the   *)
(* status transition, an UPDATE by id and the announcement of the new      *)
(* status, each in a step of its own, so PATCHes, deletes, subscriptions   *)
(* and disconnects interleave between them.  Names, descriptions and       *)
(* timestamps are left out; a new socket is a new member of Sockets.       *)
(***************************************************************************)
EXTENDS Integers, FiniteSets

CONSTANTS
  ApiUsers,      \* user ids
  ApiStreams,    \* stream ids
  Patches,       \* concurrent PATCH and DELETE requests
  Sockets,       \* connections to the gateway
  NoOne,         \* a socket without a user
  MaxPatches,    \* bound: PATCH requests
  MaxDbFailures  \* bound: statements that report failure

ASSUME NoOneAssumption == NoOne \notin ApiUsers
ASSUME ApiBoundsAssumption == MaxPatches \in Nat /\ MaxDbFailures \in Nat

VARIABLES
  streams,      \* streams[s]: the row, NotCreated or Deleted
  patch,        \* patch[p]: what request p is at
  socket,       \* socket[c]: "new", "authenticating", "open" or "closed"
  userId,       \* userId[c]: client.data.userId
  rooms,        \* rooms[c]: the stream rooms c is in
  asked,        \* asked[c]: subscriptions of c that were checked and not answered
  gauge,        \* websocketActiveConnections
  patches,      \* PATCH requests so far
  dbFailures,   \* failed statements so far
  seenPublic    \* history: streams that were public while c was open

apiSpent   == <<patches, dbFailures>>
socketVars == <<socket, userId, rooms, asked, gauge>>
apiVars    == <<streams, patch, socketVars, apiSpent, seenPublic>>

Statuses     == {"inactive", "active", "error"}
Visibilities == {"private", "public"}
Rows         == [owner : ApiUsers, status : Statuses, visibility : Visibilities]
NotCreated   == [state |-> "not created"]
Deleted      == [state |-> "deleted"]
Same         == "same"   \* a field the PATCH does not name

\* Bodies that name both fields are left out.
PatchBodies ==
  [status : Statuses, visibility : {Same}] \cup [status : {Same}, visibility : Visibilities]
NoPatch     == [step |-> "none"]

\* "owned": the guard let it pass; "read": validated against the status seen;
\* "written": updated and not announced.
PatchSteps ==
  [step : {"owned", "read", "written"}, id : ApiStreams, body : PatchBodies,
   seen : Statuses]
    \cup [step : {"deleting"}, id : ApiStreams] \cup {NoPatch}

StreamsTypeOK ==
  /\ streams \in [ApiStreams -> Rows \cup {NotCreated, Deleted}]
  /\ patch \in [Patches -> PatchSteps]
  /\ socket \in [Sockets -> {"new", "authenticating", "open", "closed"}]
  /\ userId \in [Sockets -> ApiUsers \cup {NoOne}]
  /\ rooms \in [Sockets -> SUBSET ApiStreams]
  /\ asked \in [Sockets -> SUBSET (ApiStreams \X BOOLEAN)]
  /\ gauge \in Int
  /\ patches \in 0..MaxPatches
  /\ dbFailures \in 0..MaxDbFailures
  /\ seenPublic \in [Sockets -> SUBSET ApiStreams]

StreamsInit ==
  /\ streams = [s \in ApiStreams |-> NotCreated]
  /\ patch = [p \in Patches |-> NoPatch]
  /\ socket = [c \in Sockets |-> "new"]
  /\ userId = [c \in Sockets |-> NoOne]
  /\ rooms = [c \in Sockets |-> {}]
  /\ asked = [c \in Sockets |-> {}]
  /\ gauge = 0
  /\ patches = 0 /\ dbFailures = 0
  /\ seenPublic = [c \in Sockets |-> {}]

StreamExists(s) == streams[s] \notin {NotCreated, Deleted}
IsPublic(s)     == StreamExists(s) /\ streams[s].visibility = "public"

\* The history of every step: what has been public under the eyes of a socket.
Witnessed ==
  seenPublic' = [c \in Sockets |->
    IF socket'[c] = "open"
    THEN seenPublic[c] \cup {s \in ApiStreams : IsPublic(s) \/ IsPublic(s)'}
    ELSE seenPublic[c]]

-----------------------------------------------------------------------------
(* Streams *)

\* POST /streams
CreateStream(s, u, visibility) ==
  /\ streams[s] = NotCreated
  /\ streams' = [streams EXCEPT ![s] = [owner |-> u, status |-> "inactive",
                                        visibility |-> visibility]]
  /\ UNCHANGED <<patch, socketVars, apiSpent>>

\* ownsStream: a missing stream is not owned.
OwnsStream(u, s) == StreamExists(s) /\ streams[s].owner = u

GoesOnTo(p, next) == patch' = [patch EXCEPT ![p] = next]

\* PATCH /streams/:id passes StreamOwnershipGuard.
PatchArrives(p, u, s, body) ==
  /\ patch[p] = NoPatch
  /\ patches < MaxPatches /\ patches' = patches + 1
  /\ OwnsStream(u, s)
  /\ GoesOnTo(p, [step |-> "owned", id |-> s, body |-> body, seen |-> "inactive"])
  /\ UNCHANGED <<streams, socketVars, dbFailures>>

\* validateStatusTransition
Allowed(current, next) ==
  \/ current = "inactive" /\ next \in {"active", "error"}
  \/ current = "active" /\ next \in {"inactive", "error"}
  \/ current = "error" /\ next = "inactive"

\* Mutant: a stream in error may be patched without a check.
ValidUnlessError(s, new) ==
  StreamExists(s) /\ (new = Same \/ streams[s].status = "error"
                        \/ Allowed(streams[s].status, new))

\* The stream is found, and the new status is one it may go to.
Valid(s, new) ==
  StreamExists(s) /\ (new = Same \/ Allowed(streams[s].status, new))

\* update: findById, and the transition is validated: 404, 409, or on to the write.
PatchReads(p) ==
  /\ patch[p].step = "owned"
  /\ LET s == patch[p].id
     IN GoesOnTo(p, IF Valid(s, patch[p].body.status)
                    THEN [patch[p] EXCEPT !.step = "read", !.seen = streams[s].status]
                    ELSE NoPatch)
  /\ UNCHANGED <<streams, socketVars, apiSpent>>

Updated(row, body) ==
  [row EXCEPT !.status = IF body.status = Same THEN @ ELSE body.status,
              !.visibility = IF body.visibility = Same THEN @ ELSE body.visibility]

\* UPDATE streams ... WHERE id = $n: whatever the row has become.
WritesRow(p) ==
  LET s == patch[p].id IN
  streams' = IF StreamExists(s)
             THEN [streams EXCEPT ![s] = Updated(@, patch[p].body)] ELSE streams

\* The UPDATE is executed; a row that is gone is a 500.
PatchWrites(p) ==
  /\ patch[p].step = "read"
  /\ WritesRow(p)
  /\ IF StreamExists(patch[p].id) /\ patch[p].body.status # Same
     THEN GoesOnTo(p, [patch[p] EXCEPT !.step = "written"])
     ELSE GoesOnTo(p, NoPatch)
  /\ UNCHANGED <<socketVars, apiSpent>>

\* The UPDATE, applied or not, reports failure: a 503, and nothing is announced.
PatchFails(p, applied) ==
  /\ patch[p].step = "read"
  /\ dbFailures < MaxDbFailures /\ dbFailures' = dbFailures + 1
  /\ IF applied THEN WritesRow(p) ELSE UNCHANGED streams
  /\ GoesOnTo(p, NoPatch)
  /\ UNCHANGED <<socketVars, patches>>

\* dispatchStatusSideEffects: the webhooks, and the room of the stream.
PatchAnnounces(p) ==
  /\ patch[p].step = "written"
  /\ GoesOnTo(p, NoPatch)
  /\ UNCHANGED <<streams, socketVars, apiSpent>>

\* DELETE /streams/:id passes the guard.
DeleteArrives(p, u, s) ==
  /\ patch[p] = NoPatch
  /\ OwnsStream(u, s)
  /\ GoesOnTo(p, [step |-> "deleting", id |-> s])
  /\ UNCHANGED <<streams, socketVars, apiSpent>>

\* The DELETE; refused while rows of stream_data refer to the stream.  Members of
\* its room stay there.
DeleteStream(p, refused) ==
  /\ patch[p].step = "deleting"
  /\ streams' = IF refused THEN streams ELSE [streams EXCEPT ![patch[p].id] = Deleted]
  /\ GoesOnTo(p, NoPatch)
  /\ UNCHANGED <<socketVars, apiSpent>>

-----------------------------------------------------------------------------
(* Sockets *)

Connect(c) ==
  /\ socket[c] = "new"
  /\ socket' = [socket EXCEPT ![c] = "authenticating"]
  /\ UNCHANGED <<streams, patch, userId, rooms, asked, gauge, apiSpent>>

\* handleConnection: authenticate() resolves; the gauge counts the socket even if it
\* has disconnected meanwhile.
Authenticated(c, u) ==
  /\ socket[c] \in {"authenticating", "closed"}
  /\ userId[c] = NoOne
  /\ userId' = [userId EXCEPT ![c] = u]
  /\ socket' = [socket EXCEPT ![c] = IF @ = "closed" THEN @ ELSE "open"]
  /\ gauge' = gauge + 1
  /\ UNCHANGED <<streams, patch, rooms, asked, apiSpent>>

\* The socket closes: by its client, or because it was rejected.  Socket.IO takes it
\* out of its rooms, and handleDisconnect lowers the gauge in any case.
Disconnects(c) ==
  /\ socket[c] \in {"authenticating", "open"}
  /\ socket' = [socket EXCEPT ![c] = "closed"]
  /\ rooms' = [rooms EXCEPT ![c] = {}]
  /\ gauge' = gauge - 1
  /\ UNCHANGED <<streams, patch, userId, asked, apiSpent>>

\* Mutant: every stream that exists may be followed.
CanSubscribeAny(u, s) == StreamExists(s)

\* canSubscribe: the owner, or anybody if the stream is public.
CanSubscribe(u, s) == OwnsStream(u, s) \/ IsPublic(s)

\* stream:subscribe, up to the answer of canSubscribe's query.
SubscribeAsks(c, s) ==
  /\ socket[c] = "open"
  /\ asked' = [asked EXCEPT ![c] = @ \cup {<<s, CanSubscribe(userId[c], s)>>}]
  /\ UNCHANGED <<streams, patch, socket, userId, rooms, gauge, apiSpent>>

\* The rest of handleSubscribe: the socket joins if it was allowed to; joining does
\* nothing on a closed socket.
SubscribeJoins(c, answer) ==
  /\ answer \in asked[c]
  /\ asked' = [asked EXCEPT ![c] = @ \ {answer}]
  /\ rooms' = IF answer[2] /\ socket[c] = "open"
              THEN [rooms EXCEPT ![c] = @ \cup {answer[1]}] ELSE rooms
  /\ UNCHANGED <<streams, patch, socket, userId, gauge, apiSpent>>

\* stream:unsubscribe
Unsubscribe(c, s) ==
  /\ socket[c] = "open"
  /\ s \in rooms[c]
  /\ rooms' = [rooms EXCEPT ![c] = @ \ {s}]
  /\ UNCHANGED <<streams, patch, socket, userId, asked, gauge, apiSpent>>

-----------------------------------------------------------------------------

StreamRequests ==
  \/ \E s \in ApiStreams, u \in ApiUsers :
       \/ \E v \in Visibilities : CreateStream(s, u, v)
       \/ \E p \in Patches : DeleteArrives(p, u, s)
       \/ \E p \in Patches, body \in PatchBodies : PatchArrives(p, u, s, body)
  \/ \E p \in Patches :
       \/ PatchReads(p) \/ PatchWrites(p) \/ PatchAnnounces(p)
       \/ \E yes \in BOOLEAN : PatchFails(p, yes) \/ DeleteStream(p, yes)

Connections ==
  \E c \in Sockets :
    \/ Connect(c) \/ Disconnects(c)
    \/ \E u \in ApiUsers : Authenticated(c, u)
    \/ \E s \in ApiStreams : SubscribeAsks(c, s) \/ Unsubscribe(c, s)
    \/ \E answer \in asked[c] : SubscribeJoins(c, answer)

StreamsNext == (StreamRequests \/ Connections) /\ Witnessed

StreamsSpec == StreamsInit /\ [][StreamsNext]_apiVars

-----------------------------------------------------------------------------
(* Properties *)

\* Request p writes its UPDATE on a row whose status is not the one it validated.
Overtaken(p) ==
  /\ patch[p].step = "read" /\ patch'[p].step # "read"
  /\ StreamExists(patch[p].id)
  /\ patch[p].seen # streams[patch[p].id].status

\* The status of a stream changes along the transitions that are allowed, unless
\* another request has changed it between the check and the write.
StatusChangesLegal ==
  [][\A s \in ApiStreams :
       StreamExists(s) /\ StreamExists(s)' /\ streams'[s].status # streams[s].status =>
         \/ Allowed(streams[s].status, streams'[s].status)
         \/ \E p \in Patches : patch[p] # NoPatch /\ patch[p].id = s /\ Overtaken(p)
    ]_apiVars

\* A socket is in the room of a stream of somebody else only if that stream has been
\* public while the socket was open: whatever happens to the visibility, the stream
\* or the socket between the check of a subscription and its join.
RoomsAdmitted ==
  \A c \in Sockets, s \in ApiStreams :
    s \in rooms[c] => \/ s \in seenPublic[c]
                      \/ streams[s] = Deleted
                      \/ streams[s].owner = userId[c]
=============================================================================
