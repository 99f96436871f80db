------------------------------ MODULE StreamTags ------------------------------
(***************************************************************************)
(* The tags of a stream, in the database and in the query cache of the     *)
(* dashboard's tag editor.  Attaching is two statements behind a guard,    *)
(* detaching as well.  The editor shows every change at once, rolls back   *)
(* to a snapshot of its own when a request fails, and reads the tags again *)
(* after each; requests and reads overlap, and an answer may be lost after *)
(* the request was carried out, or before.  The cache is that of React     *)
(* Query: reads are refetches that the newest invalidation restarts.  The  *)
(* order of the tags, their names and the suggestions are left out; no     *)
(* other client changes the tags, and the editor stays mounted.            *)
(***************************************************************************)
EXTENDS Integers, FiniteSets

CONSTANTS
  Tags,          \* tags, by slug
  Edits,         \* concurrent attach and detach requests
  Absent,        \* the cache without data
  MaxEdits,      \* bound: requests
  MaxTagFaults   \* bound: broken connections and failed reads

ASSUME TagBoundsAssumption == MaxEdits \in Nat /\ MaxTagFaults \in Nat

VARIABLES
  tagRows,     \* the table tags
  attached,    \* the table stream_tags, for this stream
  tagCache,    \* the data under streamKeys.tags(streamId)
  tagsStale,   \* isInvalidated of that query
  tagsRead,    \* the read in flight: [at, data]
  edit,        \* edit[e]: the request e
  edits,       \* requests so far
  tagFaults,   \* faults so far
  carriedOut   \* history: whether a request given up has taken effect since the last
               \* read that arrived: "no", "unread", or "read" by the one in flight

tagVars == <<tagRows, attached, tagCache, tagsStale, tagsRead, edit, edits, tagFaults,
             carriedOut>>

\* A chip: a tag as the server has it, or the placeholder of one being attached.
Chip(t)        == [tag |-> t, real |-> TRUE]
Placeholder(t) == [tag |-> t, real |-> FALSE]
Chips          == [tag : Tags, real : BOOLEAN]

NoEdit  == [at |-> "idle"]
NotRead == [at |-> "no", data |-> {}]

\* "sent": not looked at; "known": the tag exists; "ok", "error": answered.
TagEdits ==
  [at : {"sent", "known", "ok", "error"}, kind : {"attach", "detach"}, chip : Chips,
   before : (SUBSET Chips) \cup {Absent}, givenUp : BOOLEAN] \cup {NoEdit}

TagsTypeOK ==
  /\ tagRows \subseteq Tags
  /\ attached \subseteq tagRows
  /\ tagCache \in (SUBSET Chips) \cup {Absent}
  /\ tagsStale \in BOOLEAN
  /\ tagsRead \in [at : {"no", "asked", "answered"}, data : SUBSET Tags]
  /\ edit \in [Edits -> TagEdits]
  /\ edits \in 0..MaxEdits
  /\ tagFaults \in 0..MaxTagFaults
  /\ carriedOut \in {"no", "unread", "read"}

TagsInit ==
  /\ tagRows \in SUBSET Tags
  /\ attached \in SUBSET tagRows
  /\ tagCache = Absent
  /\ tagsStale = FALSE
  /\ tagsRead = NotRead
  /\ edit = [e \in Edits |-> NoEdit]
  /\ edits = 0 /\ tagFaults = 0
  /\ carriedOut = "no"

Cached   == IF tagCache = Absent THEN {} ELSE tagCache
InHand(e, kind) == edit[e].at # "idle" /\ edit[e].kind = kind /\ ~edit[e].givenUp
BecomesEdit(e, next) == edit' = [edit EXCEPT ![e] = next]

TagFault == tagFaults < MaxTagFaults /\ tagFaults' = tagFaults + 1

-----------------------------------------------------------------------------
(* The query *)

\* useStreamTags reads on mount, and again when the data is stale: it was
\* invalidated or is old, and the window gets the focus.
ReadBegins ==
  /\ tagsRead.at = "no"
  /\ tagsRead' = [NotRead EXCEPT !.at = "asked"]
  /\ UNCHANGED <<tagRows, attached, tagCache, tagsStale, edit, edits, tagFaults, carriedOut>>

\* GET /streams/:id/tags is executed.
ReadExecuted ==
  /\ tagsRead.at = "asked"
  /\ tagsRead' = [at |-> "answered", data |-> attached]
  /\ carriedOut' = IF carriedOut = "no" THEN "no" ELSE "read"
  /\ UNCHANGED <<tagRows, attached, tagCache, tagsStale, edit, edits, tagFaults>>

\* The answer replaces whatever the edits in hand have put into the cache.
ReadEnds ==
  /\ tagsRead.at = "answered"
  /\ tagCache' = {Chip(t) : t \in tagsRead.data}
  /\ tagsStale' = FALSE
  /\ tagsRead' = NotRead
  /\ carriedOut' = IF carriedOut = "read" THEN "no" ELSE carriedOut
  /\ UNCHANGED <<tagRows, attached, edit, edits, tagFaults>>

\* No answer to the read in flight will arrive.
ReadDropped == carriedOut' = IF carriedOut = "read" THEN "unread" ELSE carriedOut

\* The read and its retry fail: the data stays, and stays invalidated if it was.
ReadFails ==
  /\ tagsRead.at # "no"
  /\ TagFault
  /\ tagsRead' = NotRead
  /\ ReadDropped
  /\ UNCHANGED <<tagRows, attached, tagCache, tagsStale, edit, edits>>

-----------------------------------------------------------------------------
(* The editor *)

\* onMutate of either hook: setQueryData, which also takes the mark of an
\* invalidation off.
Shows(e, kind, chip, data) ==
  /\ edit[e] = NoEdit
  /\ edits < MaxEdits /\ edits' = edits + 1
  /\ tagCache' = data
  /\ tagsStale' = FALSE
  /\ BecomesEdit(e, [at |-> "sent", kind |-> kind, chip |-> chip, before |-> tagCache,
                     givenUp |-> FALSE])
  /\ UNCHANGED <<tagRows, attached, tagsRead, tagFaults, carriedOut>>

\* useAttachTag: from the combobox, which is disabled while an attach is pending.  A
\* tag that was created there is attached a second time.
Attach(e, t) ==
  /\ \A f \in Edits : ~InHand(f, "attach")
  /\ Shows(e, "attach", Placeholder(t), Cached \cup {Placeholder(t)})

\* useDetachTag: from a chip, which is never disabled, not even as a placeholder.
Detach(e, chip) ==
  /\ chip \in Cached
  /\ Shows(e, "detach", chip, Cached \ {chip})

\* Mutant: only a success is followed by a new read.
InvalidatesOnSuccess(ok) ==
  IF ok THEN tagsStale' = TRUE /\ tagsRead' = [NotRead EXCEPT !.at = "asked"] /\ ReadDropped
        ELSE tagsStale' = FALSE /\ UNCHANGED <<tagsRead, carriedOut>>

\* onSettled: the query is invalidated, and read anew instead of a read in flight.
Invalidates(ok) ==
  tagsStale' = TRUE /\ tagsRead' = [NotRead EXCEPT !.at = "asked"] /\ ReadDropped

\* onSuccess: the placeholder becomes the tag.
EditSucceeds(e) ==
  /\ edit[e].at = "ok" /\ ~edit[e].givenUp
  /\ LET chip == edit[e].chip IN
     tagCache' = IF edit[e].kind = "attach" /\ Placeholder(chip.tag) \in Cached
                 THEN (Cached \ {Placeholder(chip.tag)}) \cup {Chip(chip.tag)}
                 ELSE Cached
  /\ Invalidates(TRUE)
  /\ BecomesEdit(e, NoEdit)
  /\ UNCHANGED <<tagRows, attached, edits, tagFaults>>

\* onError: back to the snapshot, if there was one, and the other edits with it.
RollsBack(e) ==
  /\ tagCache' = IF edit[e].before = Absent THEN tagCache ELSE edit[e].before
  /\ Invalidates(FALSE)

EditFails(e) ==
  /\ edit[e].at = "error" /\ ~edit[e].givenUp
  /\ RollsBack(e)
  /\ BecomesEdit(e, NoEdit)
  /\ UNCHANGED <<tagRows, attached, edits, tagFaults>>

\* The connection breaks: an error for the editor, while the server goes on with what
\* has reached it.
EditBreaks(e) ==
  /\ edit[e].at # "idle" /\ ~edit[e].givenUp
  /\ TagFault
  /\ RollsBack(e)
  /\ BecomesEdit(e, IF edit[e].at \in {"ok", "error"} THEN NoEdit
                    ELSE [edit[e] EXCEPT !.givenUp = TRUE])
  /\ UNCHANGED <<tagRows, attached, edits>>

-----------------------------------------------------------------------------
(* The server *)

Answers(e, at) == BecomesEdit(e, IF edit[e].givenUp THEN NoEdit ELSE [edit[e] EXCEPT !.at = at])

TagUnchanged == UNCHANGED <<tagCache, tagsStale, tagsRead, edits, tagFaults>>

\* upsertBySlug
AttachUpserts(e) ==
  /\ edit[e].at = "sent" /\ edit[e].kind = "attach"
  /\ tagRows' = tagRows \cup {edit[e].chip.tag}
  /\ BecomesEdit(e, [edit[e] EXCEPT !.at = "known"])
  /\ TagUnchanged /\ UNCHANGED <<attached, carriedOut>>

\* attachToStream: ON CONFLICT DO NOTHING.
AttachInserts(e) ==
  /\ edit[e].at = "known" /\ edit[e].kind = "attach"
  /\ attached' = attached \cup {edit[e].chip.tag}
  /\ carriedOut' = IF edit[e].givenUp THEN "unread" ELSE carriedOut
  /\ Answers(e, "ok")
  /\ TagUnchanged /\ UNCHANGED tagRows

\* findById: a placeholder has the id of no tag.
DetachFinds(e) ==
  /\ edit[e].at = "sent" /\ edit[e].kind = "detach"
  /\ IF edit[e].chip.real /\ edit[e].chip.tag \in tagRows
     THEN BecomesEdit(e, [edit[e] EXCEPT !.at = "known"]) ELSE Answers(e, "error")
  /\ TagUnchanged /\ UNCHANGED <<tagRows, attached, carriedOut>>

\* detachFromStream: a tag that is not attached is an error.
DetachDeletes(e) ==
  /\ edit[e].at = "known" /\ edit[e].kind = "detach"
  /\ attached' = attached \ {edit[e].chip.tag}
  /\ carriedOut' = IF edit[e].givenUp THEN "unread" ELSE carriedOut
  /\ Answers(e, IF edit[e].chip.tag \in attached THEN "ok" ELSE "error")
  /\ TagUnchanged /\ UNCHANGED tagRows

\* The guard or a statement fails, or the request never reaches the server.
EditRefused(e) ==
  /\ edit[e].at \in {"sent", "known"}
  /\ Answers(e, "error")
  /\ TagUnchanged /\ UNCHANGED <<tagRows, attached, carriedOut>>

TagsNext ==
  \/ ReadBegins \/ ReadExecuted \/ ReadEnds \/ ReadFails
  \/ \E e \in Edits :
       \/ \E t \in Tags : Attach(e, t)
       \/ \E chip \in Chips : Detach(e, chip)
       \/ EditSucceeds(e) \/ EditFails(e) \/ EditBreaks(e)
       \/ AttachUpserts(e) \/ AttachInserts(e) \/ DetachFinds(e) \/ DetachDeletes(e)
       \/ EditRefused(e)

TagsSpec == TagsInit /\ [][TagsNext]_tagVars

-----------------------------------------------------------------------------
(* Properties *)

\* Once no edit is in hand, no read in flight and the cache not marked as stale, the
\* chips are the tags of the server: the rollbacks of overlapping edits, which bring
\* back snapshots that are out of date, never stay.  Excepted is the time after a
\* request that the editor had given up was carried out, until a read made later arrives.
SettledTagsAreServed ==
  (\A e \in Edits : edit[e].at = "idle") /\ tagsRead.at = "no" /\ ~tagsStale
    /\ tagCache # Absent /\ carriedOut = "no"
  => tagCache = {Chip(t) : t \in attached}
=============================================================================
