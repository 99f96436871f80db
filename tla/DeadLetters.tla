----------------------------- MODULE DeadLetters -----------------------------
(***************************************************************************)
(* The dead-letter file of a worker (FileDeadLetterStore).  record() reads *)
(* the whole file, adds its record, writes everything to a temporary file  *)
(* and renames that; a chain of promises lets one call run at a time,      *)
(* whether the one before it succeeded or failed.  The file is a set of    *)
(* records by key; what a record says of its event is left out.  Every     *)
(* worker process has a file of its own.                                   *)
(***************************************************************************)
EXTENDS Sequences

CONSTANTS
  Recorders,    \* concurrent calls of record()
  Letters       \* keys of dead-lettered events

VARIABLES
  file,       \* the records in the file
  temporary,  \* the records in the temporary file
  chain,      \* the calls that have not settled, in their order (pendingWrite)
  call,       \* call[c]: what call c is at
  recorded    \* history: records whose call has resolved

letterVars == <<file, temporary, chain, call, recorded>>

NoCall == [step |-> "none"]

\* "queued": behind others in the chain; "read": the file was read; "written": the
\* temporary file was written; "renamed": it has replaced the file.
CallSteps == [step : {"queued", "read", "written", "renamed"}, key : Letters,
              records : SUBSET Letters] \cup {NoCall}

LettersTypeOK ==
  /\ file \in SUBSET Letters
  /\ temporary \in SUBSET Letters
  /\ chain \in Seq(Recorders)
  /\ call \in [Recorders -> CallSteps]
  /\ recorded \in SUBSET Letters

LettersInit ==
  /\ file = {} /\ temporary = {}
  /\ chain = <<>>
  /\ call = [c \in Recorders |-> NoCall]
  /\ recorded = {}

\* record: the call is appended to the chain.
RecordLetter(c, k) ==
  /\ call[c] = NoCall
  /\ call' = [call EXCEPT ![c] = [step |-> "queued", key |-> k, records |-> {}]]
  /\ chain' = Append(chain, c)
  /\ UNCHANGED <<file, temporary, recorded>>

\* Mutant: the calls are not chained.
RunsUnchained(c) == call[c] # NoCall

\* The calls before c have settled.
Runs(c) == chain # <<>> /\ Head(chain) = c

GoesTo(c, step, records) ==
  call' = [call EXCEPT ![c].step = step, ![c].records = records]

\* readRecords, and the record is put in.
ReadLetters(c) ==
  /\ Runs(c)
  /\ call[c].step = "queued"
  /\ GoesTo(c, "read", file \cup {call[c].key})
  /\ UNCHANGED <<file, temporary, chain, recorded>>

\* writeFile of the temporary file.
WriteTemporary(c) ==
  /\ Runs(c)
  /\ call[c].step = "read"
  /\ temporary' = call[c].records
  /\ GoesTo(c, "written", call[c].records)
  /\ UNCHANGED <<file, chain, recorded>>

\* rename: the temporary file takes the place of the file at once.
RenameTemporary(c) ==
  /\ Runs(c)
  /\ call[c].step = "written"
  /\ file' = temporary
  /\ temporary' = {}
  /\ GoesTo(c, "renamed", call[c].records)
  /\ UNCHANGED <<chain, recorded>>

\* Call c, which is the first of the chain, settles.
Leaves(c) ==
  /\ chain' = Tail(chain)
  /\ call' = [call EXCEPT ![c] = NoCall]

\* The call resolves.
RecordResolves(c) ==
  /\ call[c].step = "renamed"
  /\ recorded' = recorded \cup {call[c].key}
  /\ Leaves(c)
  /\ UNCHANGED <<file, temporary>>

\* Reading, writing or renaming fails: the call rejects, the next one runs.  What
\* writeFile left of the temporary file does not matter: nobody reads it.
RecordRejects(c) ==
  /\ Runs(c)
  /\ call[c].step \in {"queued", "read", "written"}
  /\ temporary' = {}
  /\ Leaves(c)
  /\ UNCHANGED <<file, recorded>>

\* The process ends with calls in the chain; the file stays.
LettersCrash ==
  /\ chain # <<>>
  /\ chain' = <<>>
  /\ call' = [c \in Recorders |-> NoCall]
  /\ UNCHANGED <<file, temporary, recorded>>

LettersNext ==
  \/ \E c \in Recorders :
       \/ \E k \in Letters : RecordLetter(c, k)
       \/ ReadLetters(c) \/ WriteTemporary(c) \/ RenameTemporary(c)
       \/ RecordResolves(c) \/ RecordRejects(c)
  \/ LettersCrash

LettersSpec == LettersInit /\ [][LettersNext]_letterVars

-----------------------------------------------------------------------------
(* Properties *)

\* A record whose call has resolved is in the file from then on: concurrent and
\* failing calls, a half-written temporary file and a crash at any step lose none.
DeadLettersKept == recorded \subseteq file
=============================================================================
