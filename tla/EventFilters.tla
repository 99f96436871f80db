---------------------------- MODULE EventFilters ----------------------------
(***************************************************************************)
(* The per-stream event filter of a fleet of workers: EventFilter with its *)
(* RedisFilterConfigStore.  Every worker decides from a map of its own,    *)
(* which it fills from a Redis hash when it starts, from a pub/sub channel *)
(* while it runs, and again from the hash by a periodic reconcile scan.    *)
(*                                                                         *)
(* A change is applied to the map of the worker that makes it at once; its *)
(* write to the hash waits until that worker has started, and its message  *)
(* is published after the write.  Commands may fail or be sent again by    *)
(* ioredis, messages are lost with the subscriber's connection, workers    *)
(* crash and come back.  A configuration stands for its list of blocked    *)
(* event types.                                                            *)
(***************************************************************************)
EXTENDS Naturals, Sequences

CONSTANTS
  FilterWorkers,      \* the workers that share the Redis hash
  FilterStreams,      \* ids of streams
  FilterConfigs,      \* filter configurations
  Unset,              \* "no configuration"
  MaxFilterChanges,   \* bound: setConfig and clearConfig calls
  MaxFilterFaults     \* bound: failed or repeated commands, lost connections,
                      \* crashes

ASSUME UnsetAssumption == Unset \notin FilterConfigs
ASSUME FilterBoundsAssumption == MaxFilterChanges \in Nat /\ MaxFilterFaults \in Nat

VARIABLES
  hash,           \* the Redis hash: hash[s] is the configuration of s, or Unset
  configs,        \* configs[w][s]: the map EventFilter.allow() of w looks into
  phase,          \* phase[w]: how far w's store is installed
  snapshot,       \* snapshot[w]: the hash as w has read it and not applied yet
  channel,        \* channel[w]: messages on their way to w
  write,          \* write[w]: the change w is writing to the store
  filterChanges,  \* changes so far
  filterFaults    \* faults so far

filterSpent == <<filterChanges, filterFaults>>
filterVars  == <<hash, configs, phase, snapshot, channel, write, filterSpent>>

\* What the hash and the maps hold.
Filters == [FilterStreams -> FilterConfigs \cup {Unset}]

\* A change of one stream; to Unset when it is cleared.
Changes == [stream : FilterStreams, to : FilterConfigs \cup {Unset}]

NoSnapshot == [read |-> FALSE]
NoWrite    == [step |-> "none"]

\* "wait": until the store has started; "hash": HSET or HDEL; "publish": PUBLISH.
Writes == [step : {"wait", "hash", "publish"}, change : Changes] \cup {NoWrite}

\* "reading": HGETALL under way; "read": connecting the subscriber; "listening":
\* subscribed, the snapshot not merged yet.
Phases == {"new", "reading", "read", "listening", "started", "closed"}

FilterTypeOK ==
  /\ hash \in Filters
  /\ configs \in [FilterWorkers -> Filters]
  /\ phase \in [FilterWorkers -> Phases]
  /\ snapshot \in [FilterWorkers -> [read : {TRUE}, hash : Filters] \cup {NoSnapshot}]
  /\ channel \in [FilterWorkers -> Seq(Changes)]
  /\ write \in [FilterWorkers -> Writes]
  /\ filterChanges \in 0..MaxFilterChanges
  /\ filterFaults \in 0..MaxFilterFaults
  /\ \A w \in FilterWorkers :
       phase[w] \in {"read", "listening"} => snapshot[w] # NoSnapshot

Empty == [s \in FilterStreams |-> Unset]

FilterInit ==
  /\ hash = Empty
  /\ configs = [w \in FilterWorkers |-> Empty]
  /\ phase = [w \in FilterWorkers |-> "new"]
  /\ snapshot = [w \in FilterWorkers |-> NoSnapshot]
  /\ channel = [w \in FilterWorkers |-> <<>>]
  /\ write = [w \in FilterWorkers |-> NoWrite]
  /\ filterChanges = 0 /\ filterFaults = 0

FilterFault ==
  /\ filterFaults < MaxFilterFaults
  /\ filterFaults' = filterFaults + 1
  /\ UNCHANGED filterChanges

Applied(map, change) == [map EXCEPT ![change.stream] = change.to]

-----------------------------------------------------------------------------
(* Starting a store *)

\* ensureStarted: the first call installs the store, the others share its promise.
EnsureStarted(w) ==
  phase' = [phase EXCEPT ![w] = IF @ = "new" THEN "reading" ELSE @]

\* EventFilter.start, when the worker boots.
StartFilter(w) ==
  /\ phase[w] = "new"
  /\ EnsureStarted(w)
  /\ UNCHANGED <<hash, configs, snapshot, channel, write, filterSpent>>

\* install: the HGETALL is answered.
InstallReads(w) ==
  /\ phase[w] = "reading"
  /\ phase' = [phase EXCEPT ![w] = "read"]
  /\ snapshot' = [snapshot EXCEPT ![w] = [read |-> TRUE, hash |-> hash]]
  /\ UNCHANGED <<hash, configs, channel, write, filterSpent>>

\* install: the SUBSCRIBE is executed; from now on messages are sent to w.
InstallSubscribes(w) ==
  /\ phase[w] = "read"
  /\ phase' = [phase EXCEPT ![w] = "listening"]
  /\ UNCHANGED <<hash, configs, snapshot, channel, write, filterSpent>>

\* Mutant: only streams without a local configuration are filled in.
MergedMissing(map, read) ==
  [s \in FilterStreams |-> IF map[s] = Unset THEN read[s] ELSE map[s]]

\* Every configuration of the snapshot is set; no stream is cleared.
Merged(map, read) ==
  [s \in FilterStreams |-> IF read[s] = Unset THEN map[s] ELSE read[s]]

MergeSnapshot(w) ==
  /\ configs' = [configs EXCEPT ![w] = Merged(@, snapshot[w].hash)]
  /\ snapshot' = [snapshot EXCEPT ![w] = NoSnapshot]

\* install returns and doStart merges the snapshot; the write that waited goes on.
Started(w) ==
  /\ phase[w] = "listening"
  /\ MergeSnapshot(w)
  /\ phase' = [phase EXCEPT ![w] = "started"]
  /\ write' = [write EXCEPT ![w] = IF @.step = "wait" THEN [@ EXCEPT !.step = "hash"]
                                   ELSE @]
  /\ UNCHANGED <<hash, channel, filterSpent>>

\* install rejects: a later call may try again, the write that waited rejects too
\* while its change stays in the local map.
InstallFails(w) ==
  /\ phase[w] \in {"reading", "read"}
  /\ FilterFault
  /\ phase' = [phase EXCEPT ![w] = "new"]
  /\ snapshot' = [snapshot EXCEPT ![w] = NoSnapshot]
  /\ write' = [write EXCEPT ![w] = NoWrite]
  /\ UNCHANGED <<hash, configs, channel>>

-----------------------------------------------------------------------------
(* Changing a configuration *)

\* setConfig, or clearConfig when the change is to Unset: one at a time per worker
\* (bound).
ChangeFilter(w, change) ==
  /\ filterChanges < MaxFilterChanges
  /\ phase[w] # "closed"
  /\ write[w] = NoWrite
  /\ configs' = [configs EXCEPT ![w] = Applied(@, change)]
  /\ EnsureStarted(w)
  /\ write' = [write EXCEPT ![w] =
                 [step |-> IF phase[w] = "started" THEN "hash" ELSE "wait",
                  change |-> change]]
  /\ filterChanges' = filterChanges + 1
  /\ UNCHANGED <<hash, snapshot, channel, filterFaults>>

Listening(w) == phase[w] \in {"listening", "started"}

\* Redis executes the command of w's write.
ExecuteCommand(w) ==
  IF write[w].step = "hash"
  THEN hash' = Applied(hash, write[w].change) /\ UNCHANGED channel
  ELSE /\ channel' = [v \in FilterWorkers |->
                        IF Listening(v) THEN Append(channel[v], write[w].change)
                        ELSE channel[v]]
       /\ UNCHANGED hash

\* The command of w's write is executed and answered: PUBLISH follows HSET or HDEL.
WriteGoesOn(w) ==
  /\ write[w].step \in {"hash", "publish"}
  /\ ExecuteCommand(w)
  /\ write' = [write EXCEPT ![w] = IF @.step = "hash"
                                   THEN [@ EXCEPT !.step = "publish"] ELSE NoWrite]
  /\ UNCHANGED <<configs, phase, snapshot, filterSpent>>

\* The connection breaks after the command was executed: ioredis sends it again.
WriteRepeats(w) ==
  /\ write[w].step \in {"hash", "publish"}
  /\ FilterFault
  /\ ExecuteCommand(w)
  /\ UNCHANGED <<configs, phase, snapshot, write>>

\* The command is given up: the rest of the change is not written.
WriteFails(w) ==
  /\ write[w].step \in {"hash", "publish"}
  /\ FilterFault
  /\ write' = [write EXCEPT ![w] = NoWrite]
  /\ UNCHANGED <<hash, configs, phase, snapshot, channel>>

-----------------------------------------------------------------------------
(* Following the changes of others *)

\* The message handler: applyChange.
ReceiveChange(w) ==
  /\ phase[w] = "started"
  /\ channel[w] # <<>>
  /\ configs' = [configs EXCEPT ![w] = Applied(@, Head(channel[w]))]
  /\ channel' = [channel EXCEPT ![w] = Tail(@)]
  /\ UNCHANGED <<hash, phase, snapshot, write, filterSpent>>

\* The subscriber's connection breaks: what was on its way is lost.
LoseMessages(w) ==
  /\ channel[w] # <<>>
  /\ FilterFault
  /\ channel' = [channel EXCEPT ![w] = <<>>]
  /\ UNCHANGED <<hash, configs, phase, snapshot, write>>

\* reconcile: the interval fires and HGETALL is executed; one scan at a time (bound).
ReconcileReads(w) ==
  /\ phase[w] = "started"
  /\ snapshot[w] = NoSnapshot
  /\ snapshot' = [snapshot EXCEPT ![w] = [read |-> TRUE, hash |-> hash]]
  /\ UNCHANGED <<hash, configs, phase, channel, write, filterSpent>>

\* reconcile: a "set" for every entry that was read.
ReconcileApplies(w) ==
  /\ phase[w] = "started"
  /\ snapshot[w] # NoSnapshot
  /\ MergeSnapshot(w)
  /\ UNCHANGED <<hash, phase, channel, write, filterSpent>>

\* The HGETALL of a reconcile scan is rejected and logged.
ReconcileFails(w) ==
  /\ phase[w] = "started"
  /\ snapshot[w] # NoSnapshot
  /\ FilterFault
  /\ snapshot' = [snapshot EXCEPT ![w] = NoSnapshot]
  /\ UNCHANGED <<hash, configs, phase, channel, write>>

-----------------------------------------------------------------------------
(* The end of a worker *)

\* What a worker has on its way is dropped.
Disconnect(w) ==
  /\ snapshot' = [snapshot EXCEPT ![w] = NoSnapshot]
  /\ channel' = [channel EXCEPT ![w] = <<>>]
  /\ write' = [write EXCEPT ![w] = NoWrite]

\* EventFilter.close: the interval is cleared, both connections are closed.
CloseFilter(w) ==
  /\ phase[w] # "closed"
  /\ phase' = [phase EXCEPT ![w] = "closed"]
  /\ Disconnect(w)
  /\ UNCHANGED <<hash, configs, filterSpent>>

\* A worker takes the place of one that has closed its store or crashed, with an
\* empty map.
ReplaceWorker(w) ==
  /\ FilterFault
  /\ phase[w] # "new"
  /\ phase' = [phase EXCEPT ![w] = "new"]
  /\ configs' = [configs EXCEPT ![w] = Empty]
  /\ Disconnect(w)
  /\ UNCHANGED hash

-----------------------------------------------------------------------------

Install(w) == InstallReads(w) \/ InstallSubscribes(w) \/ Started(w)

FilterNext ==
  \E w \in FilterWorkers :
    \/ StartFilter(w) \/ Install(w) \/ InstallFails(w)
    \/ \E change \in Changes : ChangeFilter(w, change)
    \/ WriteGoesOn(w) \/ WriteRepeats(w) \/ WriteFails(w)
    \/ ReceiveChange(w) \/ LoseMessages(w)
    \/ ReconcileReads(w) \/ ReconcileApplies(w) \/ ReconcileFails(w)
    \/ CloseFilter(w) \/ ReplaceWorker(w)

FilterSpec == FilterInit /\ [][FilterNext]_filterVars

\* Redis answers, delivers what it has not lost, and the interval keeps firing.
\* Nothing obliges anybody to start a filter or to change one.
FilterFairness ==
  \A w \in FilterWorkers :
    /\ WF_filterVars(Install(w))
    /\ WF_filterVars(WriteGoesOn(w))
    /\ WF_filterVars(ReceiveChange(w))
    /\ WF_filterVars(ReconcileReads(w))
    /\ WF_filterVars(ReconcileApplies(w))

-----------------------------------------------------------------------------
(* Properties *)

\* A configuration that stays in the hash reaches every worker that stays up, past
\* lost messages, failed and repeated commands, and snapshots and messages that
\* arrive late; nothing undoes it for good.  (Clearing a configuration has no such
\* guarantee: the reconcile scan never clears.)
FilterSetConverges ==
  \A w \in FilterWorkers, s \in FilterStreams, c \in FilterConfigs :
    <>[](phase[w] = "started" /\ hash[s] = c) => <>[](configs[w][s] = c)
=============================================================================
