-------------------------------- MODULE Toasts --------------------------------
(***************************************************************************)
(* The toasts of the web application: the reducer over the list that is    *)
(* shown, and the timers that remove what has been dismissed.  A toast may *)
(* be updated or dismissed after another has taken its place.              *)
(***************************************************************************)
EXTENDS Integers, FiniteSets, Sequences

CONSTANTS
  ToastIds,   \* the toasts of a session, in genId's order
  ToastLimit  \* TOAST_LIMIT

ASSUME ToastAssumption == ToastIds \subseteq Nat /\ ToastLimit \in Nat \ {0}

VARIABLES
  toasts,    \* the toasts shown, newest first: [id, open]
  timeouts,  \* toastTimeouts: the ids with a timer
  used,      \* the ids given out
  dismissed  \* history: the ids whose toast was dismissed while it was shown

toastVars == <<toasts, timeouts, used, dismissed>>

ToastsTypeOK ==
  /\ toasts \in Seq([id : ToastIds, open : BOOLEAN])
  /\ Len(toasts) <= ToastLimit
  /\ timeouts \subseteq ToastIds
  /\ used \subseteq ToastIds
  /\ dismissed \subseteq used

ToastsInit == toasts = <<>> /\ timeouts = {} /\ used = {} /\ dismissed = {}

Shown == {toasts[i].id : i \in DOMAIN toasts}

Restated(ids, open) ==
  [i \in DOMAIN toasts |->
     IF toasts[i].id \in ids THEN [toasts[i] EXCEPT !.open = open] ELSE toasts[i]]

-----------------------------------------------------------------------------

\* ADD_TOAST
AddToast(t) ==
  /\ t \in ToastIds \ used
  /\ used' = used \cup {t}
  /\ LET all == <<[id |-> t, open |-> TRUE]>> \o toasts
     IN toasts' = SubSeq(all, 1, IF Len(all) < ToastLimit THEN Len(all) ELSE ToastLimit)
  /\ UNCHANGED <<timeouts, dismissed>>

\* UPDATE_TOAST; the properties it is given may open the toast again.
UpdateToast(t, open) ==
  /\ t \in used
  /\ toasts' = Restated({t}, open)
  /\ UNCHANGED <<timeouts, used, dismissed>>

\* Mutant: dismissing what is shown closes it and starts no timer.
QueuedIfNamed(ids) == IF ids = Shown THEN timeouts ELSE timeouts \cup ids

\* addToRemoveQueue: one timer for every id.
Queued(ids) == timeouts \cup ids

\* DISMISS_TOAST with an id: shown or not.
DismissToast(t) ==
  /\ t \in used
  /\ timeouts' = Queued({t})
  /\ toasts' = Restated({t}, FALSE)
  /\ dismissed' = dismissed \cup (Shown \cap {t})
  /\ UNCHANGED used

\* DISMISS_TOAST without one
DismissAll ==
  /\ timeouts' = Queued(Shown)
  /\ toasts' = Restated(Shown, FALSE)
  /\ dismissed' = dismissed \cup Shown
  /\ UNCHANGED used

\* The list without the toast of t; no two have the same id.
Without(t) ==
  LET i == CHOOSE i \in DOMAIN toasts : toasts[i].id = t
  IN SubSeq(toasts, 1, i - 1) \o SubSeq(toasts, i + 1, Len(toasts))

\* The timer of t, and REMOVE_TOAST.
RemoveToast(t) ==
  /\ t \in timeouts
  /\ timeouts' = timeouts \ {t}
  /\ IF t \in Shown THEN toasts' = Without(t) ELSE UNCHANGED toasts
  /\ UNCHANGED <<used, dismissed>>

ToastsNext ==
  \/ DismissAll
  \/ \E t \in ToastIds :
       \/ AddToast(t) \/ DismissToast(t) \/ RemoveToast(t)
       \/ \E open \in BOOLEAN : UpdateToast(t, open)

\* Timers fire.
ToastsFairness == \A t \in ToastIds : WF_toastVars(RemoveToast(t))

ToastsSpec == ToastsInit /\ [][ToastsNext]_toastVars /\ ToastsFairness

-----------------------------------------------------------------------------
(* Properties *)

\* A toast that was dismissed leaves the screen: by its timer, or because another
\* takes its place; whether it was updated, opened again or dismissed twice.
DismissedGoes == \A t \in ToastIds : t \in dismissed ~> t \notin Shown
=============================================================================
