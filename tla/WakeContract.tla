----------------------------- MODULE WakeContract -----------------------------
(***************************************************************************)
(* What a scheduler of partition pipelines promises to the operators that  *)
(* return Pending after storing a waker: a wake of an unfinished task is   *)
(* followed by a poll that begins after the wake.  Wakes coalesce, a poll  *)
(* may be spurious, polls of one task never overlap.                       *)
(***************************************************************************)
CONSTANT Tasks

VARIABLES notified,  \* tasks woken and not polled since
          polling,   \* tasks inside poll_execute
          finished,  \* tasks whose pipeline completed
          canceled   \* tasks that take no more wakes

vars == <<notified, polling, finished, canceled>>

Init ==
    /\ notified = {}
    /\ polling = {}
    /\ finished = {}
    /\ canceled = {}

Wake(t) ==
    /\ t \notin finished \cup canceled
    /\ notified' = notified \cup {t}
    /\ UNCHANGED <<polling, finished, canceled>>

Cancel(t) ==
    /\ canceled' = canceled \cup {t}
    /\ UNCHANGED <<notified, polling, finished>>

(* A poll answers the wakes so far; a scheduler may poll once more.        *)
Begin(t) ==
    /\ t \in notified \ (polling \cup finished)
    /\ polling' = polling \cup {t}
    /\ notified' \in {notified, notified \ {t}}
    /\ UNCHANGED <<finished, canceled>>

Return(t) ==
    /\ t \in polling
    /\ polling' = polling \ {t}
    /\ UNCHANGED <<notified, finished, canceled>>

Finish(t) ==
    /\ t \in polling
    /\ polling' = polling \ {t}
    /\ finished' = finished \cup {t}
    /\ notified' = notified \ {t}
    /\ UNCHANGED canceled

Next == \E t \in Tasks : Wake(t) \/ Cancel(t) \/ Begin(t) \/ Return(t) \/ Finish(t)

Spec == Init /\ [][Next]_vars

NotifiedIsPolled ==
    \A t \in Tasks : t \in notified ~> t \in polling \cup finished
=============================================================================
