-------------------------- MODULE WaitGroupClient --------------------------
(***************************************************************************)
(* The wait group under the calling convention of app_main (main.c:333,    *)
(* 349, 363), for any finite set of tasks and with every interleaving:     *)
(* the owner does wg_add(wg, 1) and xTaskCreate for one task after the     *)
(* other, then wg_wait; every task ends in wg_done.                        *)
(***************************************************************************)
EXTENDS WaitGroup, FiniteSets

CONSTANT Tasks  \* the tasks app_main may create

ASSUME TasksAssumption == IsFiniteSet(Tasks)

VARIABLES
  main,      \* where the owner is: launch, take, reset, past
  running,   \* created tasks that have not yet subtracted in wg_done
  notifier,  \* tasks in wg_done that still have to notify the owner
  ended,     \* tasks that returned from wg_done
  hitZero,   \* history: some wg_done brought the counter to zero
  late       \* history: a task was added after that

vars == <<wgVars, main, running, notifier, ended, hitZero, late>>

Created == running \cup notifier \cup ended

TypeOK ==
  /\ WgTypeOK
  /\ main \in {"launch", "take", "reset", "past"}
  /\ running \subseteq Tasks
  /\ notifier \subseteq Tasks
  /\ ended \subseteq Tasks
  /\ hitZero \in BOOLEAN
  /\ late \in BOOLEAN

Init ==
  /\ counter = 0 /\ owner = "main" /\ given = 0
  /\ main = "launch"
  /\ running = {} /\ notifier = {} /\ ended = {}
  /\ hitZero = FALSE /\ late = FALSE

-----------------------------------------------------------------------------
(* wg_add(wg, 1); xTaskCreate(t): nobody can tell the two apart, since t   *)
(* need not be scheduled at once.                                          *)
Launch(t) ==
  /\ main = "launch"
  /\ t \notin Created
  /\ WgAdd
  /\ running' = running \cup {t}
  /\ late' = (late \/ hitZero)
  /\ UNCHANGED <<main, notifier, ended, hitZero>>

Done(t) ==
  /\ t \in running
  /\ WgFetchSub
  /\ running' = running \ {t}
  /\ IF WgLast
       THEN notifier' = notifier \cup {t} /\ UNCHANGED ended
       ELSE ended' = ended \cup {t} /\ UNCHANGED notifier
  /\ hitZero' = (hitZero \/ counter' = 0)
  /\ UNCHANGED <<main, late>>

Notify(t) ==
  /\ t \in notifier
  /\ WgNotify
  /\ notifier' = notifier \ {t}
  /\ ended' = ended \cup {t}
  /\ UNCHANGED <<main, running, hitZero, late>>

Wait ==
  /\ main = "launch"
  /\ IF counter = 0
       THEN WgFastPath /\ main' = "past"
       ELSE main' = "take" /\ UNCHANGED wgVars
  /\ UNCHANGED <<running, notifier, ended, hitZero, late>>

Take_PollsCounter ==
  /\ main = "take" /\ counter = 0
  /\ main' = "reset"
  /\ UNCHANGED <<wgVars, running, notifier, ended, hitZero, late>>

Take ==
  /\ main = "take"
  /\ WgTake
  /\ main' = "reset"
  /\ UNCHANGED <<running, notifier, ended, hitZero, late>>

Reset ==
  /\ main = "reset"
  /\ WgReset
  /\ main' = "past"
  /\ UNCHANGED <<running, notifier, ended, hitZero, late>>

TaskStep(t) == Launch(t) \/ Done(t) \/ Notify(t)

Finished == main = "past" /\ running = {} /\ notifier = {} /\ UNCHANGED vars

Next == (\E t \in Tasks : TaskStep(t)) \/ Wait \/ Take \/ Reset \/ Finished

(* The scheduler runs every ready task in the end; app_main need not       *)
(* create every task (an initialisation may fail), so Launch is not fair.  *)
Spec ==
  /\ Init /\ [][Next]_vars
  /\ WF_vars(Wait) /\ WF_vars(Take) /\ WF_vars(Reset)
  /\ \A t \in Tasks : WF_vars(Done(t)) /\ WF_vars(Notify(t))

-----------------------------------------------------------------------------
(* wg_wait joins: when it returns, every created task has left its work.   *)
(* wait_group.c promises that without a condition; it takes that no task   *)
(* is added once the counter has come back to zero.                        *)
WaitJoins == main = "past" /\ ~late => running = {}

(* On the path through the notification wg_wait returns only after the     *)
(* notifying wg_done has made its last access to the group, so that the    *)
(* owner may free it.  (The fast path, owner = NULL, gives no such         *)
(* guarantee: see the README.)                                             *)
QuietAfterTake == main \in {"reset", "past"} /\ owner = "main" /\ ~late => notifier = {}

(* No notification is lost: an owner that waits does return.               *)
WaitReturns == [](main = "take" => <>(main = "past"))
=============================================================================
