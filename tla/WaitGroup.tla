----------------------------- MODULE WaitGroup -----------------------------
(***************************************************************************)
(* The wait group of the sender firmware (wait_group.c): a counter and the *)
(* task notification of its owner.  The module states operations only; the *)
(* modules that extend it say who performs them and when.                  *)
(*                                                                         *)
(* wg_done and wg_wait are not atomic in the code: the subtraction, the    *)
(* notification of the owner, the consumption of that notification and the *)
(* reset of the counter are operations of their own here, so that a client *)
(* can interleave other tasks between them.                                *)
(***************************************************************************)
EXTENDS Integers

VARIABLES
  counter,  \* wg->counter
  owner,    \* wg->owner, the handle of app_main's task or NULL
  given     \* notification value of the owner task, index 0

wgVars == <<counter, owner, given>>

WgTypeOK ==
  /\ counter \in Int
  /\ owner \in {"main", "NULL"}
  /\ given \in Nat

(* No wait group exists: the state after power-on, before wg_create.       *)
WgNone == counter = 0 /\ owner = "NULL" /\ given = 0

(* wg_create runs in the task that will wait and makes it the owner.       *)
WgCreate == counter' = 0 /\ owner' = "main" /\ UNCHANGED given

(* wg_add(wg, 1).                                                          *)
WgAdd == counter' = counter + 1 /\ UNCHANGED <<owner, given>>

(* The atomic subtraction at the start of wg_done ...                      *)
WgFetchSub == counter' = counter - 1 /\ UNCHANGED <<owner, given>>

(* ... whose previous value decides whether this wg_done must notify.      *)
WgLast_NotifiesOneEarly == counter = 2
WgLast == counter = 1

(* The end of such a wg_done: load the owner, notify it if there is one.   *)
WgNotify_Lost == UNCHANGED wgVars
WgNotify ==
  /\ given' = IF owner # "NULL" THEN given + 1 ELSE given
  /\ UNCHANGED <<counter, owner>>

(* wg_wait returns at once when the counter is zero, forgetting the owner; *)
WgFastPath == counter = 0 /\ owner' = "NULL" /\ UNCHANGED <<counter, given>>

(* otherwise it blocks until it is notified, clearing the notification,    *)
WgTake == given > 0 /\ given' = 0 /\ UNCHANGED <<counter, owner>>

(* and overwrites the counter, whatever it holds by then.                  *)
WgReset == counter' = 0 /\ UNCHANGED <<owner, given>>
=============================================================================
