-------------------------- MODULE WaitGroupProofs --------------------------
(***************************************************************************)
(* What wg_wait guarantees to app_main, for every finite set of tasks.     *)
(***************************************************************************)
EXTENDS WaitGroupClient, FiniteSetTheorems, TLAPS

(* Until the owner overwrites it, the counter counts the running tasks.    *)
Counts == main # "past" => counter = Cardinality(running)

(* Whoever notifies, or has notified, saw the counter reach zero.          *)
NotifiedAfterZero ==
  notifier # {} \/ given > 0 \/ main = "reset" => hitZero

(* The counter stays at zero unless a task is added too late.              *)
ZeroIsFinal == hitZero /\ ~late => running = {}

(* The last wg_done is alone, and gone once its notification is there.     *)
OneNotifier ==
  ~late => /\ \A s, t \in notifier : s = t
           /\ given > 0 \/ main = "reset" \/ (main = "past" /\ owner = "main")
                => notifier = {}

(* Only the fast path forgets the owner.                                   *)
OwnerKept == main # "past" => owner = "main"

Inv ==
  /\ TypeOK
  /\ Counts
  /\ NotifiedAfterZero
  /\ ZeroIsFinal
  /\ OneNotifier
  /\ OwnerKept
  /\ WaitJoins

-----------------------------------------------------------------------------
(* The running tasks are finite, like the tasks they are taken from.       *)
LEMMA RunningFinite == ASSUME TypeOK PROVE IsFiniteSet(running)
  BY TasksAssumption, FS_Subset DEF TypeOK

(* A new wait group satisfies the invariant.                               *)
LEMMA InitInv == Init => Inv
<1>1. Cardinality({}) = 0
  BY FS_EmptySet
<1>0. Init => counter \in Int /\ given \in Nat
  BY SMT DEF Init
<1>2. Init => TypeOK
  BY <1>0, Zenon DEF Init, TypeOK, WgTypeOK
<1>5. Init => OwnerKept
  BY DEF Init, OwnerKept
<1>6. Init => WaitJoins /\ ZeroIsFinal
  BY Zenon DEF Init, WaitJoins, ZeroIsFinal
<1>3. Init => Counts
  BY <1>1 DEF Init, Counts
<1>4. Init => NotifiedAfterZero /\ OneNotifier
  BY DEF Init, NotifiedAfterZero, OneNotifier
<1> QED BY <1>2, <1>3, <1>4, <1>5, <1>6 DEF Inv

(* Every step of app_main, of a task and of the scheduler keeps Inv.       *)
LEMMA StepInv == Inv /\ [Next]_vars => Inv'
<1> SUFFICES ASSUME Inv, [Next]_vars PROVE Inv'
  OBVIOUS
<1> USE DEF Inv
<1>f. IsFiniteSet(running)
  BY RunningFinite
<1>1. ASSUME NEW t \in Tasks, Launch(t) PROVE Inv'
  <2>1. running' = running \cup {t} /\ t \notin running
    BY <1>1 DEF Launch, Created
  <2>2. Cardinality(running') = Cardinality(running) + 1
    BY <1>f, <2>1, FS_AddElement
  <2>3. TypeOK' /\ OwnerKept' /\ WaitJoins'
    BY <1>1 DEF Launch, WgAdd, TypeOK, WgTypeOK, OwnerKept, WaitJoins
  <2>4. Counts'
    BY <1>1, <2>2 DEF Launch, WgAdd, Counts
  <2>5. NotifiedAfterZero' /\ ZeroIsFinal' /\ OneNotifier'
    BY <1>1 DEF Launch, WgAdd, NotifiedAfterZero, ZeroIsFinal, OneNotifier, TypeOK
  <2> QED BY <2>3, <2>4, <2>5
<1>2. ASSUME NEW t \in Tasks, Done(t) PROVE Inv'
  <2>1. t \in running /\ running' = running \ {t}
    BY <1>2 DEF Done
  <2>2. Cardinality(running') = Cardinality(running) - 1
    BY <1>f, <2>1, FS_RemoveElement
  <2>3. TypeOK' /\ OwnerKept' /\ WaitJoins'
    BY <1>2 DEF Done, WgFetchSub, WgLast, TypeOK, WgTypeOK, OwnerKept, WaitJoins
  <2>4. Counts'
    BY <1>2, <2>2 DEF Done, WgFetchSub, Counts
  <2>5. IsFiniteSet(running') /\ (Cardinality(running') = 0 => running' = {})
    BY <1>f, <2>1, FS_RemoveElement, FS_EmptySet
  <2>6. ~hitZero \/ late
    BY <2>1 DEF ZeroIsFinal
  <2>7. ~late => main # "past"
    BY <2>1 DEF WaitJoins
  <2>8. NotifiedAfterZero'
    <3>1. CASE counter = 1
      <4>1. counter' = 0
        BY <1>2, <3>1 DEF Done, WgFetchSub
      <4>2. hitZero'
        BY <1>2, <4>1, Zenon DEF Done
      <4> QED BY <4>2, Zenon DEF NotifiedAfterZero
    <3>2. CASE counter # 1
      <4>1. notifier' = notifier /\ given' = given /\ main' = main
        BY <1>2, <3>2 DEF Done, WgFetchSub, WgLast
      <4>2. hitZero => hitZero'
        BY <1>2, Zenon DEF Done
      <4> QED BY <4>1, <4>2, Zenon DEF NotifiedAfterZero
    <3> QED BY <3>1, <3>2
  <2>9. ZeroIsFinal'
    BY <1>2, <2>4, <2>5, <2>6, <2>7 DEF Done, WgFetchSub, Counts, ZeroIsFinal, TypeOK
  <2>10. OneNotifier'
    BY <1>2, <2>6, <2>7 DEF Done, WgFetchSub, WgLast, NotifiedAfterZero, OneNotifier, TypeOK
  <2> QED BY <2>3, <2>4, <2>8, <2>9, <2>10
<1>3. ASSUME NEW t \in Tasks, Notify(t) PROVE Inv'
  BY <1>3 DEF Notify, WgNotify, TypeOK, WgTypeOK, Counts, NotifiedAfterZero,
     ZeroIsFinal, OneNotifier, OwnerKept, WaitJoins
<1>4. CASE Wait
  <2>1. counter = 0 => running = {}
    BY <1>4, <1>f, FS_EmptySet DEF Wait, Counts
  <2> QED
    BY <1>4, <2>1 DEF Wait, WgFastPath, wgVars, TypeOK, WgTypeOK, Counts,
       NotifiedAfterZero, ZeroIsFinal, OneNotifier, OwnerKept, WaitJoins
<1>5. CASE Take
  BY <1>5 DEF Take, WgTake, TypeOK, WgTypeOK, Counts, NotifiedAfterZero,
     ZeroIsFinal, OneNotifier, OwnerKept, WaitJoins
<1>6. CASE Reset
  BY <1>6 DEF Reset, WgReset, TypeOK, WgTypeOK, Counts, NotifiedAfterZero,
     ZeroIsFinal, OneNotifier, OwnerKept, WaitJoins
<1>7. CASE UNCHANGED vars
  BY <1>7 DEF vars, wgVars, TypeOK, WgTypeOK, Counts, NotifiedAfterZero,
     ZeroIsFinal, OneNotifier, OwnerKept, WaitJoins
<1> QED
  BY <1>1, <1>2, <1>3, <1>4, <1>5, <1>6, <1>7 DEF Next, TaskStep, Finished

(* The inductive invariant of the wait group.                              *)
THEOREM Invariant == Spec => []Inv
  BY InitInv, StepInv, PTL DEF Spec

(* The state of the wait group keeps its type.                             *)
THEOREM TypeCorrect == Spec => []TypeOK
<1>1. Inv => TypeOK
  BY DEF Inv
<1> QED BY <1>1, Invariant, PTL

(* For every finite set of tasks: if no task was added after the counter   *)
(* had come back to zero, then wg_wait returns when all of them are done   *)
(* (wait_group.c:59-75).                                                   *)
THEOREM Join == Spec => []WaitJoins
<1>1. Inv => WaitJoins
  BY DEF Inv
<1> QED BY <1>1, Invariant, PTL

(* Under the same condition, an owner that was notified may free the group:*)
(* no task is inside wg_done any more.                                     *)
THEOREM Quiet == Spec => []QuietAfterTake
<1>1. Inv => QuietAfterTake
  BY DEF Inv, OneNotifier, QuietAfterTake
<1> QED BY <1>1, Invariant, PTL
=============================================================================
