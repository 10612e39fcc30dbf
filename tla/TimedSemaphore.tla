--------------------------- MODULE TimedSemaphore ---------------------------
(***************************************************************************)
(* util::timed_semaphore (wsi/layer_utils/timed_semaphore.cpp): a counting *)
(* semaphore built from a pthread mutex and a condition variable.  The     *)
(* mutex is held from the first to the last line of wait() and post()      *)
(* except inside pthread_cond_(timed)wait, so each stretch between two     *)
(* such calls is one action.                                               *)
(*                                                                         *)
(* A condition variable is a set of sleeping threads.  A thread leaves it  *)
(* because a signal chose it, spuriously (POSIX allows it), or because its *)
(* deadline passed; it then has to take the mutex again before it can look *)
(* at m_count.                                                             *)
(***************************************************************************)
EXTENDS Naturals, FiniteSets

CONSTANTS
    Threads,     \* the threads that call wait() and post()
    InitCount,   \* the argument of init()
    MaxCount     \* bound on m_count in the explored behaviours

ASSUME SemaphoreAssumption ==
    /\ IsFiniteSet(Threads)
    /\ InitCount \in Nat
    /\ MaxCount \in Nat

VARIABLES
    count,       \* m_count
    waiters,     \* threads asleep in m_cond
    woken,       \* threads that left m_cond with 0 and want the mutex back
    expired,     \* threads that left m_cond with ETIMEDOUT and want the mutex back
    deadline     \* [Threads -> BOOLEAN]: the wait in progress has a deadline

vars == <<count, waiters, woken, expired, deadline>>

InWait == waiters \union woken \union expired

Init == /\ count = InitCount
        /\ waiters = {}
        /\ woken = {}
        /\ expired = {}
        /\ deadline = [t \in Threads |-> FALSE]

(* wait(timeout) when m_count > 0, for every timeout: the unit is taken    *)
(* without touching the condition variable.                                *)
WaitTakes(t) ==
    /\ t \notin InWait
    /\ count > 0
    /\ count' = count - 1
    /\ UNCHANGED <<waiters, woken, expired, deadline>>

(* wait(timeout) with timeout > 0 when m_count = 0: sleep.  wait(0)        *)
(* returns VK_NOT_READY and changes nothing, so it is no action.           *)
WaitSleeps(t, finite) ==
    /\ t \notin InWait
    /\ count = 0
    /\ waiters' = waiters \union {t}
    /\ deadline' = [deadline EXCEPT ![t] = finite]
    /\ UNCHANGED <<count, woken, expired>>

(* Mutants, for the sensitivity of the properties: a post() that signals   *)
(* only when m_count was 0, a wait() that does not look at m_count again   *)
(* after waking, one that sleeps again without its deadline, and one whose *)
(* deadline passes while the condition variable still counts it.           *)
PostSignalsOnlyFromZero ==
    /\ count < MaxCount
    /\ count' = count + 1
    /\ IF waiters = {} \/ count > 0
       THEN UNCHANGED <<waiters, woken>>
       ELSE \E t \in waiters : /\ waiters' = waiters \ {t}
                               /\ woken' = woken \union {t}
    /\ UNCHANGED <<expired, deadline>>

RecheckTakesUnchecked(t) ==
    /\ t \in woken
    /\ count' = IF count > 0 THEN count - 1 ELSE 0
    /\ woken' = woken \ {t}
    /\ UNCHANGED <<waiters, expired, deadline>>

(* post(): increment, then pthread_cond_signal, which wakes a sleeping     *)
(* thread if there is one.                                                 *)
Post ==
    /\ count < MaxCount
    /\ count' = count + 1
    /\ IF waiters = {}
       THEN UNCHANGED <<waiters, woken>>
       ELSE \E t \in waiters : /\ waiters' = waiters \ {t}
                               /\ woken' = woken \union {t}
    /\ UNCHANGED <<expired, deadline>>

(* pthread_cond_(timed)wait may return 0 with no signal. *)
SpuriousWakeup(t) ==
    /\ t \in waiters
    /\ waiters' = waiters \ {t}
    /\ woken' = woken \union {t}
    /\ UNCHANGED <<count, expired, deadline>>

(* pthread_cond_timedwait gives up at the deadline. *)
DeadlinePasses(t) ==
    /\ t \in waiters
    /\ deadline[t]
    /\ waiters' = waiters \ {t}
    /\ expired' = expired \union {t}
    /\ UNCHANGED <<count, woken, deadline>>

(* A woken thread holds the mutex again and finds a unit: VK_SUCCESS. *)
RecheckTakes(t) ==
    /\ t \in woken
    /\ count > 0
    /\ count' = count - 1
    /\ woken' = woken \ {t}
    /\ UNCHANGED <<waiters, expired, deadline>>

(* A woken thread finds none (another wait was faster): it sleeps again,   *)
(* with the deadline it already had.                                       *)
RecheckSleeps(t) ==
    /\ t \in woken
    /\ count = 0
    /\ woken' = woken \ {t}
    /\ waiters' = waiters \union {t}
    /\ UNCHANGED <<count, expired, deadline>>

(* ETIMEDOUT: VK_TIMEOUT, without looking at m_count again. *)
ReturnTimeout(t) ==
    /\ t \in expired
    /\ expired' = expired \ {t}
    /\ UNCHANGED <<count, waiters, woken, deadline>>

Recheck(t) == RecheckTakes(t) \/ RecheckSleeps(t) \/ ReturnTimeout(t)

Next == \/ Post
        \/ \E t \in Threads : \/ WaitTakes(t)
                              \/ \E finite \in BOOLEAN : WaitSleeps(t, finite)
                              \/ SpuriousWakeup(t)
                              \/ DeadlinePasses(t)
                              \/ Recheck(t)

Spec == Init /\ [][Next]_vars

-----------------------------------------------------------------------------
(* The state is well formed, and a thread is in at most one of the three   *)
(* stages of a blocked wait.                                               *)
TypeOK ==
    /\ count \in Nat
    /\ waiters \subseteq Threads
    /\ woken \subseteq Threads
    /\ expired \subseteq Threads
    /\ deadline \in [Threads -> BOOLEAN]
    /\ waiters \intersect woken = {}
    /\ waiters \intersect expired = {}
    /\ woken \intersect expired = {}

(* No lost wake-up: while some thread still sleeps, there are at least as  *)
(* many threads on their way back from a signal as there are units, so     *)
(* every unit has a thread coming for it.  post() signals on every         *)
(* increment for this reason, not only when m_count was 0, and a thread    *)
(* whose deadline passed never counts as signalled.                        *)
NoLostWakeup == waiters # {} => count =< Cardinality(woken)

(* What the caller of wait() can tell of a thread. *)
AbstractWaiting ==
    [t \in Threads |-> IF t \notin InWait THEN "no"
                       ELSE IF deadline[t] THEN "finite" ELSE "forever"]

(* The abstract semaphore this one implements. *)
Abstract == INSTANCE CountingSemaphore WITH waiting <- AbstractWaiting

(* Every step of the mutex and condition variable code is a step of the    *)
(* abstract counting semaphore or changes nothing the caller can see.      *)
ImplementsSemaphore == Abstract!Spec
=============================================================================
