-------------------------------- MODULE Rcu --------------------------------
(***************************************************************************)
(* Read-copy-update: a cell of packages/ostd/src/sync/rcu/mod.rs, the      *)
(* monitor of rcu/monitor.rs, and the quiescent states that                *)
(* switch_to_task of task/processor.rs reports to it.                      *)
(*                                                                         *)
(* Read guards belong to CPUs: they disable preemption, so the task that   *)
(* holds one stays where it is.  finish_grace_period belongs to a task: it *)
(* runs with preemption enabled but for the part under the lock, and may   *)
(* continue on another CPU.  The state of the monitor is changed under a   *)
(* spin lock with interrupts off, so each critical section is one step.    *)
(***************************************************************************)
EXTENDS Naturals, FiniteSets

CONSTANTS
    CPUs, Tasks,
    Slots,      \* names for the read guards of a CPU; bounds the nesting
    Objects,    \* addresses the allocator hands out, again after they are freed
    Null,       \* the null pointer
    NoGuard,    \* a slot without a guard
    Unread,     \* a guard that has not loaded the pointer yet
    Consumed    \* a guard that compare_exchange has taken and not yet dropped

ASSUME RcuAssumption ==
    /\ CPUs # {}
    /\ {Null, NoGuard, Unread, Consumed} \cap Objects = {}
    /\ Cardinality({Null, NoGuard, Unread, Consumed}) = 4

VARIABLES
    ptr,                \* RcuInner::ptr
    guards,             \* obj_ptr of the guards of each CPU
    unlinked,           \* swapped out, and not yet given to after_grace_period
    free,               \* not allocated
    is_monitoring, is_complete, cpu_mask, callbacks, next_callbacks,   \* RcuMonitor
    pc,                 \* where a task is in finish_grace_period
    taken               \* the callbacks a task has taken and not yet invoked

cellVars == <<ptr, guards, unlinked>>
monitorVars == <<is_monitoring, is_complete, cpu_mask, callbacks, next_callbacks>>
taskVars == <<pc, taken>>
vars == <<cellVars, free, monitorVars, taskVars>>

Init == /\ ptr \in Objects \cup {Null}
        /\ guards = [c \in CPUs |-> [s \in Slots |-> NoGuard]]
        /\ unlinked = {}
        /\ free = Objects \ {ptr}
        /\ is_monitoring = FALSE /\ is_complete = TRUE
        /\ cpu_mask = {} /\ callbacks = {} /\ next_callbacks = {}
        /\ pc = [t \in Tasks |-> "run"]
        /\ taken = [t \in Tasks |-> {}]

----------------------------------------------------------------------------
(* The cell *)

\* The guard count of the CPU is zero.
Preemptible(c) == \A s \in Slots : guards[c][s] = NoGuard

SetGuard(c, s, g) == guards' = [guards EXCEPT ![c][s] = g]

\* read() disables preemption and then loads the pointer.
DisablePreempt(c, s) ==
    /\ guards[c][s] = NoGuard
    /\ SetGuard(c, s, Unread)
    /\ UNCHANGED <<ptr, unlinked, free, monitorVars, taskVars>>

Load(c, s) == /\ guards[c][s] = Unread
              /\ SetGuard(c, s, ptr)
              /\ UNCHANGED <<ptr, unlinked, free, monitorVars, taskVars>>

DropGuard(c, s) == /\ guards[c][s] # NoGuard
                   /\ SetGuard(c, s, NoGuard)
                   /\ UNCHANGED <<ptr, unlinked, free, monitorVars, taskVars>>

\* Mutant: the null pointer is dropped too.
SwapAndDropNull(new) == /\ new \in free \cup {Null}
                        /\ ptr' = new
                        /\ free' = free \ {new}
                        /\ unlinked' = unlinked \cup {ptr}

\* A new box, or no pointer, takes the place of the pointer in the cell.
Swap(new) == /\ new \in free \cup {Null}
             /\ ptr' = new
             /\ free' = free \ {new}
             /\ unlinked' = unlinked \cup ({ptr} \ {Null})

\* update(), up to delay_drop.
Update(new) == Swap(new) /\ UNCHANGED <<guards, monitorVars, taskVars>>

\* Mutant: the exchange succeeds whatever the pointer is now.
ExchangeUnchecked(c, s, new) ==
    /\ guards[c][s] \in Objects \cup {Null}
    /\ new \in free \cup {Null}
    /\ ptr' = new
    /\ free' = free \ {new}
    /\ unlinked' = unlinked \cup ({guards[c][s]} \ {Null})
    /\ SetGuard(c, s, Consumed)
    /\ UNCHANGED <<monitorVars, taskVars>>

\* compare_exchange() that finds the pointer its guard has read, up to
\* delay_drop.  The guard is consumed, but preemption stays disabled until it
\* is dropped.  An exchange that fails gives the new box back: DropGuard.
CompareExchange(c, s, new) ==
    /\ guards[c][s] \in Objects \cup {Null}
    /\ ptr = guards[c][s]
    /\ Swap(new)
    /\ SetGuard(c, s, Consumed)
    /\ UNCHANGED <<monitorVars, taskVars>>

\* Drop for RcuInner frees the box at once: no guard and no call borrows the
\* cell any more.  A cell created later starts empty.
DropCell == /\ \A c \in CPUs : Preemptible(c)
            /\ unlinked = {}
            /\ ptr # Null
            /\ ptr' = Null
            /\ free' = free \cup {ptr}
            /\ UNCHANGED <<guards, unlinked, monitorVars, taskVars>>

----------------------------------------------------------------------------
(* The monitor *)

\* Mutant: the CPUs that were seen quiescent before still count.
RestartWithOldMask(cbs) == /\ is_complete' = FALSE
                           /\ callbacks' = cbs
                           /\ UNCHANGED cpu_mask

\* GracePeriod::restart.
Restart(cbs) == /\ is_complete' = FALSE
                /\ cpu_mask' = {}
                /\ callbacks' = cbs

\* Mutant: the fast path is not told.
AfterWithoutMonitoring(o) ==
    /\ o \in unlinked
    /\ unlinked' = unlinked \ {o}
    /\ IF is_complete
       THEN Restart(next_callbacks \cup {o}) /\ next_callbacks' = {}
       ELSE /\ next_callbacks' = next_callbacks \cup {o}
            /\ UNCHANGED <<is_complete, cpu_mask, callbacks>>
    /\ UNCHANGED <<ptr, guards, free, is_monitoring, taskVars>>

\* delay_drop, or Drop for RcuDrop: after_grace_period.
AfterGracePeriod(o) ==
    /\ o \in unlinked
    /\ unlinked' = unlinked \ {o}
    /\ IF is_complete
       THEN /\ Restart(next_callbacks \cup {o})
            /\ next_callbacks' = {}
            /\ is_monitoring' = TRUE
       ELSE /\ next_callbacks' = next_callbacks \cup {o}
            /\ UNCHANGED <<is_monitoring, is_complete, cpu_mask, callbacks>>
    /\ UNCHANGED <<ptr, guards, free, taskVars>>

\* finish_grace_period looks, without the lock, whether there is a grace period
\* to finish, and returns if there is none.
FastPath == ~is_monitoring

\* switch_to_task, after might_sleep: the call of finish_grace_period.
SwitchToTask(t, c) == /\ pc[t] = "run"
                      /\ Preemptible(c)
                      /\ ~FastPath
                      /\ pc' = [pc EXCEPT ![t] = "lock"]
                      /\ UNCHANGED <<cellVars, free, monitorVars, taken>>

\* Mutant: no grace period is started for the callbacks that came meanwhile.
ForgetNextCallbacks(t, c) ==
    /\ pc[t] = "lock"
    /\ Preemptible(c)
    /\ IF is_complete \/ cpu_mask \cup {c} # CPUs
       THEN /\ cpu_mask' = IF is_complete THEN cpu_mask ELSE cpu_mask \cup {c}
            /\ pc' = [pc EXCEPT ![t] = "run"]
            /\ UNCHANGED <<is_monitoring, is_complete, callbacks, taken>>
       ELSE /\ taken' = [taken EXCEPT ![t] = callbacks]
            /\ pc' = [pc EXCEPT ![t] = "callbacks"]
            /\ is_complete' = TRUE /\ is_monitoring' = FALSE
            /\ cpu_mask' = CPUs /\ callbacks' = {}
    /\ UNCHANGED <<cellVars, free, next_callbacks>>

\* The critical section of finish_grace_period, on the CPU the task is on now.
FinishGracePeriod(t, c) ==
    /\ pc[t] = "lock"
    /\ Preemptible(c)
    /\ IF is_complete \/ cpu_mask \cup {c} # CPUs
       THEN /\ cpu_mask' = IF is_complete THEN cpu_mask ELSE cpu_mask \cup {c}
            /\ pc' = [pc EXCEPT ![t] = "run"]
            /\ UNCHANGED <<is_monitoring, is_complete, callbacks, next_callbacks, taken>>
       ELSE /\ taken' = [taken EXCEPT ![t] = callbacks]
            /\ pc' = [pc EXCEPT ![t] = "callbacks"]
            /\ next_callbacks' = {}
            /\ IF next_callbacks # {}
               THEN Restart(next_callbacks) /\ UNCHANGED is_monitoring
               ELSE /\ is_complete' = TRUE
                    /\ is_monitoring' = FALSE
                    /\ cpu_mask' = CPUs
                    /\ callbacks' = {}
    /\ UNCHANGED <<cellVars, free>>

\* The loop that invokes the callbacks: each drops its box.
InvokeCallback(t, o) ==
    /\ pc[t] = "callbacks"
    /\ o \in taken[t]
    /\ free' = free \cup {o}
    /\ taken' = [taken EXCEPT ![t] = @ \ {o}]
    /\ pc' = [pc EXCEPT ![t] = IF taken[t] = {o} THEN "run" ELSE @]
    /\ UNCHANGED <<cellVars, monitorVars>>

----------------------------------------------------------------------------
Cell == \/ \E c \in CPUs, s \in Slots :
              \/ DisablePreempt(c, s) \/ Load(c, s) \/ DropGuard(c, s)
              \/ \E new \in Objects \cup {Null} : CompareExchange(c, s, new)
        \/ \E new \in Objects \cup {Null} : Update(new)
        \/ DropCell

Monitor == \/ \E o \in Objects : AfterGracePeriod(o)
           \/ \E t \in Tasks, c \in CPUs : SwitchToTask(t, c) \/ FinishGracePeriod(t, c)
           \/ \E t \in Tasks, o \in Objects : InvokeCallback(t, o)

Next == Cell \/ Monitor

Spec == Init /\ [][Next]_vars

\* A call that has replaced a pointer goes on to register it, and a task that has
\* taken callbacks goes on to invoke them.  No CPU has to switch tasks, and no
\* guard has to be dropped.
FairSpec == /\ Spec
            /\ \A o \in Objects : WF_vars(AfterGracePeriod(o))
            /\ \A t \in Tasks : WF_vars(\E o \in Objects : InvokeCallback(t, o))

----------------------------------------------------------------------------
TypeOK ==
    /\ ptr \in Objects \cup {Null}
    /\ guards \in [CPUs -> [Slots -> Objects \cup {Null, NoGuard, Unread, Consumed}]]
    /\ unlinked \subseteq Objects /\ free \subseteq Objects
    /\ is_monitoring \in BOOLEAN /\ is_complete \in BOOLEAN
    /\ cpu_mask \subseteq CPUs
    /\ callbacks \subseteq Objects /\ next_callbacks \subseteq Objects
    /\ pc \in [Tasks -> {"run", "lock", "callbacks"}]
    /\ taken \in [Tasks -> SUBSET Objects]

\* What get() relies on: as long as a guard is alive, the object whose address
\* it has loaded is not freed, let alone allocated again for somebody else.
NoUseAfterFree == \A c \in CPUs, s \in Slots : guards[c][s] \notin free

Places == <<{ptr}, unlinked, callbacks, next_callbacks, free>>

\* "It will only be dropped once", and it is never leaked: an object is in the
\* cell, or free, or in exactly one of the places it can be dropped from.
DroppedOnce ==
    /\ \A i, j \in 1..5 : i # j => Places[i] \cap Places[j] = {}
    /\ \A t \in Tasks : /\ \A i \in 1..5 : taken[t] \cap Places[i] = {}
                        /\ \A u \in Tasks : u # t => taken[t] \cap taken[u] = {}
    /\ \A o \in Objects : (\E i \in 1..5 : o \in Places[i]) \/ (\E t \in Tasks : o \in taken[t])

\* Callbacks wait only for a grace period that runs and that the fast path of
\* finish_grace_period, which reads is_monitoring without the lock, sees.
NoStrandedCallbacks ==
    callbacks \cup next_callbacks # {} => is_monitoring /\ ~is_complete

\* A CPU that has passed a quiescent state since the grace period began has no
\* guard of an object that is dropped at its end.
GracePeriodCovers ==
    \A c \in cpu_mask, s \in Slots : guards[c][s] \notin callbacks

\* Nobody can reach what a finished grace period has handed out.
TakenAreUnreachable ==
    \A t \in Tasks, c \in CPUs, s \in Slots : guards[c][s] \notin taken[t]

\* The fast path knows whether a grace period runs, and only a task that is
\* about to invoke callbacks has any.
Bookkeeping == /\ is_monitoring = ~is_complete
               /\ \A t \in Tasks : taken[t] # {} => pc[t] = "callbacks"

\* The inductive invariant.
RcuInv == /\ TypeOK /\ NoUseAfterFree /\ DroppedOnce /\ NoStrandedCallbacks
          /\ GracePeriodCovers /\ TakenAreUnreachable /\ Bookkeeping

\* As long as grace periods are monitored, CPU c switches tasks again and again
\* and gets through finish_grace_period.  The code does not guarantee it: a CPU
\* that stays in its idle loop never calls switch_to_task.
KeepsReporting(c) ==
    []<>is_monitoring => []<><<\E t \in Tasks : FinishGracePeriod(t, c)>>_vars

\* Every pointer that update or compare_exchange has replaced is dropped, if all
\* CPUs keep switching tasks: callbacks that arrive in the middle of a grace
\* period get one of their own, and one that waits is never forgotten.
DropsHappen ==
    (\A c \in CPUs : KeepsReporting(c)) => \A o \in Objects : o \in unlinked ~> o \in free
=============================================================================
