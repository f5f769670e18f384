----------------------------- MODULE RcuProofs -----------------------------
(***************************************************************************)
(* Proofs about Rcu for every set of CPUs, tasks, guards and objects.      *)
(***************************************************************************)
EXTENDS Rcu, TLAPS

\* The values of a guard that are not addresses are different from each other
\* and from every address.
LEMMA Markers ==
    /\ Null \notin Objects /\ NoGuard \notin Objects
    /\ Unread \notin Objects /\ Consumed \notin Objects
BY RcuAssumption

\* DroppedOnce without the tuple of places.
Once ==
    /\ ptr \notin unlinked \cup callbacks \cup next_callbacks \cup free
    /\ unlinked \cap callbacks = {} /\ unlinked \cap next_callbacks = {}
    /\ unlinked \cap free = {} /\ callbacks \cap next_callbacks = {}
    /\ callbacks \cap free = {} /\ next_callbacks \cap free = {}
    /\ \A t \in Tasks : /\ ptr \notin taken[t]
                        /\ taken[t] \cap unlinked = {} /\ taken[t] \cap callbacks = {}
                        /\ taken[t] \cap next_callbacks = {} /\ taken[t] \cap free = {}
                        /\ \A u \in Tasks : u # t => taken[t] \cap taken[u] = {}
    /\ \A o \in Objects : \/ o = ptr \/ o \in unlinked \/ o \in callbacks
                          \/ o \in next_callbacks \/ o \in free
                          \/ \E t \in Tasks : o \in taken[t]

\* The two ways to say that an object is dropped once agree.
LEMMA OnceIsDroppedOnce == Once <=> DroppedOnce
<1>1. \A i : i \in 1..5 <=> i = 1 \/ i = 2 \/ i = 3 \/ i = 4 \/ i = 5
  OBVIOUS
<1>2. /\ Places[1] = {ptr} /\ Places[2] = unlinked /\ Places[3] = callbacks
      /\ Places[4] = next_callbacks /\ Places[5] = free
  BY DEF Places
<1>3. \A S : (\A i \in 1..5 : S \cap Places[i] = {})
                <=> /\ ptr \notin S /\ S \cap unlinked = {} /\ S \cap callbacks = {}
                    /\ S \cap next_callbacks = {} /\ S \cap free = {}
  BY <1>1, <1>2
<1>4. (\A i, j \in 1..5 : i # j => Places[i] \cap Places[j] = {})
         <=> /\ ptr \notin unlinked \cup callbacks \cup next_callbacks \cup free
             /\ unlinked \cap callbacks = {} /\ unlinked \cap next_callbacks = {}
             /\ unlinked \cap free = {} /\ callbacks \cap next_callbacks = {}
             /\ callbacks \cap free = {} /\ next_callbacks \cap free = {}
  BY <1>1, <1>2
<1>5. \A o : (\E i \in 1..5 : o \in Places[i])
               <=> \/ o = ptr \/ o \in unlinked \/ o \in callbacks
                   \/ o \in next_callbacks \/ o \in free
  BY <1>1, <1>2
<1>. QED
  BY <1>3, <1>4, <1>5 DEF Once, DroppedOnce

\* The inductive invariant with Once in the place of DroppedOnce.
Inv == /\ TypeOK /\ NoUseAfterFree /\ Once /\ NoStrandedCallbacks
       /\ GracePeriodCovers /\ TakenAreUnreachable /\ Bookkeeping

\* The initial states satisfy it.
LEMMA InitInv == Init => Inv
<1>. SUFFICES ASSUME Init PROVE Inv
  OBVIOUS
<1>1. TypeOK
  BY DEF Init, TypeOK
<1>2. NoUseAfterFree /\ GracePeriodCovers /\ TakenAreUnreachable
  BY Markers DEF Init, NoUseAfterFree, GracePeriodCovers, TakenAreUnreachable
<1>3. Once
  BY Markers DEF Init, Once
<1>4. NoStrandedCallbacks /\ Bookkeeping
  BY DEF Init, NoStrandedCallbacks, Bookkeeping
<1>. QED
  BY <1>1, <1>2, <1>3, <1>4 DEF Inv

\* Taking and dropping a guard, and loading the pointer, which is in the cell
\* and so neither free nor waiting for a grace period.
LEMMA GuardsInv ==
    ASSUME Inv, NEW c \in CPUs, NEW s \in Slots,
           DisablePreempt(c, s) \/ Load(c, s) \/ DropGuard(c, s)
    PROVE  Inv'
<1>1. PICK g \in {Unread, ptr, NoGuard} : SetGuard(c, s, g)
  BY DEF DisablePreempt, Load, DropGuard
<1>2. UNCHANGED <<ptr, unlinked, free, monitorVars, taskVars>>
  BY DEF DisablePreempt, Load, DropGuard
<1>3. g \notin free \cup callbacks /\ \A t \in Tasks : g \notin taken[t]
  BY Markers DEF Inv, TypeOK, Once
<1>4. \A d \in CPUs, r \in Slots :
          guards'[d][r] = IF d = c /\ r = s THEN g ELSE guards[d][r]
  BY <1>1 DEF Inv, TypeOK, SetGuard
<1>5. TypeOK'
  BY <1>1, <1>2 DEF Inv, TypeOK, SetGuard, monitorVars, taskVars
<1>6. NoUseAfterFree' /\ TakenAreUnreachable' /\ GracePeriodCovers'
  BY <1>2, <1>3, <1>4 DEF Inv, TypeOK, NoUseAfterFree, TakenAreUnreachable,
     GracePeriodCovers, monitorVars, taskVars
<1>7. Once' /\ NoStrandedCallbacks' /\ Bookkeeping'
  BY <1>2 DEF Inv, Once, NoStrandedCallbacks, Bookkeeping, monitorVars, taskVars
<1>. QED
  BY <1>5, <1>6, <1>7 DEF Inv

\* Replacing the pointer, by update() or compare_exchange().
LEMMA SwapInv ==
    ASSUME Inv, NEW new \in Objects \cup {Null},
           \/ Update(new)
           \/ \E c \in CPUs, s \in Slots : CompareExchange(c, s, new)
    PROVE  Inv'
<1>1. Swap(new) /\ UNCHANGED <<monitorVars, taskVars>>
  BY DEF Update, CompareExchange
<1>2. /\ guards' \in [CPUs -> [Slots -> Objects \cup {Null, NoGuard, Unread, Consumed}]]
      /\ \A d \in CPUs, r \in Slots : guards'[d][r] \in {guards[d][r], Consumed}
  <2>1. CASE Update(new)
    BY <2>1 DEF Update, Inv, TypeOK
  <2>2. ASSUME NEW c \in CPUs, NEW s \in Slots, CompareExchange(c, s, new)
        PROVE  <1>2!:
    <3>1. SetGuard(c, s, Consumed)
      BY <2>2 DEF CompareExchange
    <3>. QED
      BY <3>1 DEF SetGuard, Inv, TypeOK
  <2>. QED
    BY <2>1, <2>2
<1>3. TypeOK'
  BY <1>1, <1>2 DEF Inv, TypeOK, Swap, monitorVars, taskVars
<1>4. NoUseAfterFree' /\ TakenAreUnreachable' /\ GracePeriodCovers'
  <2>1. /\ free' \subseteq free /\ cpu_mask' = cpu_mask /\ callbacks' = callbacks
        /\ taken' = taken
    BY <1>1 DEF Swap, monitorVars, taskVars
  <2>2. Consumed \notin free \cup callbacks /\ \A t \in Tasks : Consumed \notin taken[t]
    BY Markers DEF Inv, TypeOK
  <2>3. cpu_mask \subseteq CPUs
    BY DEF Inv, TypeOK
  <2>. QED
    BY <1>2, <2>1, <2>2, <2>3 DEF Inv, NoUseAfterFree, TakenAreUnreachable, GracePeriodCovers
<1>5. Once'
  BY <1>1, Markers DEF Inv, TypeOK, Once, Swap, monitorVars, taskVars
<1>6. NoStrandedCallbacks' /\ Bookkeeping'
  BY <1>1 DEF Inv, NoStrandedCallbacks, Bookkeeping, monitorVars, taskVars
<1>. QED
  BY <1>3, <1>4, <1>5, <1>6 DEF Inv

\* Dropping the cell frees an object at once, when there is no guard.
LEMMA DropCellInv ==
    ASSUME Inv, DropCell
    PROVE  Inv'
<1>1. \A c \in CPUs, s \in Slots : guards'[c][s] = NoGuard
  BY DEF DropCell, Preemptible
<1>2. TypeOK' /\ NoUseAfterFree' /\ TakenAreUnreachable' /\ GracePeriodCovers'
  BY <1>1, Markers DEF DropCell, Inv, TypeOK, NoUseAfterFree, TakenAreUnreachable,
     GracePeriodCovers, monitorVars, taskVars
<1>3. Once'
  BY Markers DEF DropCell, Inv, TypeOK, Once, monitorVars, taskVars
<1>4. NoStrandedCallbacks' /\ Bookkeeping'
  BY DEF DropCell, Inv, NoStrandedCallbacks, Bookkeeping, monitorVars, taskVars
<1>. QED
  BY <1>2, <1>3, <1>4 DEF Inv

\* Handing an object to the monitor: a grace period that begins has an empty
\* mask, and one that runs does not take the object.
LEMMA AfterGracePeriodInv ==
    ASSUME Inv, NEW o \in Objects, AfterGracePeriod(o)
    PROVE  Inv'
<1>1. TypeOK' /\ NoUseAfterFree' /\ TakenAreUnreachable' /\ GracePeriodCovers'
  BY DEF AfterGracePeriod, Restart, Inv, TypeOK, NoUseAfterFree, TakenAreUnreachable,
     GracePeriodCovers, taskVars
<1>2. Once'
  BY DEF AfterGracePeriod, Restart, Inv, TypeOK, Once, NoStrandedCallbacks, taskVars
<1>3. NoStrandedCallbacks' /\ Bookkeeping'
  BY DEF AfterGracePeriod, Restart, Inv, TypeOK, NoStrandedCallbacks, Bookkeeping, taskVars
<1>. QED
  BY <1>1, <1>2, <1>3 DEF Inv

\* The fast path changes nothing but where a task is.
LEMMA SwitchToTaskInv ==
    ASSUME Inv, NEW t \in Tasks, NEW c \in CPUs, SwitchToTask(t, c)
    PROVE  Inv'
<1>1. UNCHANGED <<cellVars, free, monitorVars, taken>>
  BY DEF SwitchToTask
<1>2. TypeOK' /\ Bookkeeping'
  BY DEF SwitchToTask, Inv, TypeOK, Bookkeeping, cellVars, monitorVars
<1>3. /\ NoUseAfterFree' /\ Once' /\ NoStrandedCallbacks'
      /\ GracePeriodCovers' /\ TakenAreUnreachable'
  BY <1>1 DEF Inv, NoUseAfterFree, Once, NoStrandedCallbacks, GracePeriodCovers,
     TakenAreUnreachable, cellVars, monitorVars
<1>. QED
  BY <1>2, <1>3 DEF Inv

\* A CPU without guards passes a quiescent state, and it is not the last one.
LEMMA QuiescentInv ==
    ASSUME Inv, NEW t \in Tasks, NEW c \in CPUs, FinishGracePeriod(t, c),
           is_complete \/ cpu_mask \cup {c} # CPUs
    PROVE  Inv'
<1>1. /\ cpu_mask' \subseteq cpu_mask \cup {c}
      /\ pc' = [pc EXCEPT ![t] = "run"] /\ pc[t] = "lock"
      /\ UNCHANGED <<cellVars, free, is_monitoring, is_complete, callbacks,
                     next_callbacks, taken>>
  BY DEF FinishGracePeriod
<1>2. \A s \in Slots : guards[c][s] = NoGuard
  BY DEF FinishGracePeriod, Preemptible
<1>3. TypeOK' /\ Bookkeeping'
  BY <1>1 DEF Inv, TypeOK, Bookkeeping, cellVars
<1>4. GracePeriodCovers'
  BY <1>1, <1>2, Markers DEF Inv, TypeOK, GracePeriodCovers, cellVars
<1>5. NoUseAfterFree' /\ Once' /\ NoStrandedCallbacks' /\ TakenAreUnreachable'
  BY <1>1 DEF Inv, NoUseAfterFree, Once, NoStrandedCallbacks, TakenAreUnreachable, cellVars
<1>. QED
  BY <1>3, <1>4, <1>5 DEF Inv

\* The last CPU passes its quiescent state: no CPU has a guard of an object in
\* the callbacks any more, and the task may take them.
LEMMA LastQuiescentInv ==
    ASSUME Inv, NEW t \in Tasks, NEW c \in CPUs, FinishGracePeriod(t, c),
           ~(is_complete \/ cpu_mask \cup {c} # CPUs)
    PROVE  Inv'
<1>1. /\ taken' = [taken EXCEPT ![t] = callbacks]
      /\ pc' = [pc EXCEPT ![t] = "callbacks"] /\ pc[t] = "lock"
      /\ next_callbacks' = {} /\ callbacks' = next_callbacks
      /\ UNCHANGED <<cellVars, free>>
  BY DEF FinishGracePeriod, Restart
<1>2. \/ is_complete' = FALSE /\ is_monitoring' = is_monitoring /\ cpu_mask' = {}
      \/ /\ is_complete' = TRUE /\ is_monitoring' = FALSE /\ cpu_mask' = CPUs
         /\ next_callbacks = {}
  BY DEF FinishGracePeriod, Restart
<1>3. \A d \in CPUs, s \in Slots : guards[d][s] \notin callbacks
  <2>1. \A s \in Slots : guards[c][s] \notin callbacks
    BY Markers DEF FinishGracePeriod, Preemptible, Inv, TypeOK
  <2>2. \A d \in CPUs : d = c \/ d \in cpu_mask
    OBVIOUS
  <2>. QED
    BY <2>1, <2>2 DEF Inv, GracePeriodCovers
<1>4. taken[t] = {}
  BY <1>1 DEF Inv, Bookkeeping
<1>5. \A u \in Tasks : taken'[u] = IF u = t THEN callbacks ELSE taken[u]
  BY <1>1 DEF Inv, TypeOK
<1>6. TypeOK'
  BY <1>1, <1>2 DEF Inv, TypeOK, cellVars
<1>7. NoUseAfterFree' /\ TakenAreUnreachable' /\ GracePeriodCovers'
  BY <1>1, <1>2, <1>3, <1>5
     DEF Inv, NoUseAfterFree, TakenAreUnreachable, GracePeriodCovers, cellVars
<1>8. Once'
  BY <1>1, <1>4, <1>5 DEF Inv, Once, cellVars
<1>9. NoStrandedCallbacks' /\ Bookkeeping'
  BY <1>1, <1>2, <1>5 DEF Inv, TypeOK, NoStrandedCallbacks, Bookkeeping
<1>. QED
  BY <1>6, <1>7, <1>8, <1>9 DEF Inv

\* A callback frees an object that no guard refers to.
LEMMA InvokeCallbackInv ==
    ASSUME Inv, NEW t \in Tasks, NEW o \in Objects, InvokeCallback(t, o)
    PROVE  Inv'
<1>1. \A u \in Tasks : taken'[u] = IF u = t THEN taken[t] \ {o} ELSE taken[u]
  BY DEF InvokeCallback, Inv, TypeOK
<1>2. TypeOK'
  BY DEF InvokeCallback, Inv, TypeOK, cellVars, monitorVars
<1>3. NoUseAfterFree' /\ TakenAreUnreachable' /\ GracePeriodCovers'
  BY <1>1 DEF InvokeCallback, Inv, NoUseAfterFree, TakenAreUnreachable,
     GracePeriodCovers, cellVars, monitorVars
<1>4. Once'
  BY <1>1 DEF InvokeCallback, Inv, TypeOK, Once, cellVars, monitorVars
<1>5. NoStrandedCallbacks' /\ Bookkeeping'
  BY <1>1 DEF InvokeCallback, Inv, TypeOK, NoStrandedCallbacks, Bookkeeping, monitorVars
<1>. QED
  BY <1>2, <1>3, <1>4, <1>5 DEF Inv

\* Every step preserves the inductive invariant.
LEMMA NextInv == Inv /\ [Next]_vars => Inv'
<1>. SUFFICES ASSUME Inv, [Next]_vars PROVE Inv'
  OBVIOUS
<1>1. CASE Cell
  BY <1>1, GuardsInv, SwapInv, DropCellInv DEF Cell
<1>2. CASE Monitor
  BY <1>2, AfterGracePeriodInv, SwitchToTaskInv, QuiescentInv, LastQuiescentInv,
     InvokeCallbackInv DEF Monitor
<1>3. CASE UNCHANGED vars
  BY <1>3 DEF vars, cellVars, monitorVars, taskVars, Inv, TypeOK, NoUseAfterFree, Once,
     NoStrandedCallbacks, GracePeriodCovers, TakenAreUnreachable, Bookkeeping
<1>. QED
  BY <1>1, <1>2, <1>3 DEF Next

\* The inductive invariant of the cell and the monitor holds in every
\* reachable state.
THEOREM RcuInvHolds == Spec => []RcuInv
<1>1. Inv => RcuInv
  BY OnceIsDroppedOnce DEF Inv, RcuInv
<1>. QED
  BY <1>1, InitInv, NextInv, PTL DEF Spec

\* The states of the cell, the monitor and the tasks are well formed.
THEOREM TypeCorrect == Spec => []TypeOK
<1>1. RcuInv => TypeOK
  BY DEF RcuInv
<1>. QED
  BY <1>1, RcuInvHolds, PTL

\* However many CPUs, tasks, nested guards and updates there are, what a guard
\* has loaded is not freed before the guard is dropped.
THEOREM ReadersAreSafe == Spec => []NoUseAfterFree
<1>1. RcuInv => NoUseAfterFree
  BY DEF RcuInv
<1>. QED
  BY <1>1, RcuInvHolds, PTL

\* No object that was ever in the cell is dropped twice or forgotten.
THEOREM DropsAreUnique == Spec => []DroppedOnce
<1>1. RcuInv => DroppedOnce
  BY DEF RcuInv
<1>. QED
  BY <1>1, RcuInvHolds, PTL

\* Callbacks always have a grace period to wait for that the fast path sees.
THEOREM CallbacksAreWatched == Spec => []NoStrandedCallbacks
<1>1. RcuInv => NoStrandedCallbacks
  BY DEF RcuInv
<1>. QED
  BY <1>1, RcuInvHolds, PTL
=============================================================================
