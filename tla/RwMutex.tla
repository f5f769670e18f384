------------------------------ MODULE RwMutex ------------------------------
(***************************************************************************)
(* The sleeping reader-writer mutex with upgradeable readers,              *)
(* packages/ostd/src/sync/rwmutex.rs, on a wait queue.                     *)
(*                                                                         *)
(* The word `lock` is a record of its four fields.  try_read and           *)
(* try_upread first change the word and undo the change when they find     *)
(* that they may not have the mutex; the steps in between are modelled,    *)
(* since a bit that is only set in passing can turn other callers away.    *)
(***************************************************************************)
EXTENDS AbstractWaitQueue

CONSTANTS MaxReader,   \* MAX_READER, the sentinel bit of the reader count
          TryModes     \* the try_ methods that are called directly

\* MAX_READER is 2^60: there are fewer threads than that.
ASSUME RwMutexAssumption == /\ MaxReader \in Nat
                            /\ Cardinality(Threads) < MaxReader
                            /\ TryModes \subseteq {"read", "write", "upread"}

VARIABLES lock,   \* the AtomicUsize
          mode,   \* the guard a thread wants or has
          ret     \* where a thread goes on after an undo or a wake-up call

vars == <<lock, mode, ret, awqVars>>

Modes == {"read", "write", "upread"}

PCs == {"idle", "try", "first", "enqueue", "retry", "undo", "wait", "drop_waiter",
        "held", "downgrade", "downgrade_drop", "upgrade", "upgrade_drop", "pop",
        "wake_up"}

\* The words 0, WRITER, UPGRADEABLE_READER, READER and
\* UPGRADEABLE_READER | BEING_UPGRADED.
Word(w, u, b, r) == [writer |-> w, upreader |-> u, upgraded |-> b, readers |-> r]
Unlocked == Word(FALSE, FALSE, FALSE, 0)
Writer == Word(TRUE, FALSE, FALSE, 0)
Upreader == Word(FALSE, TRUE, FALSE, 0)
Reader == Word(FALSE, FALSE, FALSE, 1)
Upgrading == Word(FALSE, TRUE, TRUE, 0)

Init == /\ AbstractWaitQueueInit
        /\ lock = Unlocked
        /\ mode = [t \in Threads |-> "none"]
        /\ ret = [t \in Threads |-> "idle"]

----------------------------------------------------------------------------
(* Acquiring *)

\* Where each attempt of wait_until, or a direct try_ call, goes on.
OnSuccess == [try |-> "held", first |-> "held", retry |-> "drop_waiter"]
OnFailure == [try |-> "idle", first |-> "enqueue", retry |-> "wait"]

\* A failed attempt that has to take its change of the word back.
Undo(t, at) == /\ ret' = [ret EXCEPT ![t] = OnFailure[at]]
               /\ Goto(t, "undo")
               /\ UNCHANGED mode

\* An attempt, an undo or a call is over; what it remembered is forgotten.
Finish(t, to) == /\ Goto(t, to)
                 /\ mode' = IF to = "idle" THEN [mode EXCEPT ![t] = "none"] ELSE mode
                 /\ ret' = [ret EXCEPT ![t] = "idle"]

\* read(), write(), upread(): enter wait_until with the try_ method.
Acquire(t, m) ==
    /\ pc[t] = "idle"
    /\ mode' = [mode EXCEPT ![t] = m]
    /\ Goto(t, "first")
    /\ UNCHANGED <<lock, ret, queueVars>>

\* A direct call of try_read(), try_write() or try_upread().
TryAcquire(t, m) ==
    /\ pc[t] = "idle"
    /\ mode' = [mode EXCEPT ![t] = m]
    /\ Goto(t, "try")
    /\ UNCHANGED <<lock, ret, queueVars>>

\* try_read: fetch_add(READER), then look at what the word was.
TryRead(t, at) ==
    /\ pc[t] = at /\ mode[t] = "read"
    /\ lock' = [lock EXCEPT !.readers = @ + 1]
    /\ IF lock.writer \/ lock.upgraded \/ lock.readers >= MaxReader
       THEN Undo(t, at)
       ELSE Finish(t, OnSuccess[at])
    /\ UNCHANGED queueVars

\* try_write: compare_exchange(0, WRITER).
TryWrite(t, at) ==
    /\ pc[t] = at /\ mode[t] = "write"
    /\ IF lock = Unlocked
       THEN lock' = Writer /\ Finish(t, OnSuccess[at])
       ELSE UNCHANGED lock /\ Finish(t, OnFailure[at])
    /\ UNCHANGED queueVars

\* Mutant: a second upgradeable reader is let in.
TryUpreadNextToUpreader(t, at) ==
    /\ pc[t] = at /\ mode[t] = "upread"
    /\ lock' = [lock EXCEPT !.upreader = TRUE]
    /\ IF ~lock.writer THEN Finish(t, OnSuccess[at])
       ELSE IF ~lock.upreader THEN Undo(t, at)
       ELSE Finish(t, OnFailure[at])
    /\ UNCHANGED queueVars

\* Mutant: the bit is taken back after every failure.
TryUpreadUndoesAlways(t, at) ==
    /\ pc[t] = at /\ mode[t] = "upread"
    /\ lock' = [lock EXCEPT !.upreader = TRUE]
    /\ IF ~lock.writer /\ ~lock.upreader THEN Finish(t, OnSuccess[at]) ELSE Undo(t, at)
    /\ UNCHANGED queueVars

\* try_upread: fetch_or(UPGRADEABLE_READER).  The bit is taken back only if
\* this call has set it, next to a writer.
TryUpread(t, at) ==
    /\ pc[t] = at /\ mode[t] = "upread"
    /\ lock' = [lock EXCEPT !.upreader = TRUE]
    /\ IF ~lock.writer /\ ~lock.upreader THEN Finish(t, OnSuccess[at])
       ELSE IF ~lock.upreader THEN Undo(t, at)
       ELSE Finish(t, OnFailure[at])
    /\ UNCHANGED queueVars

\* Mutant: a failed try_upread subtracts READER.
UndoSubtractsReader(t) ==
    /\ pc[t] = "undo"
    /\ lock' = [lock EXCEPT !.readers = @ - 1]
    /\ Finish(t, ret[t])
    /\ UNCHANGED queueVars

\* The fetch_sub of a failed try_read or try_upread.  Nobody is woken.
UndoTry(t) ==
    /\ pc[t] = "undo"
    /\ lock' = IF mode[t] = "read" THEN [lock EXCEPT !.readers = @ - 1]
                                   ELSE [lock EXCEPT !.upreader = FALSE]
    /\ Finish(t, ret[t])
    /\ UNCHANGED queueVars

ReturnGuard(t) ==
    /\ pc[t] = "drop_waiter"
    /\ DropWaiter(t, "held")
    /\ UNCHANGED <<lock, mode, ret>>

----------------------------------------------------------------------------
(* Guards *)

\* Call wake_one or wake_all (WakesAll says which) and go on at `to`.
WakeThen(t, to) == /\ Goto(t, "pop")
                   /\ ret' = [ret EXCEPT ![t] = to]
                   /\ UNCHANGED mode

\* Drop for RwMutexReadGuard.
DropRead(t) ==
    /\ pc[t] = "held" /\ mode[t] = "read"
    /\ lock' = [lock EXCEPT !.readers = @ - 1]
    /\ IF lock = Reader THEN WakeThen(t, "idle") ELSE Finish(t, "idle")
    /\ UNCHANGED queueVars

\* Mutant: dropping a write guard wakes nobody.
DropWriteWithoutWake(t) ==
    /\ pc[t] = "held" /\ mode[t] = "write"
    /\ lock' = [lock EXCEPT !.writer = FALSE]
    /\ Finish(t, "idle")
    /\ UNCHANGED queueVars

\* Drop for RwMutexWriteGuard.
DropWrite(t) ==
    /\ pc[t] = "held" /\ mode[t] = "write"
    /\ lock' = [lock EXCEPT !.writer = FALSE]
    /\ WakeThen(t, "idle")
    /\ UNCHANGED queueVars

\* Mutant: dropping an upgradeable guard wakes nobody.
DropUpreadWithoutWake(t) ==
    /\ pc[t] = "held" /\ mode[t] = "upread"
    /\ lock' = [lock EXCEPT !.upreader = FALSE]
    /\ Finish(t, "idle")
    /\ UNCHANGED queueVars

\* Drop for RwMutexUpgradeableGuard.
DropUpread(t) ==
    /\ pc[t] = "held" /\ mode[t] = "upread"
    /\ lock' = [lock EXCEPT !.upreader = FALSE]
    /\ IF lock = Upreader THEN WakeThen(t, "idle") ELSE Finish(t, "idle")
    /\ UNCHANGED queueVars

\* downgrade: spin on compare_exchange(WRITER, UPGRADEABLE_READER), ...
Downgrade(t) ==
    /\ pc[t] = "held" /\ mode[t] = "write"
    /\ Goto(t, "downgrade")
    /\ UNCHANGED <<lock, mode, ret, queueVars>>

TryDowngrade(t) ==
    /\ pc[t] = "downgrade"
    /\ lock = Writer
    /\ lock' = Upreader
    /\ mode' = [mode EXCEPT ![t] = "upread"]
    /\ Goto(t, "downgrade_drop")
    /\ UNCHANGED <<ret, queueVars>>

\* ... and then drop the write guard: fetch_and(!WRITER) and wake_all.
DowngradeDrop(t) ==
    /\ pc[t] = "downgrade_drop"
    /\ lock' = [lock EXCEPT !.writer = FALSE]
    /\ WakeThen(t, "held")
    /\ UNCHANGED queueVars

\* upgrade: set BEING_UPGRADED, then spin on
\* compare_exchange(UPGRADEABLE_READER | BEING_UPGRADED, WRITER | UPGRADEABLE_READER), ...
Upgrade(t) ==
    /\ pc[t] = "held" /\ mode[t] = "upread"
    /\ lock' = [lock EXCEPT !.upgraded = TRUE]
    /\ Goto(t, "upgrade")
    /\ UNCHANGED <<mode, ret, queueVars>>

TryUpgrade(t) ==
    /\ pc[t] = "upgrade"
    /\ lock = Upgrading
    /\ lock' = Word(TRUE, TRUE, FALSE, 0)
    /\ mode' = [mode EXCEPT ![t] = "write"]
    /\ Goto(t, "upgrade_drop")
    /\ UNCHANGED <<ret, queueVars>>

\* ... and then drop the upgradeable guard.
UpgradeDrop(t) ==
    /\ pc[t] = "upgrade_drop"
    /\ lock' = [lock EXCEPT !.upreader = FALSE]
    /\ IF lock = Upreader THEN WakeThen(t, "held") ELSE Finish(t, "held")
    /\ UNCHANGED queueVars

----------------------------------------------------------------------------
\* Mutant: wake_one everywhere.
WakesOne(t) == FALSE

\* The last reader wakes one thread; every other guard wakes all of them.
WakesAll(t) == mode[t] # "read"

\* A step of wake_one or wake_all.
WakeStep(t) ==
    /\ Pop(t, ret[t]) \/ WakeUp(t, IF WakesAll(t) THEN "pop" ELSE ret[t])
    /\ IF pc'[t] \in {"pop", "wake_up"} THEN UNCHANGED <<mode, ret>> ELSE Finish(t, ret[t])
    /\ UNCHANGED lock

WaitStep(t) == /\ Enqueue(t) \/ Wait(t)
               /\ UNCHANGED <<lock, mode, ret>>

Attempt(t) == \E at \in {"try", "first", "retry"} :
                  TryRead(t, at) \/ TryWrite(t, at) \/ TryUpread(t, at)

DropGuard(t) == DropRead(t) \/ DropWrite(t) \/ DropUpread(t)

\* Steps a thread inside a call takes by itself.
Continue(t) == \/ Attempt(t) \/ UndoTry(t) \/ ReturnGuard(t)
               \/ TryDowngrade(t) \/ DowngradeDrop(t)
               \/ TryUpgrade(t) \/ UpgradeDrop(t) \/ WaitStep(t) \/ WakeStep(t)

Next == \E t \in Threads :
            \/ \E m \in Modes : Acquire(t, m)
            \/ \E m \in TryModes : TryAcquire(t, m)
            \/ DropGuard(t) \/ Downgrade(t) \/ Upgrade(t)
            \/ Continue(t)

Spec == Init /\ [][Next]_vars

\* Every runnable thread keeps running inside the mutex's code.
FairSpec == Spec /\ \A t \in Threads : WF_vars(Continue(t))

----------------------------------------------------------------------------
TypeOK == /\ AbstractWaitQueueTypeOK(PCs)
          /\ lock \in [writer : BOOLEAN, upreader : BOOLEAN, upgraded : BOOLEAN,
                       readers : Nat]
          /\ mode \in [Threads -> Modes \cup {"none"}]
          /\ ret \in [Threads -> {"idle", "held", "enqueue", "wait"}]

Inside == {"drop_waiter", "held", "downgrade", "downgrade_drop", "upgrade", "upgrade_drop"}

\* A thread has its guard; one that wakes others from a downgrade still has it.
Holds(t, m) == /\ mode[t] = m
               /\ \/ pc[t] \in Inside
                  \/ pc[t] \in {"pop", "wake_up"} /\ ret[t] = "held"

\* A writer is alone; there is at most one upgradeable reader.
Exclusion ==
    \A s, t \in Threads :
        s # t => /\ Holds(s, "write") => \A m \in Modes : ~Holds(t, m)
                 /\ Holds(s, "upread") => ~Holds(t, "upread")

\* Each field of the word is accounted for by guards and by attempts that are
\* about to be undone; so no fetch_sub ever borrows from another field.
WordIsAccountedFor ==
    /\ lock.readers = Cardinality({t \in Threads :
                                      \/ Holds(t, "read")
                                      \/ pc[t] = "undo" /\ mode[t] = "read"})
    /\ lock.writer <=> \E t \in Threads : Holds(t, "write")
    /\ lock.upreader <=> \E t \in Threads : \/ Holds(t, "upread")
                                            \/ pc[t] = "upgrade_drop"
                                            \/ pc[t] = "undo" /\ mode[t] = "upread"
    /\ lock.upgraded <=> \E t \in Threads : pc[t] = "upgrade"

Quiet(t) == Sleeps(t) \/ pc[t] \in {"idle", "held"}

\* A release is never missed: when the word is 0 and no thread is inside a
\* call any more, no thread is left asleep.
NoLostWakeup ==
    (lock = Unlocked /\ \A t \in Threads : Quiet(t)) => \A t \in Threads : ~Sleeps(t)

\* What the documentation of read() and upread() says: a reader sleeps until
\* there are no writers or upgrading upreaders, ...
ReadersSleepForWriters ==
    ((\A t \in Threads : Quiet(t)) /\ ~lock.writer /\ ~lock.upgraded)
        => \A t \in Threads : Sleeps(t) => mode[t] # "read"

\* ... and an upreader until there are no writers or upreaders present.
UpreadersSleepForUpreaders ==
    ((\A t \in Threads : Quiet(t)) /\ ~lock.writer /\ ~lock.upreader)
        => \A t \in Threads : Sleeps(t) => mode[t] # "upread"

\* A call of a thread ends once the others have stopped using the mutex.
Served(t) == (<>[](\A u \in Threads \ {t} : pc[u] = "idle"))
                 => (pc[t] \in {"first", "upgrade", "downgrade"} ~> pc[t] = "held")

\* A caller is served once the other threads have stopped using the mutex:
\* wait_until finds a way in, and the compare_exchange loops of upgrade() and
\* downgrade() come to an end.  The threads are interchangeable, so any one of
\* them stands for all.
CallerIsServed == Served(CHOOSE t \in Threads : TRUE)
=============================================================================
