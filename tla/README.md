# A verification project for kei

kei is an operating system kernel in Rust, derived from Asterinas: a small
privileged framework (`packages/ostd`) with tasks, synchronisation, memory and
interrupts, a Linux-compatible kernel on top of it (`kernel/`), its components and
libraries (`kernel/comps`, `kernel/libs`), and the kei manifest and wire
protocol (`packages/kei`). This directory
models the parts on which the rest of the kernel sleeps, wakes and reclaims
memory: wait queues, the sleeping mutex, the sleeping reader-writer mutex,
read-copy-update, and futexes. TLC checks them on small instances, and TLAPS
proves the invariants of the mutex (with its wait queue) and of
read-copy-update for any number of threads, CPUs and objects.

These parts cover a small share of the repository, which has over 260,000 lines
of Rust. The inventory below and `components` in `PROJECT.json` say what is
left out.

## Inventory

| Part | Source | Concurrency and failure | Module |
|---|---|---|---|
| Wait queues, waiters, wakers | `packages/ostd/src/sync/wait.rs` | lock-free fast path, wake before sleep, closed wakers | WaitQueue, AbstractWaitQueue |
| Mutex | `packages/ostd/src/sync/mutex.rs` | barging, missed release | Mutex, AbstractMutex, MutexProofs |
| RwMutex | `packages/ostd/src/sync/rwmutex.rs` | four fields in one atomic word, optimistic changes that are undone | RwMutex |
| Read-copy-update | `packages/ostd/src/sync/rcu/` | grace periods across CPUs, nested guards | Rcu, RcuProofs |
| Futex, interruptible sleep | `kernel/src/process/posix_thread/futex.rs`, `kernel/src/process/signal/pause.rs` | user stores, bucket locks, requeue, timeout, signal | Futex |
| Condition variable | `kernel/src/process/sync/condvar.rs` | counters against timeouts | planned |
| Work queues | `kernel/src/thread/work_queue/` | worker life cycle, monitor | planned |
| Spin locks, RwLock | `packages/ostd/src/sync/` | as RwMutex, without sleeping | planned |
| Scheduler, context switch | `packages/ostd/src/task/`, `kernel/src/sched/` | wake-up on another CPU, preemption | planned; only park and unpark are in WaitQueue |
| Soft interrupts, taskless jobs | `kernel/comps/softirq/` | pending mask, once-only scheduling | planned |
| Pollee, epoll, pipes, ring buffer | `kernel/src/process/signal/poll.rs`, `kernel/src/events/epoll/`, `kernel/src/fs/pipe/`, `kernel/libs/ring-buffer/` | callbacks against readers, index wrap-around | planned |
| Unix, vsock and IP sockets | `kernel/src/net/` | backlog, credit | planned (unix backlog first) |
| Signals, exit, wait, semaphores, file locks | `kernel/src/process/`, `kernel/src/ipc/`, `kernel/src/fs/` | exit racing wait, undo, range splitting | planned |
| Page tables, TLB, allocators, virtual memory | `packages/ostd/src/mm/`, `kernel/src/vm/` | cursor locking, shoot-down | planned in part |
| MlsDisk | `kernel/comps/mlsdisk/` | transactions, crash recovery | planned |
| Wire protocol | `packages/kei/src/wire/` | lossy line, resynchronisation | planned |
| File systems, system calls, drivers, TTY, architecture, tools | various | data formats, I/O, assembly | not planned |

`PROJECT.json` has the exact paths and the reason for each part that is not
modelled.

How the modelled parts interact:

```
  Futex        kernel: sleeps through pause_timeout on a Waiter/Waker of its own
    |
  RwMutex   Mutex        both are WaitQueue::wait_until around a try_ operation
      \      /
      WaitQueue          Waiter/Waker; park_current and unpark_target of the
          |              scheduler are at its lower edge
  switch_to_task ------> Rcu   each context switch reports a quiescent state
```

## Modules

Each step of a model is one access to shared memory, or a whole spin-locked
critical section where nothing outside the lock can see its middle. Where
something can (a counter that is read without the lock, user memory), the
section is split. `pc[t]` is the place of thread `t` in the code, and the
program points have the names of the calls they stand before.

**WaitQueue** has the code's own steps of `wait.rs`. State: `num_wakers` (the
atomic that `is_empty` reads without the lock), `wakers` (the deque),
`wakers_lock`, `has_woken` of every waker, the live `waiter` of each thread, the
waker that a `wake_one` has `popped`, and `parked`, the threads that
`park_current` took off the run queue. `push_back`/`fetch_add` and
`pop_front`/`fetch_sub` are two steps each. Setting `has_woken` and
`unpark_target` are two steps, and so are the first look at `has_woken` in
`do_wait` and the second one inside `park_current`. Waker objects are reused
once nobody refers to them, as `Arc` does.

**Mutex** extends it with the bool `lock`. Actions: `lock`, `try_lock`, the
attempts of `wait_until`, the drop of the waiter, `unlock` (release, then
`wake_one`).

**AbstractWaitQueue** and **AbstractMutex** are what a wait queue and a mutex
promise: a queue of live wakers, a set of woken threads, and no counter, spin
lock or run queue. `Mutex!ImplementsAbstractMutex` is the refinement. An entry
counts as enqueued when `num_wakers` says so, and a popped waker counts as
handed over when its `has_woken` is set. RwMutex is built on
AbstractWaitQueue: this is how a result about `wait.rs` carries over to another
user without the product of both state spaces.

**RwMutex** has the atomic word as a record of its four fields (writer,
upreader, being upgraded, number of readers). `try_read` is a `fetch_add` and,
on failure, a separate `fetch_sub`; `try_upread` likewise. `upgrade` and
`downgrade` are a spin on `compare_exchange` followed by the drop of the old
guard, with its wake-ups. `WakesAll` says which guards wake one and which wake
all.

**Futex** has the words in user memory, the buckets with their spin locks, the
items (key, bitset, waker), and for each thread the timer, the pending signal
and the signalled waker of `pause_timeout`. Actions: `futex_wait` (lock, load,
add, pause, remove and result), `futex_wake`, `futex_wake_op`, `futex_requeue`
(with `lock_bucket_pairs`, one lock at a time), user stores, the timer callback,
the arrival of a signal and the kick of the signalled waker. `got` and `owed`
are ghosts for the properties. Items with a closed waker are indistinguishable
and share one name; `MaxStale` bounds them.

**Rcu** has the cell (`ptr`), the guards of each CPU, the objects taken out of
the cell and not yet given to the monitor (`unlinked`), the monitor
(`is_monitoring`, `is_complete`, `cpu_mask`, `callbacks`, `next_callbacks`), and
the tasks inside `finish_grace_period` with the callbacks they have taken.
Actions: `read` in its two steps, the drop of a guard, `update`,
`compare_exchange`, the drop of the cell, `after_grace_period`, the report of
`switch_to_task` in its two steps, and the invocation of a callback. An object
that has been freed may be allocated again at the same address.

Memory is sequentially consistent in all modules: what weaker orderings on the
atomics allow is not covered. Interrupt handlers appear only as the timer
callback in Futex.

## Runs

| Run | Checks | Shows | Distinct states |
|---|---|---|---|
| `mutex` | TypeOK, Exclusion, NoLostWakeup, WakeupInv, ImplementsAbstractMutex, LockerIsServed | one holder; no thread sleeps on a free mutex that nobody is still busy with; the inductive invariant; the refinement; a locker is served once the others rest | 310,441 |
| `rwmutex_guards` | TypeOK, Exclusion, WordIsAccountedFor | with direct `try_` calls: a writer is alone, one upreader; every field of the word belongs to a guard or to an attempt about to be undone | 75,072 |
| `rwmutex_wakeups` | NoLostWakeup, ReadersSleepForWriters, CallerIsServed | with blocking calls only: releases are not missed, readers sleep only for writers and upgrades, calls end once the others rest | 53,031 |
| `rwmutex_try_read` | NoLostWakeup (violated) | finding 1 | |
| `rwmutex_upread` | UpreadersSleepForUpreaders (violated) | finding 2 | |
| `futex_wakeups` | TypeOK, NoLostWakeup, WaitersAreFindable | a store followed by a wake is not missed by a waiter that has read the old value; after requeues every waiter is in the bucket its key hashes to; no thread sleeps or returns with a bucket locked | 619,280 |
| `futex_results` | OkIffWoken, NoStaleItems | one bucket, timeouts: a wait reports success exactly if it was woken, and leaves no item | 615,516 |
| `futex_interrupts` | InterruptsAreSeen, OkIffWoken, WaiterReturns | signals and timeouts: none is slept through, and the waiter returns | 61,326 |
| `futex_requeue` (MCFutexTeams) | NoCircularWait, RequeueIsBounded | two buckets. One waiter and two callers: the lock order is free of circular waits; three waiters and one caller: a requeue moves at most as many as asked, 0 or 1 | 190,073 |
| `futex_stale_item` | NoStaleItems (violated) | finding 3 | |
| `futex_zero_requeues` | RequeueIsBounded (violated) | finding 4 | |
| `rcu` | TypeOK, NoUseAfterFree, DroppedOnce, NoStrandedCallbacks, RcuInv, DropsHappen | guards protect what they read, each object is dropped at most once, callbacks are never left without a grace period, and replaced objects are dropped on condition that all CPUs keep switching tasks | 135,352 |

### Bounds, and why they are enough

- `mutex`: three threads, so a holder, a sleeper and a third thread that barges
  in or queues up; two wakers per thread, so that a closed waker of an earlier
  call can be in the queue next to the live one. With one waker per thread that
  case does not occur. The safety theorems hold for any number of both.
- `rwmutex_*`: three threads, so that each of the three modes can meet the other
  two. `MaxReader = 4` stands for 2^60 and, like it, is above the number of
  threads. Overflow of the reader count is therefore assumed away, not shown.
- `futex_*`: two waiters (one woken, one requeued) and one caller, two futexes
  in one bucket or in two, and two values of a word. Wakes ask for one thread,
  so that a requeue has somebody left to move. In `futex_requeue` a behaviour has
  either three waiters and a caller that wakes and requeues, so that a requeue
  with a limit of 1 finds two waiters left, or one waiter and two callers of all
  operations, because circular waits are among callers.
  `futex_interrupts` has one waiter; `MaxKicks = 2` lets two senders be between
  queueing a signal and waking the waiter.
  Bitsets `{1,2}` and `{1}` give a waker that matches both waiters or only one.
  Timeouts, signals and requeues across buckets are on in the runs that are
  about them, not all at once. `futex_results` has one bucket because of finding
  3, and `futex_requeue` two because of finding 4.
- `rcu`: two CPUs, one that reports and one that still reads; two guard slots
  per CPU, so that guards nest; two objects, so that a callback can arrive in
  the middle of a grace period; two tasks inside `finish_grace_period`. The
  safety theorems hold for any number of these.

Symmetry (of waiters, callers and values, none of which the model orders) is
used only in futex runs that check no liveness property; `futex_requeue` tells
callers apart and uses the symmetry of waiters.

### Fairness

- Mutex and RwMutex: weak fairness on every thread's steps inside a call. A
  runnable thread keeps running; no thread is obliged to make a call or to drop
  a guard (`Unlock` and `DropGuard` are not among the fair steps). The locks are unfair by design (a newcomer may overtake a woken
  thread), so the liveness properties are stated for the case that the other
  threads eventually rest. They are checked for one thread: the specifications
  do not tell threads apart, so it stands for all. `wake_all` goes on while there are wakers, so it too
  ends only if the others stop queueing up.
- Futex: weak fairness on the steps inside a call and on the kick after a
  signal. Time may pass without a timeout; a timer that has expired has its
  callback run.
- Rcu: a call that has replaced a pointer goes on to register it, and taken
  callbacks are invoked. That every CPU keeps switching tasks is not fairness of
  the specification but a premise of DropsHappen (`KeepsReporting`): as long as
  grace periods are monitored, tasks get through `finish_grace_period` on each
  CPU again and again, which includes that read guards are dropped. The code does
  not guarantee it: a CPU that stays in its idle loop never enters
  `switch_to_task`, and a grace period waits for it. The premise asks nothing
  when no grace period is monitored, so callbacks that are forgotten violate the
  property.

## Proofs

**MutexProofs** proves, for every set of threads and wakers that satisfies
`WaitQueueAssumption`: `TypeCorrect`, `MutualExclusion`, `WakeupsAreNotLost`,
and `InductiveInvariant`, from which the others follow.

NoLostWakeup speaks only of states in which everybody rests, so it says nothing
about the steps that lead there. WakeupInv adds what the code maintains in
between:

- CountOfWakers: `num_wakers` differs from the length of the queue only inside
  the lock, by one, in a known direction. The fast path of `wake_one` depends on
  it.
- Registered: a thread that may go to sleep unwoken has its waker in the queue,
  or in the hands of a thread that is about to set `has_woken`.
- UnparkPending: a parked thread whose `has_woken` is set has an unpark on its
  way.
- SomebodyActs: while somebody sleeps, the mutex is held, or some thread will
  still try it or look for somebody to wake.
- Bookkeeping ties each piece of state to its program points.

The proof has one lemma or step per action, and under it one per conjunct that
the action can disturb.

**RcuProofs** proves, for all sets of CPUs, tasks, guard slots and objects:
`TypeCorrect`, `ReadersAreSafe` (NoUseAfterFree), `DropsAreUnique` (DroppedOnce),
`CallbacksAreWatched` (NoStrandedCallbacks), and `RcuInvHolds` for the inductive
invariant. NoUseAfterFree needs the argument of the grace period.
GracePeriodCovers says that a CPU in `cpu_mask` holds no guard of an object in
`callbacks`: it was preemptible since the period began, hence without guards,
and the object was out of the cell by then. When the mask is full this becomes
TakenAreUnreachable for the task that takes the callbacks.
`is_monitoring = ~is_complete` is needed for NoStrandedCallbacks, because the
fast path reads only the former.

Only model-checked: every liveness property (fairness is out of the prover's
reach); the refinement of AbstractMutex; all of RwMutex and Futex.

## Findings

1. `rwmutex.rs:167`: a failed `try_read` takes its READER back without waking
   anybody. If the word becomes 0 by that, a writer that failed because of the
   READER, or was not woken by a guard dropped meanwhile, sleeps on a free mutex.
   `write()` says it sleeps "until there are no writers, upreaders, or readers
   present". Run `rwmutex_try_read`. With blocking calls alone the property
   holds (`rwmutex_wakeups`): a blocking reader that has taken its READER back
   tries again, and the guard it gets in the end wakes a sleeper when it is
   dropped.
2. `rwmutex.rs:374`: an upgradeable guard that is dropped next to a reader wakes
   nobody, so a second upreader sleeps until the readers have gone; `upread()`
   says "until there are no writers or upreaders present". Run `rwmutex_upread`.
3. `futex.rs:124`: a waiter that was requeued to another bucket and then times
   out or is interrupted looks for its item in the old bucket only. It takes the
   missing item for a wake-up, returns success, and leaves the item behind. Run
   `futex_stale_item`.
4. `futex.rs:507`: a requeue within one bucket with a limit of 0 still moves one
   item; `sys_futex` says that 0 "means no requeues". Run `futex_zero_requeues`.

## Limits

- Sequentially consistent memory; spin-locked sections are atomic unless split.
- MAX_READER is never reached.
- Rcu: callbacks are a set, their order is left out; `read_with` is a nested
  guard; an `Arc` that is put into a cell a second time is left out, so an
  object has one owner. The guard of a `compare_exchange` may be dropped before
  its object is registered, which allows more than the code does.
- Futex: two addresses of one shared futex are one member of `Futexes`, so a
  requeue may name the same futex twice. Addresses, page faults, the
  private/shared distinction and the encoding of the `wake_op` argument are
  abstracted. Signals are sent only to threads that still run, whose process is
  not a zombie.
- WaitQueue: `wake_all` is modelled on the abstract queue only.

## Plan

Modules, in this order:

1. Condvar on AbstractMutex and AbstractWaitQueue: waiter and notify counters
   against timeouts, at `condvar.rs:170`.
2. WorkQueue: workers going idle and being destroyed against the monitor and
   new items.
3. The scheduler edge: run queues, a wake-up from another CPU, the context
   switch. An abstract run queue for WaitQueue, refined by it.
4. The unix-socket backlog, pipes over the ring buffer (indices modulo their
   width), Pollee and epoll.
5. The wire protocol: gateway and node over a line that loses and damages
   bytes; the decoder as a pure algorithm against a reference.
6. Exit and wait, System V semaphores, file-range locks (splitting and merging
   as a pure algorithm), soft interrupts, page-table cursors and TLB flush,
   MlsDisk transactions with crashes.

Each new component comes with an abstract specification where another component
uses it. Runs that ask one question on several instances are merged as it
grows.

Proofs, in this order: Exclusion and WordIsAccountedFor of RwMutex; the
refinement of AbstractMutex; NoLostWakeup and NoCircularWait of Futex; the
invariants of Condvar and WorkQueue.
