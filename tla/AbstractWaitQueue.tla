------------------------- MODULE AbstractWaitQueue -------------------------
(***************************************************************************)
(* What a wait queue promises to its users, in as few steps as they can    *)
(* tell apart.  It stands for packages/ostd/src/sync/wait.rs wherever a    *)
(* user of the queue is modelled; module WaitQueue has the code's own      *)
(* steps, and Mutex shows that they implement these.                       *)
(*                                                                         *)
(* A thread has at most one live Waiter, so threads name their wakers.  A  *)
(* waker whose Waiter was dropped can only be popped and skipped, so it is *)
(* left out of the queue.  The counter num_wakers, the spin lock and the   *)
(* run queue are gone: a thread at "wait" that is not in `woken` sleeps.   *)
(***************************************************************************)
EXTENDS Naturals, Sequences, FiniteSets

CONSTANTS Threads, NoThread

ASSUME AbstractWaitQueueAssumption == NoThread \notin Threads

VARIABLES queue,    \* live wakers, in the order of enqueue
          woken,    \* threads with a live waker whose has_woken is set
          popped,   \* the live waker a thread inside wake_* has taken out
          pc

queueVars == <<queue, woken, popped>>
awqVars == <<queueVars, pc>>

Goto(t, to) == pc' = [pc EXCEPT ![t] = to]

AbstractWaitQueueInit ==
    /\ queue = <<>>
    /\ woken = {}
    /\ popped = [t \in Threads |-> NoThread]
    /\ pc = [t \in Threads |-> "idle"]

\* enqueue, before each evaluation of the condition.
Enqueue(t) ==
    /\ pc[t] = "enqueue"
    /\ queue' = Append(queue, t)
    /\ Goto(t, "retry")
    /\ UNCHANGED <<woken, popped>>

\* Waiter::wait returns: it consumes the wake event, and wait_until goes round.
Wait(t) ==
    /\ pc[t] = "wait"
    /\ t \in woken
    /\ woken' = woken \ {t}
    /\ Goto(t, "enqueue")
    /\ UNCHANGED <<queue, popped>>

\* Drop for Waiter.  Its waker is closed: whoever holds it finds that wake_up
\* does nothing and looks for the next one.
DropWaiter(t, to) ==
    LET holders == {u \in Threads : popped[u] = t}
    IN /\ queue' = SelectSeq(queue, LAMBDA u : u # t)
       /\ woken' = woken \ {t}
       /\ popped' = [u \in Threads |-> IF u \in holders THEN NoThread ELSE popped[u]]
       /\ pc' = [u \in Threads |-> IF u = t THEN to
                                   ELSE IF u \in holders THEN "pop" ELSE pc[u]]

\* One round of wake_one or wake_all: take a waker out, or return to `done`.
Pop(t, done) ==
    /\ pc[t] = "pop"
    /\ IF queue = <<>>
       THEN Goto(t, done) /\ UNCHANGED <<queue, popped>>
       ELSE /\ popped' = [popped EXCEPT ![t] = Head(queue)]
            /\ queue' = Tail(queue)
            /\ Goto(t, "wake_up")
    /\ UNCHANGED woken

\* wake_up: a waker that was woken already sends the caller round the loop.
WakeUp(t, next) ==
    /\ pc[t] = "wake_up"
    /\ woken' = woken \cup {popped[t]}
    /\ popped' = [popped EXCEPT ![t] = NoThread]
    /\ Goto(t, IF popped[t] \in woken THEN "pop" ELSE next)
    /\ UNCHANGED queue

Sleeps(t) == pc[t] = "wait" /\ t \notin woken

AbstractWaitQueueTypeOK(pcs) ==
    /\ queue \in Seq(Threads)
    /\ woken \subseteq Threads
    /\ popped \in [Threads -> Threads \cup {NoThread}]
    /\ pc \in [Threads -> pcs]
=============================================================================
