---------------------------- MODULE GlobalFifo ----------------------------
(***************************************************************************)
(* The globalfifo character device of src/globalfifo/globalfifo.c: one    *)
(* globalfifo_dev with a GLOBALFIFO_SIZE-byte buffer mem and its length    *)
(* current_len, a semaphore sem, and the wait queues r_wait and w_wait.    *)
(* Processes call read, write, poll and ioctl(FIFO_CLEAR) on it.           *)
(*                                                                         *)
(* Each call is split where the code can block or where it takes a wait-   *)
(* queue spinlock that another process may hold: down(sem), schedule(),    *)
(* and the wait-queue spinlocks of wake_up_interruptible and               *)
(* remove_wait_queue whose list other processes change concurrently.       *)
(***************************************************************************)
EXTENDS Integers, Sequences, FiniteSets, SequencesExt

CONSTANTS Procs,     \* processes that call into the device
          NoProc,    \* no owner
          FifoSize,  \* GLOBALFIFO_SIZE
          Counts,    \* the count arguments of read and write
          Data,      \* byte values a writer supplies (never 0)
          Signals,   \* whether a sleeping process may receive a signal
          Loading    \* whether calls may arrive while globalfifo_init runs

ASSUME /\ NoProc \notin Procs
       /\ FifoSize \in Nat \ {0}
       /\ Counts \subseteq Nat \ {0}
       /\ 0 \notin Data
       /\ Signals \in BOOLEAN /\ Loading \in BOOLEAN

VARIABLES len,    \* dev->current_len
          mem,    \* dev->mem, indexed 0..GLOBALFIFO_SIZE-1
          sem,    \* the holder of dev->sem (a semaphore initialised to 1)
          rq,     \* the processes whose wait entry is on dev->r_wait
          wq,     \* the processes whose wait entry is on dev->w_wait
          qlk,    \* the holder of each wait-queue head's spinlock
          state,  \* each process's task state
          boot,   \* how far globalfifo_init has got after cdev_add
          pc, loc, oops

vars == <<len, mem, sem, rq, wq, qlk, state, boot, pc, loc, oops>>

Queues == {"r", "w"}
\* Return values: byte counts and the negated errnos the code returns.
\* NoRet (-EPERM, which the code never returns) marks a call in progress.
EAGAIN == 11
EFAULT == 14
ERESTARTSYS == 512
NoRet == -1
Rets == {NoRet, -EAGAIN, -EFAULT, -ERESTARTSYS} \cup (0..FifoSize)
Pcs == {"idle", "r_down", "r_check", "r_sched", "r_down2", "r_copy",
        "r_rm_lock", "r_rm_del", "w_down", "w_check", "w_sched", "w_down2",
        "w_copy", "w_wake_lock", "w_wake_walk", "w_rm",
        "p_poll", "p_wait_r", "p_add_r", "p_wait_w", "p_sleep", "p_free", "p_free_w"}
\* The events a poll(2) caller waits for: POLLIN or POLLOUT.
Events == {"in", "out"}

\* wake_up_interruptible(q): every TASK_INTERRUPTIBLE task with an entry on
\* q becomes TASK_RUNNING.
Wake(Q) == [p \in Procs |-> IF p \in Q THEN "running" ELSE state[p]]

Goto(p, l) == pc' = [pc EXCEPT ![p] = l]
SetRet(p, r) == loc' = [loc EXCEPT ![p].ret = r]

\* The locals of a process between calls; a return discards them.
NoLocals == [n |-> 0, nb |-> FALSE, ret |-> NoRet, ev |-> "none"]
Return(p) == /\ pc' = [pc EXCEPT ![p] = "idle"]
             /\ loc' = [loc EXCEPT ![p] = NoLocals]

-----------------------------------------------------------------------------
(* globalfifo_init from cdev_add on: the device is reachable by open      *)
(* before sema_init and init_waitqueue_head have run.                      *)

Init == /\ len = 0
        /\ mem = [i \in 0..FifoSize - 1 |-> 0]
        /\ sem = NoProc
        /\ rq = {} /\ wq = {}
        /\ qlk = [q \in Queues |-> NoProc]
        /\ state = [p \in Procs |-> "running"]
        /\ boot \in IF Loading THEN {"added"} ELSE {"ready"}
        /\ pc = [p \in Procs |-> "idle"]
        /\ loc = [p \in Procs |-> NoLocals]
        /\ oops = "none"

InitSem == /\ boot = "added"
           /\ boot' = "sem"
           /\ UNCHANGED <<len, mem, sem, rq, wq, qlk, state, pc, loc, oops>>

InitQueues == /\ boot = "sem"
              /\ boot' = "ready"
              /\ UNCHANGED <<len, mem, sem, rq, wq, qlk, state, pc, loc, oops>>

\* down(&dev->sem) by p, followed by add_wait_queue(Q): on the zeroed
\* semaphore of a device whose init has not reached sema_init, down()
\* links its waiter into the NULL wait_list; on a zeroed queue head
\* add_wait_queue does the same.  Both dereference NULL.
DownAdd(p, Q, l) ==
  /\ sem = NoProc
  /\ \/ /\ boot = "added"
        /\ oops' = "sem_uninit"
        /\ UNCHANGED <<sem, rq, wq, pc>>
     \/ /\ boot = "sem"
        /\ oops' = "queue_uninit"
        /\ UNCHANGED <<sem, rq, wq, pc>>
     \/ /\ boot = "ready"
        /\ qlk[Q] = NoProc
        /\ sem' = p
        /\ rq' = IF Q = "r" THEN rq \cup {p} ELSE rq
        /\ wq' = IF Q = "w" THEN wq \cup {p} ELSE wq
        /\ Goto(p, l)
        /\ UNCHANGED oops
  /\ UNCHANGED <<len, mem, qlk, state, boot, loc>>

-----------------------------------------------------------------------------
(* globalfifo_read                                                         *)

ReadBegin(p, n, nb) ==
  /\ pc[p] = "idle"
  /\ loc' = [loc EXCEPT ![p] = [NoLocals EXCEPT !.n = n, !.nb = nb]]
  /\ Goto(p, "r_down")
  /\ UNCHANGED <<len, mem, sem, rq, wq, qlk, state, boot, oops>>

ReadDown(p) == pc[p] = "r_down" /\ DownAdd(p, "r", "r_check")

\* The copy to user space, memcpy shifting the rest to the front, the wake
\* of w_wait (under its spinlock) and up(sem).  copy_to_user of a non-empty
\* range may fail with -EFAULT.
\* Mutant: the remaining bytes are not moved to the front of mem.
ReadCopyNoShift(p) ==
  LET k == Min({loc[p].n, len}) IN
  /\ \/ /\ k > 0
        /\ SetRet(p, -EFAULT)
        /\ UNCHANGED <<len, mem, state>>
     \/ /\ qlk["w"] = NoProc
        /\ len' = len - k
        /\ state' = Wake(wq)
        /\ SetRet(p, k)
        /\ UNCHANGED mem
  /\ sem' = NoProc
  /\ Goto(p, "r_rm_lock")

ReadCopy(p) ==
  LET k == Min({loc[p].n, len}) IN
  /\ \/ /\ k > 0
        /\ SetRet(p, -EFAULT)
        /\ UNCHANGED <<len, mem, state>>
     \/ /\ qlk["w"] = NoProc
        /\ mem' = [i \in 0..FifoSize - 1 |->
                     IF i < len - k THEN mem[i + k] ELSE mem[i]]
        /\ len' = len - k
        /\ state' = Wake(wq)
        /\ SetRet(p, k)
  /\ sem' = NoProc
  /\ Goto(p, "r_rm_lock")

ReadCheck(p) ==
  /\ pc[p] = "r_check"
  /\ \/ /\ len = 0 /\ loc[p].nb
        /\ SetRet(p, -EAGAIN)
        /\ sem' = NoProc
        /\ Goto(p, "r_rm_lock")
        /\ UNCHANGED <<len, mem, state>>
     \/ /\ len = 0 /\ ~loc[p].nb
        /\ state' = [state EXCEPT ![p] = "interruptible"]
        /\ sem' = NoProc
        /\ Goto(p, "r_sched")
        /\ UNCHANGED <<len, mem, loc>>
     \/ len # 0 /\ ReadCopy(p)
  /\ UNCHANGED <<rq, wq, qlk, boot, oops>>

\* schedule() returns once the task is running again; signal_pending()
\* then sends it to out2 with -ERESTARTSYS.
ReadSchedule(p) ==
  /\ pc[p] = "r_sched"
  /\ \/ /\ state[p] = "running"
        /\ Goto(p, "r_down2")
        /\ UNCHANGED loc
     \/ /\ Signals
        /\ SetRet(p, -ERESTARTSYS)
        /\ Goto(p, "r_rm_lock")
  /\ UNCHANGED <<len, mem, sem, rq, wq, qlk, state, boot, oops>>

\* The second down(&dev->sem); the code does not test current_len again.
ReadDown2(p) ==
  /\ pc[p] = "r_down2"
  /\ sem = NoProc
  /\ sem' = p
  /\ Goto(p, "r_copy")
  /\ UNCHANGED <<len, mem, rq, wq, qlk, state, boot, loc, oops>>

ReadCopyStep(p) ==
  /\ pc[p] = "r_copy"
  /\ ReadCopy(p)
  /\ UNCHANGED <<rq, wq, qlk, boot, oops>>

\* out2: remove_wait_queue(&dev->w_wait, &wait) takes the spinlock of
\* w_wait, then unlinks the entry, which is on r_wait.
ReadRemoveLock(p) ==
  /\ pc[p] = "r_rm_lock"
  /\ qlk["w"] = NoProc
  /\ qlk' = [qlk EXCEPT !["w"] = p]
  /\ Goto(p, "r_rm_del")
  /\ UNCHANGED <<len, mem, sem, rq, wq, state, boot, loc, oops>>

ReadRemoveDel(p) ==
  /\ pc[p] = "r_rm_del"
  /\ rq' = rq \ {p}
  /\ qlk' = [qlk EXCEPT !["w"] = NoProc]
  /\ state' = [state EXCEPT ![p] = "running"]
  /\ Return(p)
  /\ UNCHANGED <<len, mem, sem, wq, boot, oops>>

-----------------------------------------------------------------------------
(* globalfifo_write                                                        *)

WriteBegin(p, n, nb) ==
  /\ pc[p] = "idle"
  /\ loc' = [loc EXCEPT ![p] = [NoLocals EXCEPT !.n = n, !.nb = nb]]
  /\ Goto(p, "w_down")
  /\ UNCHANGED <<len, mem, sem, rq, wq, qlk, state, boot, oops>>

WriteDown(p) == pc[p] = "w_down" /\ DownAdd(p, "w", "w_check")

\* count is cut to the free space; copy_from_user to mem + current_len of
\* a non-empty range may fail with -EFAULT (then straight to out: up).
\* On success the process goes on, still holding sem, to wake r_wait.
\* Mutant: count is not cut to GLOBALFIFO_SIZE - current_len.
WriteCopyNoClamp(p) ==
  LET k == loc[p].n IN
  \/ /\ k > 0
     /\ SetRet(p, -EFAULT)
     /\ sem' = NoProc
     /\ Goto(p, "w_rm")
     /\ UNCHANGED <<len, mem>>
  \/ \E src \in [1..k -> Data] :
        /\ mem' = [i \in 0..FifoSize - 1 |->
                     IF len <= i /\ i < len + k THEN src[i - len + 1] ELSE mem[i]]
        /\ len' = len + k
        /\ SetRet(p, k)
        /\ Goto(p, "w_wake_lock")
        /\ UNCHANGED sem

WriteCopy(p) ==
  LET k == Min({loc[p].n, FifoSize - len}) IN
  \/ /\ k > 0
     /\ SetRet(p, -EFAULT)
     /\ sem' = NoProc
     /\ Goto(p, "w_rm")
     /\ UNCHANGED <<len, mem>>
  \/ \E src \in [1..k -> Data] :
        /\ mem' = [i \in 0..FifoSize - 1 |->
                     IF len <= i /\ i < len + k THEN src[i - len + 1] ELSE mem[i]]
        /\ len' = len + k
        /\ SetRet(p, k)
        /\ Goto(p, "w_wake_lock")
        /\ UNCHANGED sem

WriteCheck(p) ==
  /\ pc[p] = "w_check"
  /\ \/ /\ len = FifoSize /\ loc[p].nb
        /\ SetRet(p, -EAGAIN)
        /\ sem' = NoProc
        /\ Goto(p, "w_rm")
        /\ UNCHANGED <<len, mem, state>>
     \/ /\ len = FifoSize /\ ~loc[p].nb
        /\ state' = [state EXCEPT ![p] = "interruptible"]
        /\ sem' = NoProc
        /\ Goto(p, "w_sched")
        /\ UNCHANGED <<len, mem, loc>>
     \/ len # FifoSize /\ WriteCopy(p) /\ UNCHANGED state
  /\ UNCHANGED <<rq, wq, qlk, boot, oops>>

WriteSchedule(p) ==
  /\ pc[p] = "w_sched"
  /\ \/ /\ state[p] = "running"
        /\ Goto(p, "w_down2")
        /\ UNCHANGED loc
     \/ /\ Signals
        /\ SetRet(p, -ERESTARTSYS)
        /\ Goto(p, "w_rm")
  /\ UNCHANGED <<len, mem, sem, rq, wq, qlk, state, boot, oops>>

WriteDown2(p) ==
  /\ pc[p] = "w_down2"
  /\ sem = NoProc
  /\ sem' = p
  /\ Goto(p, "w_copy")
  /\ UNCHANGED <<len, mem, rq, wq, qlk, state, boot, loc, oops>>

WriteCopyStep(p) ==
  /\ pc[p] = "w_copy"
  /\ WriteCopy(p)
  /\ UNCHANGED <<rq, wq, qlk, state, boot, oops>>

\* wake_up_interruptible(&dev->r_wait): the spinlock of r_wait, then the
\* walk over its entries; then out: up(sem).
WriteWakeLock(p) ==
  /\ pc[p] = "w_wake_lock"
  /\ qlk["r"] = NoProc
  /\ qlk' = [qlk EXCEPT !["r"] = p]
  /\ Goto(p, "w_wake_walk")
  /\ UNCHANGED <<len, mem, sem, rq, wq, state, boot, loc, oops>>

\* Mutant: the writer wakes its own queue w_wait instead of r_wait.
WriteWakeWalkWrongQueue(p) ==
  /\ pc[p] = "w_wake_walk"
  /\ state' = Wake(wq)
  /\ qlk' = [qlk EXCEPT !["r"] = NoProc]
  /\ sem' = NoProc
  /\ Goto(p, "w_rm")
  /\ UNCHANGED <<len, mem, rq, wq, boot, loc, oops>>

WriteWakeWalk(p) ==
  /\ pc[p] = "w_wake_walk"
  /\ state' = Wake(rq)
  /\ qlk' = [qlk EXCEPT !["r"] = NoProc]
  /\ sem' = NoProc
  /\ Goto(p, "w_rm")
  /\ UNCHANGED <<len, mem, rq, wq, boot, loc, oops>>

\* out2: remove_wait_queue(&dev->w_wait, &wait), under w_wait's spinlock.
WriteRemove(p) ==
  /\ pc[p] = "w_rm"
  /\ qlk["w"] = NoProc
  /\ wq' = wq \ {p}
  /\ state' = [state EXCEPT ![p] = "running"]
  /\ Return(p)
  /\ UNCHANGED <<len, mem, sem, rq, qlk, boot, oops>>

-----------------------------------------------------------------------------
(* globalfifo_ioctl(FIFO_CLEAR): down, empty the FIFO, up.  It wakes no    *)
(* one.  Another cmd returns -EINVAL and changes nothing.                  *)

IoctlClear(p) ==
  /\ pc[p] = "idle"
  /\ sem = NoProc
  /\ \/ /\ boot = "added"
        /\ oops' = "sem_uninit"
        /\ UNCHANGED <<len, mem>>
     \/ /\ boot # "added"
        /\ len' = 0
        /\ mem' = [i \in 0..FifoSize - 1 |-> 0]
        /\ UNCHANGED oops
  /\ UNCHANGED <<sem, rq, wq, qlk, state, boot, pc, loc>>

-----------------------------------------------------------------------------
(* poll(2) with no timeout on one file: do_poll calls globalfifo_poll     *)
(* until the mask has an event the caller waits for, sleeping in between; *)
(* poll_freewait then removes the two poll-table entries.                  *)

PollBegin(p, ev) ==
  /\ pc[p] = "idle"
  /\ loc' = [loc EXCEPT ![p] = [NoLocals EXCEPT !.ev = ev]]
  /\ Goto(p, "p_poll")
  /\ UNCHANGED <<len, mem, sem, rq, wq, qlk, state, boot, oops>>

\* globalfifo_poll's mask: POLLIN when current_len != 0, POLLOUT when
\* current_len != GLOBALFIFO_SIZE.
PollMask == {e \in Events : IF e = "in" THEN len # 0 ELSE len # FifoSize}

\* globalfifo_poll: down(sem).  poll_wait adds an entry to each queue on
\* the first pass only (do_poll clears the table's _qproc after it).
PollDown(p) ==
  /\ pc[p] = "p_poll"
  /\ sem = NoProc
  /\ \/ /\ boot = "added"
        /\ oops' = "sem_uninit"
        /\ UNCHANGED <<sem, pc>>
     \/ /\ boot # "added"
        /\ sem' = p
        /\ Goto(p, IF p \in rq THEN "p_wait_w" ELSE "p_wait_r")
        /\ UNCHANGED oops
  /\ UNCHANGED <<len, mem, rq, wq, qlk, state, boot, loc>>

\* poll_wait(filp, &dev->r_wait, wait): add_wait_queue takes r_wait's
\* spinlock (a zeroed queue head before init_waitqueue_head oopses) ...
PollWaitLock(p) ==
  /\ pc[p] = "p_wait_r"
  /\ qlk["r"] = NoProc
  /\ \/ /\ boot = "sem"
        /\ oops' = "queue_uninit"
        /\ UNCHANGED <<qlk, pc>>
     \/ /\ boot = "ready"
        /\ qlk' = [qlk EXCEPT !["r"] = p]
        /\ Goto(p, "p_add_r")
        /\ UNCHANGED oops
  /\ UNCHANGED <<len, mem, sem, rq, wq, state, boot, loc>>

\* ... and links the entry into r_wait's list, then unlocks.
PollWaitAdd(p) ==
  /\ pc[p] = "p_add_r"
  /\ rq' = rq \cup {p}
  /\ qlk' = [qlk EXCEPT !["r"] = NoProc]
  /\ Goto(p, "p_wait_w")
  /\ UNCHANGED <<len, mem, sem, wq, state, boot, loc, oops>>

\* poll_wait on w_wait (its entry added under w_wait's spinlock, on the
\* first pass), the mask, up(sem).  do_poll then returns if the mask has
\* the event, or sets TASK_INTERRUPTIBLE to sleep; a pollwake after the
\* mask (pwq->triggered) makes the task running again, as it does here.
PollPoll(p) ==
  /\ pc[p] = "p_wait_w"
  /\ p \notin wq => qlk["w"] = NoProc
  /\ wq' = wq \cup {p}
  /\ sem' = NoProc
  /\ IF loc[p].ev \in PollMask
       THEN Goto(p, "p_free") /\ UNCHANGED state
       ELSE /\ state' = [state EXCEPT ![p] = "interruptible"]
            /\ Goto(p, "p_sleep")
  /\ UNCHANGED <<len, mem, rq, qlk, boot, loc, oops>>

\* poll_schedule_timeout returns once a wake-up on either queue made the
\* task running; do_poll polls again.  A pending signal ends the poll.
PollSleep(p) ==
  /\ pc[p] = "p_sleep"
  /\ \/ state[p] = "running" /\ Goto(p, "p_poll")
     \/ Signals /\ Goto(p, "p_free")
  /\ UNCHANGED <<len, mem, sem, rq, wq, qlk, state, boot, loc, oops>>

\* poll_freewait: remove_wait_queue of each entry in the order they were
\* added, each under its own queue's spinlock: r_wait's ...
PollFree(p) ==
  /\ pc[p] = "p_free"
  /\ qlk["r"] = NoProc
  /\ rq' = rq \ {p}
  /\ Goto(p, "p_free_w")
  /\ UNCHANGED <<len, mem, sem, wq, qlk, state, boot, loc, oops>>

\* ... then w_wait's; poll(2) returns.
PollFreeW(p) ==
  /\ pc[p] = "p_free_w"
  /\ qlk["w"] = NoProc
  /\ wq' = wq \ {p}
  /\ state' = [state EXCEPT ![p] = "running"]
  /\ Return(p)
  /\ UNCHANGED <<len, mem, sem, rq, qlk, boot, oops>>

-----------------------------------------------------------------------------
Call(p) == \/ \E n \in Counts, nb \in BOOLEAN : ReadBegin(p, n, nb)
           \/ \E n \in Counts, nb \in BOOLEAN : WriteBegin(p, n, nb)
           \/ \E ev \in Events : PollBegin(p, ev)

Step(p) == \/ ReadDown(p) \/ ReadCheck(p) \/ ReadSchedule(p) \/ ReadDown2(p)
           \/ ReadCopyStep(p) \/ ReadRemoveLock(p) \/ ReadRemoveDel(p)
           \/ WriteDown(p) \/ WriteCheck(p) \/ WriteSchedule(p)
           \/ WriteDown2(p) \/ WriteCopyStep(p) \/ WriteWakeLock(p)
           \/ WriteWakeWalk(p) \/ WriteRemove(p)
           \/ PollDown(p) \/ PollWaitLock(p) \/ PollWaitAdd(p)
           \/ PollPoll(p) \/ PollSleep(p) \/ PollFree(p) \/ PollFreeW(p)

Live == oops = "none"

\* After an oops the machine is dead: nothing more happens.
Halted == oops # "none" /\ UNCHANGED vars

Next == \/ \E p \in Procs : Live /\ Call(p)
        \/ \E p \in Procs : Live /\ Step(p)
        \/ \E p \in Procs : Live /\ IoctlClear(p)
        \/ Live /\ InitSem
        \/ Live /\ InitQueues
        \/ Halted

Spec == Init /\ [][Next]_vars

\* The semaphore hands itself to a waiter and the scheduler runs a runnable
\* task, so each process that can go on eventually does.
FairSpec == Spec /\ \A p \in Procs : SF_vars(Step(p))

-----------------------------------------------------------------------------
(* Properties                                                              *)

TypeOK ==
  /\ len \in 0..FifoSize
  /\ mem \in [0..FifoSize - 1 -> Data \cup {0}]
  /\ sem \in Procs \cup {NoProc}
  /\ rq \subseteq Procs /\ wq \subseteq Procs
  /\ qlk \in [Queues -> Procs \cup {NoProc}]
  /\ state \in [Procs -> {"running", "interruptible"}]
  /\ boot \in {"added", "sem", "ready"}
  /\ pc \in [Procs -> Pcs]
  /\ loc \in [Procs -> [n : Counts \cup {0}, nb : BOOLEAN, ret : Rets,
                        ev : Events \cup {"none"}]]

\* The bytes the device holds: mem[0 .. current_len-1].
Contents == [i \in 1..len |-> mem[i - 1]]

Fifo == INSTANCE FifoQueue WITH queue <- Contents, Capacity <- FifoSize

\* Refinement: read, write and FIFO_CLEAR, with all their interleavings
\* on sem and the wait queues, change the held bytes only as a bounded
\* FIFO may: append at most to the capacity, remove a non-empty prefix
\* (the memcpy shift of globalfifo_read), or empty it.
FifoImplemented == Fifo!Spec

\* A process waiting for input: a reader in globalfifo_read's schedule(),
\* or a poller asleep in do_poll waiting for POLLIN.
WaitsForInput(p) == pc[p] = "r_sched" \/ (pc[p] = "p_sleep" /\ loc[p].ev = "in")

\* No lost wake-up: a reader or a POLLIN poller asleep while the FIFO
\* holds data has a writer that is about to wake r_wait.  This is what
\* setting TASK_INTERRUPTIBLE before up(sem), the poll-table entry on
\* r_wait, and waking r_wait after every write, are for.
SleepingReaderHasCause ==
  \A p \in Procs :
    WaitsForInput(p) /\ state[p] = "interruptible"
      => \/ len = 0
         \/ \E w \in Procs : pc[w] \in {"w_wake_lock", "w_wake_walk"}

\* A reader asleep on the empty FIFO, or a poller waiting for POLLIN, gets
\* past its sleep once the FIFO holds data: every write wakes r_wait, on
\* which both have an entry, and the woken task then runs.
InputWaitersWoken ==
  \A p \in Procs : (WaitsForInput(p) /\ len > 0) ~> ~WaitsForInput(p)

\* A writer sleeping in globalfifo_write on a full FIFO leaves schedule()
\* once there is room again (the read that makes room wakes w_wait).
WriterWoken ==
  \A p \in Procs : (pc[p] = "w_sched" /\ len < FifoSize) ~> pc[p] # "w_sched"

\* A blocking read waits "until the FIFO is non-empty" (the comment at
\* line 88), so no read or write returns 0 bytes: 0 from read is
\* end-of-file to the caller.
NoZeroTransfer == \A p \in Procs : loc[p].ret # 0

\* r_wait's list is only changed while its spinlock is held: no process
\* unlinks its entry from r_wait while another holds the r_wait lock to
\* walk the list (a writer's wake_up) or to link a poll entry into it.
RWaitHolders == {"w_wake_walk", "p_add_r"}
RWaitExclusive ==
  ~\E p, q \in Procs : pc[p] = "r_rm_del" /\ pc[q] \in RWaitHolders

====
