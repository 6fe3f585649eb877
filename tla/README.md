# TLA+ models of simplefs

This directory holds TLA+ models of the simplefs kernel filesystem in
`src/simplefs/simple.c`, the TLC configurations that check them, and
`PROJECT.json`. `PROJECT.json` lists the components, runs, mutants, the
source lines each definition models (`map`), the findings and the hazards.

## The system

`simple.c` is one loadable kernel module with these parts:

| Part | Code | State |
|---|---|---|
| Superblock manager | `simplefs_sb_get_a_freeblock`, `simplefs_sb_get_objects_count`, `simplefs_sb_sync` | `free_blocks` bitmap (u64) and `inodes_count` in block 0, synced on every change |
| Inode store | `simplefs_inode_add`, `_del`, `_save`, `_search`, `simplefs_get_inode`, `fill_imap` | the array of `simplefs_inode` records in block 1, and the in-memory `imap` bitmap |
| Directory cache | `simplefs_cache_alloc`, `dir_cache_build`, `used_cache_entry_get`, `free_cache_entry_get`, `cache_entry_insert`, `simplefs_dentry_release` | one per directory dentry (`d_fsdata`): an ordered *used* list and a *free* list of record slots, plus a children count |
| Object lifecycle | `simplefs_create_fs_object` (create, mkdir), `simplefs_unlink`, `simplefs_lookup` | the directory's data block of `simplefs_dir_record`s, the parent's `dir_children_count` |
| Readdir | `simplefs_iterate` | builds the directory cache on first use |
| File I/O | `simplefs_write`, `simplefs_read` | the data block and `file_size` |
| Mount | `simplefs_fill_super`, `simplefs_kill_superblock` | the root inode, `imap` |

The parts are serialised by three static mutexes, each taken with
`mutex_lock_interruptible`:

* `simplefs_directory_children_update_lock` (the *dir* lock, create only);
* `simplefs_inodes_mgmt_lock` (*mgmt*, the inode lock);
* `simplefs_sb_lock` (*sb*).

The VFS adds the directory's `i_rwsem`. It is held exclusively for create,
mkdir, unlink and readdir, and shared for lookup. `write` holds no directory
lock.

A create runs these steps in order:

1. the dir lock;
2. the object count (under mgmt);
3. a free block (under sb);
4. `inode_add` (mgmt then sb);
5. the directory record, written to the block and synced;
6. mgmt, then the parent's count++;
7. `inode_save` (under sb);
8. unlock.

An unlink clears the record, saves the parent and then calls `inode_del`.
Only the superblock and directory blocks are synced on every change.
`inode_add` and `inode_del` only mark the inode store's buffer dirty, and
`inode_save` syncs it.

`src/globalfifo`, `src/hook`, `src/mm` and `src/mm_spinlock` are separate
kernel modules that do not touch the filesystem.

`src/globalfifo/globalfifo.c` is a character device with one
`globalfifo_dev`:

* a buffer `mem[GLOBALFIFO_SIZE]` (10 bytes) and its length `current_len`;
* a semaphore `sem` (initialised to 1) that serialises every operation;
* two wait queues, `r_wait` and `w_wait`.

A read takes `sem` and adds itself to `r_wait`. On an empty FIFO it sets
`TASK_INTERRUPTIBLE`, releases `sem` and sleeps. Once woken it takes `sem`
again and copies `min(count, current_len)` bytes. It shifts the rest to
the front, wakes `w_wait`, releases `sem` and removes its wait entry. A
write mirrors this: it sleeps on a full FIFO, appends at most the free
space and wakes `r_wait`. `ioctl(FIFO_CLEAR)` empties the FIFO under
`sem`.

`src/mm/mm_debug.c` makes `/proc/mm_root/mm_entry` over a 16-byte buffer
`info` and the global `int mm_pid`. A write copies at most 16 bytes into
`info` and parses it with `kstrtoint` into `mm_pid`; a read prints `info`
as a C string. Nothing is locked. `mmproc_exit` frees `info` and then
removes the entry; `remove_proc_entry` waits for calls already inside the
entry's file operations.

`hook` and `mm_spinlock` are listed as `not_modelled` in `PROJECT.json`.

## Modules

### `SimpleFS.tla`: the driver on one mounted device, root directory only

**State.** Each piece of state is a variable:

* `sbFree` and `sbCount` hold the superblock.
* `store` is the inode-store buffer and `storeDisk` its copy on the device.
* `dirBlk` is the root's block.
* `imap` is the inode bitmap.
* `rootMem` is the root's in-memory `simplefs_inode`.
* `cache` is the root's `d_fsdata`.
* `dcache` holds the positive dentries (name to the data block of their inode).
* `mem` holds the in-memory inode copies. A copy is keyed by its data block, which is never reused.
* `handle` holds the files open for writing.
* `lock` holds the owner of each mutex.
* `vfsW` and `vfsR` hold the directory `i_rwsem`.
* `pc` and `loc` hold each thread's position and locals.
* `issued` is a history of the blocks handed out.
* `oops` records a kernel oops, after which nothing runs.

**Actions.** Each operation is split at every mutex wait, so each action is
the code between two waits:

| Operation | Actions | Code |
|---|---|---|
| create | `CreateBegin`, `CreateLockDir`, `CreateCheck`, `GetFreeBlockLock`, `GetFreeBlockScan`, `GetFreeBlockClear`, `InodeAddLockMgmt`, `InodeAddLockSb`, `InodeAddWrite`, `CreateDirent`, `CreateParentLock`, `InodeSaveLock`, `CreateParentSave` | the create path step by step |
| unlink | `UnlinkBegin`, `UnlinkDirent`, `InodeSaveLock`, `UnlinkParentSave`, `InodeDelLockMgmt`, `InodeDelLockSb`, `InodeDelWrite` | unlink and the functions it calls |
| write | `WriteBegin`, `WriteLockSize`, `InodeSaveLock`, `WriteSave` | write |
| lookup | `LookupBegin`, `LookupGet` | lookup, with `simplefs_get_inode` |
| readdir | `Iterate` | `simplefs_iterate` |
| lookup before any readdir | `UseUnlistedDir` | oops on the NULL `d_fsdata` |
| create into a full block | `CreateDirent` | oops on the empty free list |
| -EINTR | `Interrupt` | taken from the table `IntrAt` |

`IntrAt` gives, for each wait, the lock waited for, what the error path
unlocks, and where the thread goes. It merges one small table per
function whose wait it is (`IntrCreateDir`, `IntrCreateParent`,
`IntrGetObjectsCount`, `IntrGetFreeBlock`, `IntrInodeAdd`,
`IntrInodeSave`, `IntrInodeDel`, `IntrWrite`, `IntrGetInode`); a row's
unlocks include those of the caller that handles the error. `Interrupt` is enabled only while the
lock is held, because `mutex_lock_interruptible` can fail only while it blocks.

The environment has these actions:

* `Open` and `Close` of a file;
* `Writeback` of the dirty store buffer;
* `Remount`, which is `kill_block_super` followed by `fill_super`;
* in `CrashSpec` only, `Crash`, a power loss after which only synced blocks survive.

**Data abstraction.**

* Names are model values.
* File contents and offsets are left out. A write is the new `file_size`.
* `free_blocks` is the set of its 1-bits. `Mask(i)` is the set of bits that
  `1 << i` covers once it is widened from `int`. The shift count wraps
  modulo `IntBits`, and the sign bit is extended over all higher bits.
* The u64 counters are taken modulo `CounterMod`.

**Specifications.**

* `Spec` is the plain specification.
* `FairSpec` adds strong fairness per thread on its steps, for liveness.
* `CrashSpec` adds crashes.

`MC_SimpleFS.tla` gives the thread and name model values and the symmetry
set.

### `Namespace.tla`: what create and unlink promise

This is an abstract specification with two variables:

* `dir` maps names to inode numbers;
* `inodes` is the set of allocated inode numbers.

It has four actions:

* `Alloc` allocates one inode;
* `Link` links a name to an allocated inode that no other name holds;
* `Unlink` removes one name;
* `Free` frees an inode no name holds.

`SimpleFS` defines `NS == INSTANCE Namespace WITH dir <- RootDir, inodes
<- imap, ...`. `RootDir` reads the root's block as a map from names to
inode numbers, and `NamespaceImplemented == NS!Spec` is checked as a
`PROPERTY`.

### `GlobalFifo.tla`: the globalfifo device

**State.**

* `len` and `mem` hold `current_len` and `mem`.
* `sem` holds the semaphore's holder.
* `rq` and `wq` hold the processes with an entry on `r_wait` and on `w_wait`.
* `qlk` holds the holder of each wait-queue spinlock.
* `state` holds each task state (`running` or `interruptible`).
* `boot` records how far `globalfifo_init` has got after `cdev_add`.
* `pc` and `loc` hold each process's position and locals (`count`, `O_NONBLOCK`, the return value, the event a poller waits for).
* `oops` records a kernel oops.

**Actions.** Each call is split at `down(sem)`, at `schedule()`, and at
the wait-queue spinlocks that another process may hold at the same time:

| Code | Actions |
|---|---|
| read | `ReadBegin`, `ReadDown` (down, add to `r_wait`), `ReadCheck`, `ReadSchedule`, `ReadDown2`, `ReadCopyStep` (`ReadCopy`: copy, shift, wake `w_wait`, up), `ReadRemoveLock`, `ReadRemoveDel` |
| write | `WriteBegin`, `WriteDown`, `WriteCheck`, `WriteSchedule`, `WriteDown2`, `WriteCopyStep` (`WriteCopy`), `WriteWakeLock`, `WriteWakeWalk`, `WriteRemove` |
| ioctl `FIFO_CLEAR` | `IoctlClear` |
| poll | `PollBegin`, `PollDown`, `PollWaitLock` and `PollWaitAdd` (`poll_wait` on `r_wait`), `PollPoll` (`poll_wait` on `w_wait`, `PollMask`, up), `PollSleep`, `PollFree` and `PollFreeW` (`poll_freewait`) |
| init after `cdev_add` | `InitSem`, `InitQueues` |

Some details of the translation:

* A signal is a disjunct of the schedule actions. It is enabled when
  `Signals` is TRUE.
* `copy_to_user` and `copy_from_user` of a non-empty range may fail with
  `-EFAULT`.
* `poll(2)` with no timeout runs `globalfifo_poll` in the poll core's
  loop. On the first pass each `poll_wait` links an entry under its own
  queue's spinlock: `r_wait`'s lock is held over a state of its own
  (`p_add_r`), since a returning reader changes `r_wait` under the other
  lock. `PollPoll` then registers on `w_wait` and, when the awaited event
  (`POLLIN` or `POLLOUT`) is not in the mask, marks the task
  interruptible, which stands for the poll core's `triggered` flag.
  `PollSleep` waits for a wake-up or a signal; `PollFree` and `PollFreeW`
  are `poll_freewait`, which takes the entries off one queue lock at a
  time.
* A call made before `sema_init` or `init_waitqueue_head` has run oopses
  (`Loading` TRUE).

The overlapping `memcpy` of the read is modelled as a move, which is what
the forward-copying kernel `memcpy` produces.

`Contents` is `mem[0..len-1]` as a sequence. `Fifo == INSTANCE FifoQueue
WITH queue <- Contents, Capacity <- FifoSize`, and
`FifoImplemented == Fifo!Spec`.

### `FifoQueue.tla`: what the device promises

This is a bounded FIFO of bytes:

* `Put` appends at most up to the capacity;
* `Take` removes a non-empty prefix;
* `Clear` empties it.

`MC_GlobalFifo.tla` gives three process model values and their symmetry.

### `MMDebug.tla`: the mm_debug proc entry

The state is the bytes of `info` (`InfoLen` of them), `mmPid`, the
module's `phase` (`loaded`, `freed` after the `kfree`, `unloaded`),
whether the entry exists, and for each process its step, its user buffer
and the bytes copied so far. Characters are digit values, `NUL` and `NL`.

* `MMProcInit` is `mmproc_init`: the buffer zeroed, `mm_pid` 0, the entry
  present or not (`MMCreateProcEntry`: its failure is ignored).
* `ExitFree` and `ExitRemove` are the two statements of `mmproc_exit`;
  `ExitRemove` waits until no process is inside a call.
* `WriteBegin`, `CopyByte`, `CopyFault` and `Parse` are `proc_mm_write`:
  the `count > INFO_LEN` check, `copy_from_user` one byte per step (a fault
  keeps the prefix copied), and `kstrtoint`.
* `KStrToInt` parses the buffer as a C string: digits, one optional
  newline, the end. Without a NUL in the buffer it reads on into the heap,
  and any outcome of that read is allowed.
* `ShowBegin` and `ShowEnd` are `proc_mm_open` and `proc_mm_show`.

`MC_MMDebug.tla` gives two processes, their symmetry, and the inputs
`"1\n"`, `"22\n"` and `"121"`. The last fills a 3-byte buffer.

## Runs

| Run | Config | Result | What it shows |
|---|---|---|---|
| safety | `MC_safety.cfg` | pass, about 700k states | Five invariants hold in every interleaving of two threads: the directory cache mirrors the block (`CacheMirrorsDisk`); records name live, distinct inodes (`EntryTargetsLiveInode`); `inodes_count` and `imap` match the store (`InodeAccounting`); and the root's children count is right outside the update window (`RootCountAccurate`). In addition, the root directory and `imap` refine `Namespace` (`NamespaceImplemented`). |
| faults | `MC_faults.cfg` | pass, about 700k states | With power loss at any step and -EINTR from every blocked wait, each data block is handed out once and the inode store on the device names only blocks handed out: a crash between `get_a_freeblock` and `inode_add` leaks a block, never reuses it (`BlockAccounting`). |
| live | `MC_live.cfg` | pass | Under `FairSpec`, every call returns (`Termination`). |
| fifo | `MC_fifo.cfg` | pass, about 2.5M states, 2.5 min | Three processes read, write, poll and clear a 2-byte FIFO, with signals and calls during init. A reader or `POLLIN` poller asleep on a non-empty FIFO always has a writer about to wake it (`SleepingReaderHasCause`), and the bytes held change only as `FifoQueue` allows (`FifoImplemented`). |
| intr_sb | `V_intr_sb.cfg` | violation | -EINTR in `get_a_freeblock` unlocks the superblock mutex held by a writer. |
| stale_write | `V_stale_write.cfg` | violation | A write to an unlinked open file reaches `inode_save` with a number that has no record (the search reads past the block) or that a new file now holds, whose record it then overwrites (`SaveTargetsOwnRecord`). |
| crash_entry | `V_crash_entry.cfg` | violation | Power loss after `inode_add` synced `inodes_count` but before the store reached the disk leaves a mount whose count, bitmap and records disagree with the store (`DiskConsistent`). `inode_del` has the same gap. |
| fifo_live | `MC_fifo_live.cfg` | pass, about 30k states | Under `FairSpec`, two processes: a reader asleep on the empty FIFO, or a poller waiting for `POLLIN`, gets past its sleep once the FIFO holds data (`InputWaitersWoken`). |
| fifo_zero | `V_fifo_zero.cfg` | violation | A woken blocking read re-takes `sem` without testing `current_len` again. It returns 0 once another reader or `FIFO_CLEAR` has emptied the FIFO (`NoZeroTransfer`). |
| fifo_rwait | `V_fifo_rwait.cfg` | violation | A returning reader removes its `r_wait` entry under `w_wait`'s spinlock while a poller links its entry into `r_wait`, or a writer walks it, under `r_wait`'s lock (`RWaitExclusive`). |
| fifo_writer | `V_fifo_writer.cfg` | violation | A writer asleep on the full FIFO stays asleep after `FIFO_CLEAR` empties it (`WriterWoken`, under `FairSpec`). |
| mm_exit | `V_mm_exit.cfg` | violation | `mmproc_exit` frees `info` while the entry still takes calls, so a write or read uses freed memory (`InfoLiveInCall`). |

Modelling also turned up these counterexamples, which are not kept as runs:

* A create in a full directory block uses the list head as an entry
  (oops `dir_full`, reached in `safety`).
* -EINTR inside `inode_add` leaves a record naming a free inode.
* -EINTR after the record is written leaves the children count short.
* `1 << i` at the sign bit clears every higher free bit (`IntBits` 4).
* The directory cache's count is never incremented.
* A call before `sema_init` oopses.
* A lookup before any readdir oopses (`UseUnlistedDir`, oops
  `null_cache`). A single lookup after mount shows it.
* In mm_debug, `"1\n"` written after `"22\n"` leaves `"1\n\n"` in
  `info`: `kstrtoint` fails, the write returns success and `mm_pid` keeps
  22. Two writers interleave their bytes, and `"121"` leaves no NUL.

`PROJECT.json` lists each of them as a hazard with a note.

Each property of a passing run has a mutant in `PROJECT.json`. The mutant
is a copy of one mapped definition with a plausible bug, placed just before
that definition and marked `Mutant:`. TLC finds the property violated when
the mutant replaces the original.

### Bounds

The configurations use these bounds:

* two threads and three names (two in `faults` and `live`);
* a two-record directory block (`DirCap`);
* `MaxObjects = 6`, which gives three data blocks (3..5) (5 and two blocks in `faults` and `live`);
* `IntBits = 32`;
* a 16-slot inode store (`Icount`);
* `CounterMod = 8`.

Blocks are never freed. Three blocks therefore allow three creates in
total, which is enough for:

* a create, an unlink and a second create that reuses the freed inode number;
* a third name that finds the directory block full;
* two threads contending on every lock.

The real geometry is 64 objects, 64 inode records and 16 directory records
per 4096-byte block. It has the same relations:

* the directory block fills before the object count is reached;
* the inode store holds every inode;
* `free_blocks` is wider than `int` (64 against 32). With three blocks, no
  run reaches bit 31, so the sign-extension case is left to `Mask`'s
  definition.

For globalfifo, the runs use these bounds:

* three processes;
* a 2-byte FIFO (`FifoSize`);
* counts of 1 and 2;
* two byte values in `fifo` (one in the violation runs).

For mm_debug, two processes and a 3-byte buffer stand for `INFO_LEN` 16:
one input is shorter than another, and one fills the buffer.

A count of 2 fills the FIFO in one write and empties it in one read, and
a count of 1 leaves a byte behind for the shift. Two byte values make the
order of bytes visible to `FifoImplemented`. Three processes are the
fewest for the `if`-instead-of-`while` case, which needs two sleeping
readers and a writer. They also give a reader, a writer and a third
process to clear.

### Fairness

`FairSpec` assumes strong fairness of each thread's steps. That stands for
two things:

* the scheduler runs a runnable thread;
* a mutex that is released repeatedly is eventually handed to a waiter,
  which the kernel mutex's handoff to the first waiter provides.

There is no fairness on calls, on writeback or on remount.

`GlobalFifo`'s `FairSpec` likewise assumes strong fairness of each
process's steps inside a call. That stands for two things:

* `up()` hands the semaphore to the first waiter;
* a woken task is eventually scheduled.

`V_fifo_writer` and `fifo_live` use it with `Signals` FALSE, so that only
a wake-up can end a sleep. The poll core's wait has no timeout, so a
poller, too, is woken only by a wake-up on a queue it is registered on.
`fifo_live` runs two processes without symmetry. The globalfifo runs
other than `fifo` do not check deadlock.
In them every process may block on an empty or full FIFO with no one left
to wake it, and the system really stops.

## What the checks leave out

* **Subdirectories.** Only the root is a directory that holds entries. This
  leaves two parts unchecked:
  * the directory lock never contends, because create also holds the VFS
    lock;
  * the -EINTR returns of `inode_add` and `inode_del` after the inode lock
    was taken are not reachable. A second directory can reach them, because
    there the superblock lock is held without the inode lock.

  In the runs, `IntrAt`'s rows for `c_dir`, `c_add_sb`, `c_par_sb` and
  `u_del_sb` never fire, so no run checks that locks are free after a
  return: the leaking returns at lines 229 and 280 are out of reach.
* **File contents and `simplefs_read`.** Write-then-read and the
  unchecked `*ppos` in write are left out.
* **Allocation failures** in `dir_cache_build` (the partial cache) and in
  `kmem_cache_alloc`. The -ENOMEM of `new_inode` is modelled.
* **Reference counting.** The extra `dput` and `__destroy_inode` in unlink
  are not modelled.
* **The mount checks.** The magic and block-size checks in `fill_super` are
  left out.
* **globalfifo's `open`, `release` and `globalfifo_exit`**, and poll
  timeouts.
  * `open` and `release` change nothing but `private_data`.
  * `exit` cannot run while a file is open, because `fops.owner` pins the
    module.
* **The overlapping `memcpy` in globalfifo's read** is undefined
  behaviour. It is modelled by its result on the kernel's forward copy.
* **The other modules.** `hook` patches kernel text. What `mm_spinlock`
  compiles is a write that allocates and frees buffers (leaking one per
  round on purpose) and a show that prints; its work items are never
  queued and its spinlock code is not compiled, so no state lives between
  calls. Neither is modelled. `src/simplefs/super.h` holds only the
  accessors `SIMPLEFS_SB` and `SIMPLEFS_INODE`.
* **mm_debug's output.** `proc_mm_show` is one step; the bytes it prints
  are not recorded, so a read of a half-written buffer is not told apart.

## Plan for later work

Each step adds to the project in this order:

1. **Nested directories.**
   * Add a module whose state holds a cache, a block and a count per
     directory, and run mkdir in the root.
   * This makes the lock-leak returns reachable. Check there that no
     mutex is held by an idle thread, and `Termination`.
2. **A `FileIO` module.**
   * Model data blocks as byte sequences and the `*ppos` offset.
   * Check write-then-read (spec section 8) and the unchecked write past the block.
3. **mm_debug's parse.** A run that checks `mm_pid` against the last
   completed write, for the stale tail and the interleaved writers.
4. **Poll timeouts and `POLLOUT` liveness.** A poller waiting for
   `POLLOUT` is not woken by `FIFO_CLEAR`, the same gap as
   `fifo_writer`; a run for it would need a thirteenth run slot.
