------------------------------ MODULE SimpleFS ------------------------------
(***************************************************************************)
(* The simplefs driver (src/simplefs/simple.c) on one mounted device:      *)
(* the superblock (free-block bitmap, inode count), the inode store block, *)
(* the root directory's data block, and the in-memory state built over     *)
(* them (inode bitmap, root inode copy, the root's directory cache, the    *)
(* dentries and their inode copies).  Threads run create/mkdir, unlink,    *)
(* lookup, readdir and write concurrently; each operation is split into    *)
(* steps at the points where the code blocks on a mutex, so the three      *)
(* driver mutexes (directory-children, inode-management, superblock) and   *)
(* the VFS directory rw-semaphore decide which interleavings exist.        *)
(* mutex_lock_interruptible may fail with -EINTR while a lock is held by   *)
(* someone (constant Signals); the inode store block is a buffer that is   *)
(* written to disk only by an explicit sync or by writeback.               *)
(***************************************************************************)
EXTENDS Integers, FiniteSets, Sequences, SequencesExt

CONSTANTS
  Threads,      \* kernel threads issuing file-system calls
  Names,        \* file names used under the root directory
  NoThread,     \* owner of a free mutex
  NoName,       \* the name of a zeroed directory record
  MaxObjects,   \* SIMPLEFS_MAX_FILESYSTEM_OBJECTS_SUPPORTED, also the bit
                \* width of free_blocks and of the inode bitmap imap
  IntBits,      \* bit width of the C int in which `1 << i' is evaluated
  DirCap,       \* records per directory block: BLOCK_SIZE / sizeof(record)
  StartIno,     \* SIMPLEFS_START_INO: imap bits reserved at mount
  Icount,       \* inode records per inode-store block
  Sizes,        \* file sizes a write can leave behind
  CounterMod,   \* 2^64 for the uint64_t counters, scaled down
  Signals       \* TRUE: a blocked mutex_lock_interruptible may get -EINTR

ASSUME /\ Threads # {} /\ Names # {}
       /\ NoThread \notin Threads /\ NoName \notin Names
       /\ MaxObjects \in Nat /\ MaxObjects >= 4
       /\ IntBits \in Nat \ {0, 1}
       /\ DirCap \in Nat \ {0}
       /\ StartIno \in 2..MaxObjects - 1
       /\ Icount \in Nat /\ Icount >= MaxObjects - 1 + StartIno
       /\ Sizes \subseteq Nat \ {0}
       /\ CounterMod \in Nat /\ CounterMod > MaxObjects
       /\ Signals \in BOOLEAN

RootIno     == 1                 \* SIMPLEFS_ROOTDIR_INODE_NUMBER
RootBlock   == 2                 \* root directory's data block
Reserved    == {0, 1, RootBlock} \* superblock, inode store, root data
Bits        == 0 .. MaxObjects - 1
Slots       == 0 .. MaxObjects - 2   \* inode store slot of inode i is i-1
DirSlots    == 0 .. DirCap - 1       \* entry_no of a directory record
LockNames   == {"dir", "mgmt", "sb"}
Modes       == {"dir", "reg"}

\* struct simplefs_inode; val is dir_children_count or file_size (a union)
Inode       == [ino : Bits, mode : Modes \cup {"none"}, blk : Bits, val : Nat]
NoInode     == [ino |-> 0, mode |-> "none", blk |-> 0, val |-> 0]
RootInode   == [ino |-> RootIno, mode |-> "dir", blk |-> RootBlock, val |-> 0]
\* struct simplefs_dir_record; inode_no 0 marks an empty slot
DirRecord   == [name : Names \cup {NoName}, ino : Bits]
NoRecord    == [name |-> NoName, ino |-> 0]
\* struct simplefs_dir_cache with its used and free lists of entry_no's
NoCache     == [built |-> FALSE, used |-> <<>>, free |-> <<>>,
                rec |-> [s \in DirSlots |-> NoRecord], count |-> 0]
NoLoc       == [name |-> NoName, mode |-> "none", ino |-> 0, blk |-> 0, size |-> 0]

VARIABLES
  sbFree,     \* superblock free_blocks: set of bits that are 1 (= free)
  sbCount,    \* superblock inodes_count
  store,      \* inode store block as held in the buffer cache
  storeDisk,  \* inode store block as last written to the device
  dirBlk,     \* root directory data block (every change is synced)
  imap,       \* sb_info->imap, in-memory inode bitmap: set of 1 bits
  rootMem,    \* root inode's in-memory simplefs_inode (i_private)
  cache,      \* root dentry's d_fsdata directory cache
  dcache,     \* positive dentries: name -> in-memory inode (its block)
  mem,        \* in-memory simplefs_inode copies, keyed by data block
  handle,     \* file each thread has open for writing (0: none)
  lock,       \* owner of each driver mutex
  vfsW,       \* thread holding the root i_rwsem exclusively
  vfsR,       \* threads holding the root i_rwsem shared
  pc,         \* step each thread is at
  loc,        \* locals of the operation each thread is running
  issued,     \* history: blocks handed out by the block allocator
  oops        \* kernel oops that stopped the system, "none" if none

diskVars == <<sbFree, sbCount, store, storeDisk, dirBlk>>
memVars  == <<imap, rootMem, cache, dcache, mem, handle>>
syncVars == <<lock, vfsW, vfsR>>
vars     == <<diskVars, memVars, syncVars, pc, loc, issued, oops>>

-----------------------------------------------------------------------------
(* Helpers translated from the driver.                                     *)

\* `1 << i' in a 32-bit int, widened to the uint64_t free_blocks: the shift
\* count wraps modulo the int width (x86 SHL) and the sign bit, when set,
\* is sign-extended over every higher bit.
Mask(i) ==
  LET s == i % IntBits
  IN  IF s = IntBits - 1 THEN {k \in Bits : k >= s} ELSE {s}

\* ffz(): index of the first zero bit of the inode bitmap.
Ffz(map) == Min(Bits \ map)

\* simplefs_inode_search: first slot whose inode_no matches, -1 if none.
InodeSearch(st, i) ==
  LET found == {s \in Slots : st[s].ino = i}
  IN  IF found = {} THEN -1 ELSE Min(found)

\* simplefs_inode_save's effect on the buffer: overwrite the found slot.
SavedStore(st, r) ==
  LET k == InodeSearch(st, r.ino)
  IN  IF k = -1 THEN st ELSE [st EXCEPT ![k] = r]

\* used_cache_entry_get: position in the used list of the entry named n.
UsedEntryGet(c, n) == SelectInSeq(c.used, LAMBDA s : c.rec[s].name = n)

\* free_cache_entry_get: list_first_entry of the free list, with no check
\* that the list is non-empty.
FreeCacheEntryGet(c) == Head(c.free)

\* d_release of the root dentry (simplefs_dentry_release): every entry of
\* both lists is freed and d_fsdata is reset to NULL.
DentryRelease == NoCache

\* simplefs_destory_inode, run for every inode when they are evicted: the
\* in-memory simplefs_inode copies are freed.
DestroyInodes == [b \in Bits |-> NoInode]

\* Mutant: the insertion-point comparison reversed.
CacheEntryInsertReversed(c, s) ==
  LET u == Remove(c.used, s)
      k == SelectInSeq(u, LAMBDA x : x < s)
  IN  [c EXCEPT !.free = Remove(@, s),
                !.used = IF k = 0 THEN Append(u, s) ELSE InsertAt(u, k, s)]

\* cache_entry_insert: unlink entry s, then put it before the first used
\* entry with a larger entry_no (at the tail if there is none).
CacheEntryInsert(c, s) ==
  LET u == Remove(c.used, s)
      k == SelectInSeq(u, LAMBDA x : s < x)
  IN  [c EXCEPT !.free = Remove(@, s),
                !.used = IF k = 0 THEN Append(u, s) ELSE InsertAt(u, k, s)]

\* Mutant: the build loop stops one record early.
DirCacheBuildShort(blk) ==
  LET order == [i \in 1 .. DirCap - 1 |-> i - 1]
  IN  [built |-> TRUE,
       used  |-> SelectSeq(order, LAMBDA s : blk[s].ino # 0),
       free  |-> SelectSeq(order, LAMBDA s : blk[s].ino = 0),
       rec   |-> [s \in DirSlots |-> IF blk[s].ino # 0 THEN blk[s] ELSE NoRecord],
       count |-> 0]

\* dir_cache_build: occupied slots to the used list, empty ones to the
\* free list, both in slot order.
DirCacheBuild(blk) ==
  LET order == [i \in 1 .. DirCap |-> i - 1]
  IN  [built |-> TRUE,
       used  |-> SelectSeq(order, LAMBDA s : blk[s].ino # 0),
       free  |-> SelectSeq(order, LAMBDA s : blk[s].ino = 0),
       rec   |-> [s \in DirSlots |-> IF blk[s].ino # 0 THEN blk[s] ELSE NoRecord],
       count |-> 0]

\* fill_imap: bits below SIMPLEFS_START_INO, then the inode_no of every
\* nonzero record the loop visits (it visits slots 0 .. icount-START-1).
FillImap(st) ==
  (0 .. StartIno - 1) \cup
    {st[s].ino : s \in {x \in Slots : x < Icount - StartIno /\ st[x].ino # 0}}

-----------------------------------------------------------------------------
(* Locks and thread bookkeeping.                                           *)

Take(l, t)   == lock[l] = NoThread /\ lock' = [lock EXCEPT ![l] = t]
\* mutex_unlock of each lock in R, whoever holds it.
Release(R)   == [l \in LockNames |-> IF l \in R THEN NoThread ELSE lock[l]]
Goto(t, p)   == pc' = [pc EXCEPT ![t] = p]
\* The call returns to the VFS, which drops the root i_rwsem.
Finish(t)    == /\ pc' = [pc EXCEPT ![t] = "idle"]
                /\ loc' = [loc EXCEPT ![t] = NoLoc]
                /\ vfsW' = IF vfsW = t THEN NoThread ELSE vfsW
                /\ vfsR' = vfsR \ {t}
VfsFree      == vfsW = NoThread /\ vfsR = {}

-----------------------------------------------------------------------------
(* Initial state: a freshly formatted device holding only the root         *)
(* directory, just mounted (simplefs_fill_super): the root inode copied    *)
(* from the store, imap filled, no directory cache yet.                    *)

Init ==
  /\ sbFree = Bits \ Reserved
  /\ sbCount = 1
  /\ store = [s \in Slots |-> IF s = RootIno - 1 THEN RootInode ELSE NoInode]
  /\ storeDisk = store
  /\ dirBlk = [s \in DirSlots |-> NoRecord]
  /\ imap = FillImap(store)
  /\ rootMem = store[RootIno - 1]
  /\ cache = NoCache
  /\ dcache = [n \in Names |-> 0]
  /\ mem = [b \in Bits |-> NoInode]
  /\ handle = [t \in Threads |-> 0]
  /\ lock = [l \in LockNames |-> NoThread]
  /\ vfsW = NoThread /\ vfsR = {}
  /\ pc = [t \in Threads |-> "idle"]
  /\ loc = [t \in Threads |-> NoLoc]
  /\ issued = {}
  /\ oops = "none"

-----------------------------------------------------------------------------
(* create / mkdir: simplefs_create_fs_object.                              *)

\* The VFS locks the root, finds no dentry and calls simplefs_lookup, which
\* misses in the cache, then calls ->create (regular) or ->mkdir.
CreateBegin(t, n, m) ==
  /\ pc[t] = "idle" /\ cache.built /\ VfsFree
  /\ dcache[n] = 0 /\ UsedEntryGet(cache, n) = 0
  /\ vfsW' = t
  /\ pc' = [pc EXCEPT ![t] = "c_dir"]
  /\ loc' = [loc EXCEPT ![t] = [NoLoc EXCEPT !.name = n, !.mode = m]]
  /\ UNCHANGED <<diskVars, memVars, lock, vfsR, issued, oops>>

CreateLockDir(t) ==
  /\ pc[t] = "c_dir" /\ Take("dir", t) /\ Goto(t, "c_count")
  /\ UNCHANGED <<diskVars, memVars, vfsW, vfsR, loc, issued, oops>>

\* simplefs_sb_get_objects_count: inodes_count, read under the inode lock
\* (taken and dropped at once; -EINTR while it is held is in IntrAt).
SbGetObjectsCount == sbCount

\* simplefs_sb_get_objects_count under the inode lock.  The call fails
\* (unlock, return) with -ENOSPC when the count is at the maximum and with
\* -ENOMEM whenever new_inode fails; otherwise the new inode takes the
\* first zero bit of imap.
CreateCheck(t) ==
  /\ pc[t] = "c_count" /\ lock["mgmt"] = NoThread
  /\ \/ /\ lock' = Release({"dir"}) /\ Finish(t)
     \/ /\ SbGetObjectsCount < MaxObjects
        /\ loc' = [loc EXCEPT ![t].ino = Ffz(imap)]
        /\ Goto(t, "c_blk")
        /\ UNCHANGED <<lock, vfsW, vfsR>>
  /\ UNCHANGED <<diskVars, memVars, issued, oops>>

\* simplefs_sb_get_a_freeblock: take the superblock lock ...
GetFreeBlockLock(t) ==
  /\ pc[t] = "c_blk" /\ Take("sb", t) /\ Goto(t, "c_blk_scan")
  /\ UNCHANGED <<diskVars, memVars, vfsW, vfsR, loc, issued, oops>>

\* Mutant: the i == MAX check dropped; *out = MAX when nothing is free.
GetFreeBlockScanNoEnospc(t) ==
  LET cand == {i \in 3 .. MaxObjects - 1 : Mask(i) \cap sbFree # {}}
  IN  /\ pc[t] = "c_blk_scan"
      /\ loc' = [loc EXCEPT ![t].blk = IF cand = {} THEN MaxObjects
                                                    ELSE Min(cand)]
      /\ Goto(t, "c_blk_clr")
      /\ UNCHANGED <<diskVars, memVars, syncVars, issued, oops>>

\* ... scan bits 3 .. MAX-1 for the first one whose mask meets free_blocks;
\* -ENOSPC (unlock, and the create fails) when there is none ...
GetFreeBlockScan(t) ==
  LET cand == {i \in 3 .. MaxObjects - 1 : Mask(i) \cap sbFree # {}}
  IN  /\ pc[t] = "c_blk_scan"
      /\ \/ /\ cand = {}
            /\ lock' = Release({"sb", "dir"}) /\ Finish(t)
         \/ /\ cand # {}
            /\ loc' = [loc EXCEPT ![t].blk = Min(cand)]
            /\ Goto(t, "c_blk_clr")
            /\ UNCHANGED <<lock, vfsW, vfsR>>
      /\ UNCHANGED <<diskVars, memVars, issued, oops>>

\* Mutant: the bit is never cleared in free_blocks.
GetFreeBlockClearKeepBit(t) ==
  /\ pc[t] = "c_blk_clr"
  /\ sbFree' = sbFree
  /\ issued' = issued \cup {loc[t].blk}
  /\ lock' = Release({"sb"})
  /\ Goto(t, "c_add_mgmt")
  /\ UNCHANGED <<sbCount, store, storeDisk, dirBlk, memVars, vfsW, vfsR, loc,
                 oops>>

\* ... else clear the mask of that bit, sync the superblock and unlock.
GetFreeBlockClear(t) ==
  /\ pc[t] = "c_blk_clr"
  /\ sbFree' = sbFree \ Mask(loc[t].blk)
  /\ issued' = issued \cup {loc[t].blk}
  /\ lock' = Release({"sb"})
  /\ Goto(t, "c_add_mgmt")
  /\ UNCHANGED <<sbCount, store, storeDisk, dirBlk, memVars, vfsW, vfsR, loc,
                 oops>>

\* simplefs_inode_add: inode lock, then superblock lock, then write the
\* record into slot inode_no-1, count it, set its imap bit, mark the store
\* buffer dirty (not synced) and sync the superblock.
InodeAddLockMgmt(t) ==
  /\ pc[t] = "c_add_mgmt" /\ Take("mgmt", t) /\ Goto(t, "c_add_sb")
  /\ UNCHANGED <<diskVars, memVars, vfsW, vfsR, loc, issued, oops>>

InodeAddLockSb(t) ==
  /\ pc[t] = "c_add_sb" /\ Take("sb", t) /\ Goto(t, "c_add_cs")
  /\ UNCHANGED <<diskVars, memVars, vfsW, vfsR, loc, issued, oops>>

\* Mutant: set_bit on imap left out.
InodeAddWriteNoBit(t) ==
  LET l == loc[t]
  IN  /\ pc[t] = "c_add_cs"
      /\ store' = [store EXCEPT ![l.ino - 1] =
                     [ino |-> l.ino, mode |-> l.mode, blk |-> l.blk, val |-> 0]]
      /\ sbCount' = (sbCount + 1) % CounterMod
      /\ imap' = imap
      /\ lock' = Release({"sb", "mgmt"})
      /\ Goto(t, "c_dirent")
      /\ UNCHANGED <<sbFree, storeDisk, dirBlk, rootMem, cache, dcache, mem,
                     handle, vfsW, vfsR, loc, issued, oops>>

InodeAddWrite(t) ==
  LET l == loc[t]
  IN  /\ pc[t] = "c_add_cs"
      /\ store' = [store EXCEPT ![l.ino - 1] =
                     [ino |-> l.ino, mode |-> l.mode, blk |-> l.blk, val |-> 0]]
      /\ sbCount' = (sbCount + 1) % CounterMod
      /\ imap' = imap \cup {l.ino}
      /\ lock' = Release({"sb", "mgmt"})
      /\ Goto(t, "c_dirent")
      /\ UNCHANGED <<sbFree, storeDisk, dirBlk, rootMem, cache, dcache, mem,
                     handle, vfsW, vfsR, loc, issued, oops>>

\* Take the first free cache entry, write (name, inode_no) into that slot
\* of the root's block, copy it into the entry, move the entry to the used
\* list (sorted insert) and sync the block.  With the free list empty,
\* list_first_entry returns the list head itself: a wild pointer.
CreateDirent(t) ==
  /\ pc[t] = "c_dirent"
  /\ \/ /\ cache.free = <<>>
        /\ oops' = "dir_full"
        /\ UNCHANGED <<dirBlk, cache, pc>>
     \/ /\ cache.free # <<>>
        /\ LET s == FreeCacheEntryGet(cache)
               r == [name |-> loc[t].name, ino |-> loc[t].ino]
           IN  /\ dirBlk' = [dirBlk EXCEPT ![s] = r]
               /\ cache' = CacheEntryInsert([cache EXCEPT !.rec[s] = r], s)
        /\ Goto(t, "c_par_mgmt")
        /\ UNCHANGED oops
  /\ UNCHANGED <<sbFree, sbCount, store, storeDisk, imap, rootMem, dcache,
                 mem, handle, syncVars, loc, issued>>

\* Inode lock, then dir_children_count++ on the root's in-memory inode.
CreateParentLock(t) ==
  /\ pc[t] = "c_par_mgmt" /\ Take("mgmt", t)
  /\ rootMem' = [rootMem EXCEPT !.val = (@ + 1) % CounterMod]
  /\ Goto(t, "c_par_sb")
  /\ UNCHANGED <<diskVars, imap, cache, dcache, mem, handle, vfsW, vfsR, loc,
                 issued, oops>>

\* simplefs_inode_save: read the store block, take the superblock lock.
\* Reached from create (parent), unlink (parent) and write (the file).
SaveNext == "c_par_sb" :> "c_par_cs" @@ "u_save_sb" :> "u_save_cs"
              @@ "w_sb" :> "w_cs"

InodeSaveLock(t) ==
  /\ pc[t] \in DOMAIN SaveNext /\ Take("sb", t) /\ Goto(t, SaveNext[pc[t]])
  /\ UNCHANGED <<diskVars, memVars, vfsW, vfsR, loc, issued, oops>>

\* Mutant: the inode lock is not unlocked on success.
CreateParentSaveKeepMgmt(t) ==
  LET l   == loc[t]
      ok  == InodeSearch(store, rootMem.ino) # -1
      st  == SavedStore(store, rootMem)
      new == [ino |-> l.ino, mode |-> l.mode, blk |-> l.blk, val |-> 0]
  IN  /\ pc[t] = "c_par_cs"
      /\ store' = st
      /\ storeDisk' = IF ok THEN st ELSE storeDisk
      /\ lock' = Release({"sb", "dir"})
      /\ dcache' = IF ok THEN [dcache EXCEPT ![l.name] = l.blk] ELSE dcache
      /\ mem' = [mem EXCEPT ![l.blk] = new]
      /\ Finish(t)
      /\ UNCHANGED <<sbFree, sbCount, dirBlk, imap, rootMem, cache, handle,
                     issued, oops>>

\* inode_save of the root (sync of the whole store buffer when the record is
\* found, -EIO otherwise), unlock, and d_add of the new inode on success.
CreateParentSave(t) ==
  LET l   == loc[t]
      ok  == InodeSearch(store, rootMem.ino) # -1
      st  == SavedStore(store, rootMem)
      new == [ino |-> l.ino, mode |-> l.mode, blk |-> l.blk, val |-> 0]
  IN  /\ pc[t] = "c_par_cs"
      /\ store' = st
      /\ storeDisk' = IF ok THEN st ELSE storeDisk
      /\ lock' = Release({"sb", "mgmt", "dir"})
      /\ dcache' = IF ok THEN [dcache EXCEPT ![l.name] = l.blk] ELSE dcache
      /\ mem' = [mem EXCEPT ![l.blk] = new]
      /\ Finish(t)
      /\ UNCHANGED <<sbFree, sbCount, dirBlk, imap, rootMem, cache, handle,
                     issued, oops>>

-----------------------------------------------------------------------------
(* unlink: simplefs_unlink.  It takes no driver lock of its own.           *)

\* The VFS locks the root and calls ->unlink on a positive dentry of a
\* regular file (directories go to ->rmdir, which simplefs lacks).
UnlinkBegin(t, n) ==
  /\ pc[t] = "idle" /\ cache.built /\ VfsFree
  /\ dcache[n] # 0 /\ mem[dcache[n]].mode = "reg"
  /\ vfsW' = t
  /\ pc' = [pc EXCEPT ![t] = "u_dirent"]
  /\ loc' = [loc EXCEPT ![t] = [NoLoc EXCEPT !.name = n, !.blk = dcache[n]]]
  /\ UNCHANGED <<diskVars, memVars, lock, vfsR, issued, oops>>

\* Zero the record in the root's block and sync it, move the entry to the
\* head of the free list, decrement both children counters.
UnlinkDirent(t) ==
  LET k == UsedEntryGet(cache, loc[t].name)
      s == cache.used[k]
  IN  /\ pc[t] = "u_dirent" /\ k # 0
      /\ dirBlk' = [dirBlk EXCEPT ![s] = NoRecord]
      /\ cache' = [cache EXCEPT !.used = Remove(@, s), !.free = <<s>> \o @,
                                !.count = (@ - 1) % CounterMod]
      /\ rootMem' = [rootMem EXCEPT !.val = (@ - 1) % CounterMod]
      /\ Goto(t, "u_save_sb")
      /\ UNCHANGED <<sbFree, sbCount, store, storeDisk, imap, dcache, mem,
                     handle, syncVars, loc, issued, oops>>

\* Mutant: the parent inode is not saved.
UnlinkParentSaveSkipped(t) ==
  LET ok == InodeSearch(store, rootMem.ino) # -1
      st == SavedStore(store, rootMem)
  IN  /\ pc[t] = "u_save_cs"
      /\ UNCHANGED <<store, storeDisk>>
      /\ lock' = Release({"sb"})
      /\ Goto(t, "u_del_mgmt")
      /\ UNCHANGED <<sbFree, sbCount, dirBlk, memVars, vfsW, vfsR, loc,
                     issued, oops>>

\* inode_save of the root; its result is ignored.
UnlinkParentSave(t) ==
  LET ok == InodeSearch(store, rootMem.ino) # -1
      st == SavedStore(store, rootMem)
  IN  /\ pc[t] = "u_save_cs"
      /\ store' = st
      /\ storeDisk' = IF ok THEN st ELSE storeDisk
      /\ lock' = Release({"sb"})
      /\ Goto(t, "u_del_mgmt")
      /\ UNCHANGED <<sbFree, sbCount, dirBlk, memVars, vfsW, vfsR, loc,
                     issued, oops>>

\* simplefs_inode_del: inode lock, superblock lock, zero slot inode_no-1,
\* decrement the count, clear the imap bit, mark the store buffer dirty
\* (not synced), sync the superblock.  Then unlink returns 0 and the VFS
\* turns the dentry negative.
InodeDelLockMgmt(t) ==
  /\ pc[t] = "u_del_mgmt" /\ Take("mgmt", t) /\ Goto(t, "u_del_sb")
  /\ UNCHANGED <<diskVars, memVars, vfsW, vfsR, loc, issued, oops>>

InodeDelLockSb(t) ==
  /\ pc[t] = "u_del_sb" /\ Take("sb", t) /\ Goto(t, "u_del_cs")
  /\ UNCHANGED <<diskVars, memVars, vfsW, vfsR, loc, issued, oops>>

\* Mutant: inodes_count is not decremented.
InodeDelWriteNoCount(t) ==
  LET i == mem[loc[t].blk].ino
  IN  /\ pc[t] = "u_del_cs"
      /\ store' = [store EXCEPT ![i - 1] = NoInode]
      /\ UNCHANGED sbCount
      /\ imap' = imap \ {i}
      /\ lock' = Release({"sb", "mgmt"})
      /\ dcache' = [dcache EXCEPT ![loc[t].name] = 0]
      /\ Finish(t)
      /\ UNCHANGED <<sbFree, storeDisk, dirBlk, rootMem, cache, mem, handle,
                     issued, oops>>

InodeDelWrite(t) ==
  LET i == mem[loc[t].blk].ino
  IN  /\ pc[t] = "u_del_cs"
      /\ store' = [store EXCEPT ![i - 1] = NoInode]
      /\ sbCount' = (sbCount - 1) % CounterMod
      /\ imap' = imap \ {i}
      /\ lock' = Release({"sb", "mgmt"})
      /\ dcache' = [dcache EXCEPT ![loc[t].name] = 0]
      /\ Finish(t)
      /\ UNCHANGED <<sbFree, storeDisk, dirBlk, rootMem, cache, mem, handle,
                     issued, oops>>

-----------------------------------------------------------------------------
(* write: simplefs_write on a file the thread has open.  No VFS lock.      *)

\* Copy the user bytes into the data block and sync it, advance *ppos.
\* The bytes are not modelled; sz is the resulting *ppos.
WriteBegin(t, sz) ==
  /\ pc[t] = "idle" /\ handle[t] # 0
  /\ pc' = [pc EXCEPT ![t] = "w_mgmt"]
  /\ loc' = [loc EXCEPT ![t] = [NoLoc EXCEPT !.blk = handle[t], !.size = sz]]
  /\ UNCHANGED <<diskVars, memVars, syncVars, issued, oops>>

\* Inode lock, then file_size = *ppos in the shared in-memory inode.
WriteLockSize(t) ==
  /\ pc[t] = "w_mgmt" /\ Take("mgmt", t)
  /\ mem' = [mem EXCEPT ![loc[t].blk].val = loc[t].size]
  /\ Goto(t, "w_sb")
  /\ UNCHANGED <<diskVars, imap, rootMem, cache, dcache, handle, vfsW, vfsR,
                 loc, issued, oops>>

\* inode_save of the file's inode (found by inode_no), then unlock.
WriteSave(t) ==
  LET r  == mem[loc[t].blk]
      ok == InodeSearch(store, r.ino) # -1
      st == SavedStore(store, r)
  IN  /\ pc[t] = "w_cs"
      /\ store' = st
      /\ storeDisk' = IF ok THEN st ELSE storeDisk
      /\ lock' = Release({"sb", "mgmt"})
      /\ Finish(t)
      /\ UNCHANGED <<sbFree, sbCount, dirBlk, memVars, issued, oops>>

-----------------------------------------------------------------------------
(* lookup and readdir of the root.                                         *)

\* The VFS holds the root i_rwsem shared and finds no dentry for n; the
\* cache knows n.  Two lookups of one name are serialised by the VFS.
LookupBegin(t, n) ==
  LET k == UsedEntryGet(cache, n)
  IN  /\ pc[t] = "idle" /\ cache.built /\ vfsW = NoThread
      /\ dcache[n] = 0 /\ k # 0
      /\ \A u \in Threads : ~(pc[u] = "l_get" /\ loc[u].name = n)
      /\ vfsR' = vfsR \cup {t}
      /\ pc' = [pc EXCEPT ![t] = "l_get"]
      /\ loc' = [loc EXCEPT ![t] = [NoLoc EXCEPT !.name = n,
                                    !.ino = cache.rec[cache.used[k]].ino]]
      /\ UNCHANGED <<diskVars, memVars, lock, vfsW, issued, oops>>

\* simplefs_get_inode under the inode lock: copy slot inode_no-1 of the
\* store buffer (no search), then d_add a new inode over that copy.
\* The rest of simplefs_lookup once get_inode returned a copy: new_inode
\* with that copy as i_private, then d_add makes dentry n positive.
LookupInstantiate(n, r) == [dcache EXCEPT ![n] = r.blk]

LookupGet(t) ==
  LET r == store[loc[t].ino - 1]
  IN  /\ pc[t] = "l_get" /\ lock["mgmt"] = NoThread
      /\ mem' = [mem EXCEPT ![r.blk] = r]
      /\ dcache' = LookupInstantiate(loc[t].name, r)
      /\ Finish(t)
      /\ UNCHANGED <<diskVars, imap, rootMem, cache, handle, lock, issued,
                     oops>>

\* simplefs_iterate with no cache yet: allocate and build it from the
\* root's block (the VFS holds the root i_rwsem).
Iterate(t) ==
  /\ pc[t] = "idle" /\ ~cache.built /\ VfsFree
  /\ cache' = DirCacheBuild(dirBlk)
  /\ UNCHANGED <<diskVars, imap, rootMem, dcache, mem, handle, syncVars, pc,
                 loc, issued, oops>>

\* simplefs_lookup (or create, via its lookup) before any readdir:
\* used_cache_entry_get walks the list of a NULL d_fsdata.
UseUnlistedDir(t) ==
  /\ pc[t] = "idle" /\ ~cache.built /\ vfsW = NoThread
  /\ oops' = "null_cache"
  /\ UNCHANGED <<diskVars, memVars, syncVars, pc, loc, issued>>

\* open(2) and close(2) of a regular file: the environment of write.
Open(t, n) ==
  /\ pc[t] = "idle" /\ handle[t] = 0
  /\ dcache[n] # 0 /\ mem[dcache[n]].mode = "reg"
  /\ handle' = [handle EXCEPT ![t] = dcache[n]]
  /\ UNCHANGED <<diskVars, imap, rootMem, cache, dcache, mem, syncVars, pc,
                 loc, issued, oops>>

Close(t) ==
  /\ pc[t] = "idle" /\ handle[t] # 0
  /\ handle' = [handle EXCEPT ![t] = 0]
  /\ UNCHANGED <<diskVars, imap, rootMem, cache, dcache, mem, syncVars, pc,
                 loc, issued, oops>>

-----------------------------------------------------------------------------
(* -EINTR from mutex_lock_interruptible, taken only while the thread is    *)
(* blocked (the lock is held).  For each blocking point: the lock waited   *)
(* for, the locks the error path unlocks, and whether the operation        *)
(* carries on ("on": the error is ignored) or returns.                     *)

\* create's own waits: the directory lock first, and the inode lock for
\* the parent update, whose error path unlocks the directory lock.
IntrCreateDir == "c_dir" :> [lk |-> "dir", rel |-> {}, on |-> "idle"]
IntrCreateParent ==
  "c_par_mgmt" :> [lk |-> "mgmt", rel |-> {"dir"}, on |-> "idle"]

\* simplefs_sb_get_objects_count: -EINTR, on which create unlocks dir.
IntrGetObjectsCount ==
  "c_count" :> [lk |-> "mgmt", rel |-> {"dir"}, on |-> "idle"]

\* simplefs_sb_get_a_freeblock: the -EINTR path jumps to end and unlocks
\* sb, which it does not hold; create then unlocks dir.
IntrGetFreeBlock ==
  "c_blk" :> [lk |-> "sb", rel |-> {"sb", "dir"}, on |-> "idle"]

\* simplefs_inode_add returns void: create goes on to the directory entry.
\* The return after the sb wait leaves the inode lock held.
IntrInodeAdd ==
     "c_add_mgmt" :> [lk |-> "mgmt", rel |-> {}, on |-> "c_dirent"]
  @@ "c_add_sb"   :> [lk |-> "sb",   rel |-> {}, on |-> "c_dirent"]

\* simplefs_inode_save's -EINTR: create unlocks mgmt and dir, unlink
\* ignores it, write unlocks mgmt.
IntrInodeSave ==
     "c_par_sb"  :> [lk |-> "sb", rel |-> {"mgmt", "dir"}, on |-> "idle"]
  @@ "u_save_sb" :> [lk |-> "sb", rel |-> {},              on |-> "u_del_mgmt"]
  @@ "w_sb"      :> [lk |-> "sb", rel |-> {"mgmt"},        on |-> "idle"]

\* simplefs_inode_del returns void, and unlink returns 0 after it.
IntrInodeDel ==
     "u_del_mgmt" :> [lk |-> "mgmt", rel |-> {}, on |-> "idle"]
  @@ "u_del_sb"   :> [lk |-> "sb",   rel |-> {}, on |-> "idle"]

\* simplefs_write's inode lock.
IntrWrite == "w_mgmt" :> [lk |-> "mgmt", rel |-> {}, on |-> "idle"]

\* simplefs_get_inode returns NULL; lookup leaves the dentry negative.
IntrGetInode == "l_get" :> [lk |-> "mgmt", rel |-> {}, on |-> "idle"]

IntrAt == IntrCreateDir @@ IntrCreateParent @@ IntrGetObjectsCount @@ IntrGetFreeBlock
            @@ IntrInodeAdd @@ IntrInodeSave @@ IntrInodeDel @@ IntrWrite
            @@ IntrGetInode

\* unlink returns 0 whatever inode_del did, so the VFS still turns the
\* dentry negative.
Interrupt(t) ==
  LET p == pc[t]
      e == IntrAt[p]
  IN  /\ Signals /\ p \in DOMAIN IntrAt /\ lock[e.lk] # NoThread
      /\ lock' = Release(e.rel)
      /\ IF e.on = "idle" THEN Finish(t)
                          ELSE Goto(t, e.on) /\ UNCHANGED <<vfsW, vfsR, loc>>
      /\ dcache' = IF p \in {"u_del_mgmt", "u_del_sb"}
                     THEN [dcache EXCEPT ![loc[t].name] = 0] ELSE dcache
      /\ UNCHANGED <<diskVars, imap, rootMem, cache, mem, handle, issued, oops>>

-----------------------------------------------------------------------------
(* The block layer and the system around the driver.                       *)

\* Writeback of the dirty inode store buffer at any time.
Writeback ==
  /\ storeDisk # store
  /\ storeDisk' = store
  /\ UNCHANGED <<sbFree, sbCount, store, dirBlk, memVars, syncVars, pc, loc,
                 issued, oops>>

\* umount (kill_block_super writes dirty buffers back and drops every
\* dentry and inode) then mount (simplefs_fill_super: root inode copied
\* from the store, fill_imap).  The driver mutexes are static globals and
\* keep their owners.
Remount ==
  /\ \A t \in Threads : pc[t] = "idle" /\ handle[t] = 0
  /\ VfsFree
  /\ storeDisk' = store
  /\ imap' = FillImap(store)
  /\ rootMem' = store[RootIno - 1]
  /\ cache' = DentryRelease
  /\ dcache' = [n \in Names |-> 0]
  /\ mem' = DestroyInodes
  /\ UNCHANGED <<sbFree, sbCount, store, dirBlk, handle, syncVars, pc, loc,
                 issued, oops>>

\* Power loss and mount again: the buffer cache is lost, the device keeps
\* what was synced (the superblock and the directory block are synced on
\* every change).
Crash ==
  /\ store' = storeDisk
  /\ imap' = FillImap(storeDisk)
  /\ rootMem' = storeDisk[RootIno - 1]
  /\ cache' = DentryRelease
  /\ dcache' = [n \in Names |-> 0]
  /\ mem' = DestroyInodes
  /\ handle' = [t \in Threads |-> 0]
  /\ lock' = [l \in LockNames |-> NoThread]
  /\ vfsW' = NoThread /\ vfsR' = {}
  /\ pc' = [t \in Threads |-> "idle"]
  /\ loc' = [t \in Threads |-> NoLoc]
  /\ UNCHANGED <<sbFree, sbCount, storeDisk, dirBlk, issued, oops>>

-----------------------------------------------------------------------------
(* The specification.                                                      *)

\* The steps of a thread inside an operation.
Step(t) ==
  \/ CreateLockDir(t) \/ CreateCheck(t) \/ GetFreeBlockLock(t)
  \/ GetFreeBlockScan(t) \/ GetFreeBlockClear(t)
  \/ InodeAddLockMgmt(t) \/ InodeAddLockSb(t)
  \/ InodeAddWrite(t) \/ CreateDirent(t) \/ CreateParentLock(t)
  \/ InodeSaveLock(t) \/ CreateParentSave(t)
  \/ UnlinkDirent(t) \/ UnlinkParentSave(t) \/ InodeDelLockMgmt(t)
  \/ InodeDelLockSb(t) \/ InodeDelWrite(t)
  \/ WriteLockSize(t) \/ WriteSave(t) \/ LookupGet(t) \/ Interrupt(t)

\* The calls a thread may start from idle.
Call(t) ==
  \/ \E n \in Names, m \in Modes : CreateBegin(t, n, m)
  \/ \E n \in Names : UnlinkBegin(t, n) \/ LookupBegin(t, n) \/ Open(t, n)
  \/ \E sz \in Sizes : WriteBegin(t, sz)
  \/ Iterate(t) \/ UseUnlistedDir(t) \/ Close(t)

\* After an oops nothing runs any more.
Live   == oops = "none"
Halted == oops # "none" /\ UNCHANGED vars

Next ==
  \/ \E t \in Threads : Live /\ Call(t)
  \/ \E t \in Threads : Live /\ Step(t)
  \/ Live /\ Writeback
  \/ Live /\ Remount
  \/ Halted

CrashNext == Next \/ (Live /\ Crash)

Spec      == Init /\ [][Next]_vars
\* A thread blocked on a mutex gets it once it is released often enough
\* (mutex handoff); a runnable thread is eventually scheduled.
FairSpec  == Spec /\ \A t \in Threads : SF_vars(Step(t))
CrashSpec == Init /\ [][CrashNext]_vars

-----------------------------------------------------------------------------
(* Properties.                                                             *)

Occupied  == {s \in DirSlots : dirBlk[s].ino # 0}
LiveSlots == {s \in Slots : store[s].ino # 0}

TypeOK ==
  /\ sbFree \subseteq Bits /\ sbCount \in 0 .. CounterMod - 1
  /\ store \in [Slots -> Inode] /\ storeDisk \in [Slots -> Inode]
  /\ dirBlk \in [DirSlots -> DirRecord]
  /\ imap \subseteq Bits /\ rootMem \in Inode
  /\ rootMem.val \in 0 .. CounterMod - 1
  /\ cache.built \in BOOLEAN /\ cache.count \in 0 .. CounterMod - 1
  /\ cache.used \in Seq(DirSlots) /\ cache.free \in Seq(DirSlots)
  /\ dcache \in [Names -> Bits] /\ mem \in [Bits -> Inode]
  /\ handle \in [Threads -> Bits]
  /\ lock \in [LockNames -> Threads \cup {NoThread}]
  /\ vfsW \in Threads \cup {NoThread} /\ vfsR \subseteq Threads
  /\ issued \subseteq Bits /\ oops \in {"none", "dir_full", "null_cache"}

\* The root's directory cache (built by simplefs_iterate, kept by create's
\* free_cache_entry_get/cache_entry_insert and unlink's list_del/list_add)
\* lists exactly the occupied records of the root's block, the used list
\* in increasing entry_no order, with the records as on disk, and the free
\* list exactly the empty slots.
CacheMirrorsDisk ==
  cache.built =>
    /\ \A i \in 1 .. Len(cache.used) - 1 : cache.used[i] < cache.used[i + 1]
    /\ Range(cache.used) = Occupied
    /\ \A s \in Occupied : cache.rec[s] = dirBlk[s]
    /\ Range(cache.free) = DirSlots \ Occupied
    /\ Len(cache.free) = Cardinality(DirSlots \ Occupied)

\* Every record of the root's block names a live inode: create adds the
\* inode (simplefs_inode_add) before the record and unlink removes the
\* record before the inode (simplefs_inode_del); no two records share an
\* inode number, which ffz on imap must guarantee.
EntryTargetsLiveInode ==
  \A s \in Occupied :
    /\ dirBlk[s].ino \in imap
    /\ store[dirBlk[s].ino - 1].ino = dirBlk[s].ino
    /\ \A s2 \in Occupied \ {s} : dirBlk[s2].ino # dirBlk[s].ino

\* The superblock's inodes_count and the in-memory imap agree with the
\* inode store after any interleaving of inode_add and inode_del.
InodeAccounting ==
  /\ sbCount = Cardinality(LiveSlots)
  /\ imap = (0 .. StartIno - 1) \cup {store[s].ino : s \in LiveSlots}

\* simplefs_sb_get_a_freeblock hands out each block once, across power
\* loss and -EINTR: a block it gave out is never free again (the cleared
\* bit is synced before the unlock), every block is free, reserved or
\* given out, no two live inodes share a data block, and the inode store
\* on the device names only blocks given out, so a mount after a crash
\* between get_a_freeblock and inode_add leaks the block but never hands
\* it out twice.
BlockAccounting ==
  /\ sbFree \cap issued = {}
  /\ sbFree \cup issued \cup Reserved = Bits
  /\ \A s \in LiveSlots \ {RootIno - 1} : store[s].blk \in issued
  /\ \A s \in Slots \ {RootIno - 1} :
       storeDisk[s].ino # 0 => storeDisk[s].blk \in issued
  /\ \A s, s2 \in LiveSlots : s # s2 => store[s].blk # store[s2].blk

\* Once no create or unlink is between its parent-inode update and the
\* save that follows, the root's dir_children_count in memory and in the
\* store equals the number of records in its block.
ParentWindow == {"c_par_mgmt", "c_par_sb", "c_par_cs", "u_save_sb", "u_save_cs"}
RootCountAccurate ==
  (\A t \in Threads : pc[t] \notin ParentWindow) =>
    /\ rootMem.val = Cardinality(Occupied)
    /\ store[RootIno - 1].val = Cardinality(Occupied)

\* Every call that enters the driver returns (or the system stops).
Termination ==
  \A t \in Threads : pc[t] # "idle" ~> (pc[t] = "idle" \/ oops # "none")

\* The root's block read as a directory: each name to the inode_no of its
\* record, or 0.
RootDir == [n \in Names |->
              LET S == {s \in Occupied : dirBlk[s].name = n}
              IN  IF S = {} THEN 0 ELSE dirBlk[CHOOSE s \in S : TRUE].ino]

NS == INSTANCE Namespace WITH dir <- RootDir, inodes <- imap, Inos <- Bits,
                              Reserved <- 0 .. StartIno - 1

\* Refinement: create, mkdir and unlink, split at every mutex and run by
\* several threads with writes, lookups, readdir and remounts in between,
\* change the directory and imap one name or one inode at a time: an inode
\* number is taken before its record is written, a record names only a
\* taken number no other record holds, and inode_del clears the bit only
\* after the record is gone.
NamespaceImplemented == NS!Spec

-----------------------------------------------------------------------------
(* Properties the code is expected to keep and does not (violation runs). *)

\* A thread between its superblock-lock acquisition and the matching
\* unlock owns the superblock lock: no path unlocks a mutex it does not
\* hold (simplefs_sb_get_a_freeblock's -EINTR path jumps to its unlock).
SbSection == {"c_blk_scan", "c_blk_clr", "c_add_cs", "c_par_cs", "u_save_cs",
              "u_del_cs", "w_cs"}
SbHeldInSection == \A t \in Threads : pc[t] \in SbSection => lock["sb"] = t

\* What a mount finds after power loss is a consistent file system: every
\* record of the root's block names a live inode of the store, and the
\* superblock's inodes_count and the inode bitmap rebuilt by fill_imap
\* agree with the store.  create and unlink sync the superblock and the
\* directory block at once but leave the inode store to a later sync or
\* writeback (simplefs_inode_del only marks it dirty).
DiskConsistent == EntryTargetsLiveInode /\ InodeAccounting

\* A thread at the copy step of simplefs_inode_save finds the record of the
\* inode it is saving: the search by inode_no stops at a slot holding the
\* same inode (same data block).  When the number is missing the search
\* reads the slot past the end of the store block; when the number was
\* freed and handed to a new file it overwrites the new file's record.
\* Write reaches inode_save through an open handle whatever happened to
\* the name since the open.
SaveTargetsOwnRecord ==
  \A t \in Threads :
    pc[t] = "w_cs" =>
      LET r == mem[loc[t].blk]
          k == InodeSearch(store, r.ino)
      IN  k # -1 /\ store[k].blk = r.blk
=============================================================================
