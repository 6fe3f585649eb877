------------------------------ MODULE MMDebug -------------------------------
(***************************************************************************)
(* The mm_debug module (src/mm/mm_debug.c): /proc/mm_root/mm_entry over a  *)
(* kmalloc'd INFO_LEN-byte buffer `info' and the global int mm_pid.        *)
(* Processes write the entry (proc_mm_write: copy_from_user into info,     *)
(* then kstrtoint of info into mm_pid) and read it (proc_mm_show prints    *)
(* info as a C string), with no lock; the module is loaded (mmproc_init)   *)
(* and unloaded (mmproc_exit) around them.  copy_from_user moves one byte  *)
(* per step and may fault part way.  procfs counts the calls inside the    *)
(* file operations and remove_proc_entry waits for them to return.         *)
(***************************************************************************)
EXTENDS Naturals, Sequences, SequencesExt

CONSTANTS
  Procs,     \* user processes opening the proc entry
  InfoLen,   \* INFO_LEN
  Digits,    \* the digit characters written, as their values 0..9
  Inputs,    \* the user buffers written, sequences of characters
  Faults     \* TRUE: copy_from_user may fault after copying a prefix

\* Characters: a digit is its value, NUL and '\n' are outside 0..9.
NUL   == 10
NL    == 11
Chars == Digits \cup {NUL, NL}

ASSUME /\ InfoLen \in Nat \ {0} /\ Digits \subseteq 0 .. 9
       /\ Inputs \subseteq Seq(Chars) /\ Faults \in BOOLEAN

Phases == {"unloaded", "loaded", "freed"}

VARIABLES
  info,    \* the bytes of the buffer info points to
  mmPid,   \* mm_pid
  phase,   \* "loaded", "freed" (kfree done in mmproc_exit) or "unloaded"
  entry,   \* /proc/mm_root/mm_entry exists
  pc,      \* "idle", or the step of the call a process is in
  buf,     \* the user buffer of the write in progress
  idx      \* bytes copy_from_user has copied so far

vars == <<info, mmPid, phase, entry, pc, buf, idx>>

-----------------------------------------------------------------------------
(* kstrtoint(info, 10, &mm_pid) on the C string at info.                   *)

\* The characters up to the first NUL, when there is one within INFO_LEN.
Terminated(s) == \E i \in DOMAIN s : s[i] = NUL
CString(s)    == SubSeq(s, 1, SelectInSeq(s, LAMBDA c : c = NUL) - 1)

Decimal(ds) == FoldLeft(LAMBDA acc, d : 10 * acc + d, 0, ds)

\* _kstrtoull: one or more digits, at most one trailing '\n', then the end.
DigitsOf(s) == IF s # <<>> /\ Last(s) = NL THEN Front(s) ELSE s
Parses(s)   == LET ds == DigitsOf(s)
               IN  ds # <<>> /\ \A i \in DOMAIN ds : ds[i] \in Digits

\* mm_pid after the call: set on success, left alone on -EINVAL.  With no
\* NUL inside the buffer kstrtoint reads on into the next heap bytes, which
\* may end the string, add digits, or make it invalid.
KStrToInt(s, old) ==
  LET AllDigits == \A i \in DOMAIN s : s[i] \in Digits
  IN  IF Terminated(s)
      THEN {IF Parses(CString(s)) THEN Decimal(DigitsOf(CString(s))) ELSE old}
      ELSE {old} \cup (IF Parses(s) THEN {Decimal(DigitsOf(s))} ELSE {})
                 \cup (IF AllDigits THEN {Decimal(s \o <<d>>) : d \in Digits}
                                   ELSE {})

-----------------------------------------------------------------------------
(* Module load and unload.                                                 *)

\* mm_create_proc_entry: whether the entry exists afterwards.  proc_mkdir
\* or proc_create may return NULL; the second failure removes both again.
MMCreateProcEntry == BOOLEAN

\* mmproc_init: kmalloc and memset info, then mm_create_proc_entry, whose
\* result is ignored.  A failed kmalloc returns -ENOMEM and the module
\* stays unloaded.
MMProcInit ==
  /\ phase = "unloaded"
  /\ info' = [i \in 1 .. InfoLen |-> NUL]
  /\ mmPid' = 0
  /\ phase' = "loaded"
  /\ entry' \in MMCreateProcEntry
  /\ UNCHANGED <<pc, buf, idx>>

\* mmproc_exit, first statement: kfree(info), with the entry still present.
ExitFree ==
  /\ phase = "loaded"
  /\ phase' = "freed"
  /\ UNCHANGED <<info, mmPid, entry, pc, buf, idx>>

\* mmproc_exit, then: remove_proc_entry, which waits for the calls inside
\* the entry's file operations to return.
ExitRemove ==
  /\ phase = "freed"
  /\ \A p \in Procs : pc[p] = "idle"
  /\ phase' = "unloaded"
  /\ entry' = FALSE
  /\ UNCHANGED <<info, mmPid, pc, buf, idx>>

-----------------------------------------------------------------------------
(* proc_mm_write and proc_mm_show.                                         *)

Enter == entry /\ phase # "unloaded"

\* proc_mm_write: count > INFO_LEN returns -EFAULT before touching info
\* (a step with no effect), otherwise copy_from_user starts.
WriteBegin(p, b) ==
  /\ pc[p] = "idle" /\ Enter /\ Len(b) <= InfoLen
  /\ pc' = [pc EXCEPT ![p] = IF b = <<>> THEN "parse" ELSE "copy"]
  /\ buf' = [buf EXCEPT ![p] = b]
  /\ idx' = [idx EXCEPT ![p] = 0]
  /\ UNCHANGED <<info, mmPid, phase, entry>>

\* copy_from_user copies the next byte; after the last it is done.
CopyByte(p) ==
  LET k == idx[p] + 1
  IN  /\ pc[p] = "copy"
      /\ info' = [info EXCEPT ![k] = buf[p][k]]
      /\ idx' = [idx EXCEPT ![p] = k]
      /\ pc' = [pc EXCEPT ![p] = IF k = Len(buf[p]) THEN "parse" ELSE "copy"]
      /\ UNCHANGED <<mmPid, phase, entry, buf>>

\* copy_from_user faults: -EFAULT, with the bytes copied so far left in info.
CopyFault(p) ==
  /\ pc[p] = "copy" /\ Faults
  /\ pc' = [pc EXCEPT ![p] = "idle"]
  /\ UNCHANGED <<info, mmPid, phase, entry, buf, idx>>

\* kstrtoint on info (its result is ignored), then return count.
Parse(p) ==
  /\ pc[p] = "parse"
  /\ mmPid' \in KStrToInt(info, mmPid)
  /\ pc' = [pc EXCEPT ![p] = "idle"]
  /\ UNCHANGED <<info, phase, entry, buf, idx>>

\* read(2) of the entry: single_open and seq_read call proc_mm_show, which
\* prints info up to its NUL.
ShowBegin(p) ==
  /\ pc[p] = "idle" /\ Enter
  /\ pc' = [pc EXCEPT ![p] = "show"]
  /\ UNCHANGED <<info, mmPid, phase, entry, buf, idx>>

ShowEnd(p) ==
  /\ pc[p] = "show"
  /\ pc' = [pc EXCEPT ![p] = "idle"]
  /\ UNCHANGED <<info, mmPid, phase, entry, buf, idx>>

-----------------------------------------------------------------------------

Init ==
  /\ info = [i \in 1 .. InfoLen |-> NUL]
  /\ mmPid = 0
  /\ phase = "unloaded"
  /\ entry = FALSE
  /\ pc = [p \in Procs |-> "idle"]
  /\ buf = [p \in Procs |-> <<>>]
  /\ idx = [p \in Procs |-> 0]

Next ==
  \/ MMProcInit \/ ExitFree \/ ExitRemove
  \/ \E p \in Procs : \E b \in Inputs : WriteBegin(p, b)
  \/ \E p \in Procs : CopyByte(p) \/ CopyFault(p) \/ Parse(p)
  \/ \E p \in Procs : ShowBegin(p) \/ ShowEnd(p)

Spec == Init /\ [][Next]_vars

-----------------------------------------------------------------------------

TypeOK ==
  /\ info \in [1 .. InfoLen -> Chars] /\ mmPid \in Nat
  /\ phase \in Phases /\ entry \in BOOLEAN
  /\ pc \in [Procs -> {"idle", "copy", "parse", "show"}]
  /\ buf \in [Procs -> Inputs \cup {<<>>}]
  /\ idx \in [Procs -> 0 .. InfoLen]

\* A process inside proc_mm_write or proc_mm_show only touches info while
\* it is allocated: mmproc_exit frees info before remove_proc_entry takes
\* the entry away and waits for the calls in progress.
InfoLiveInCall == \A p \in Procs : pc[p] # "idle" => phase = "loaded"

====
