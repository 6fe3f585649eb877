\* rmmod while a process is inside a write of /proc/mm_root/mm_entry.
CONSTANTS
  p1 = p1  p2 = p2
  Procs <- MCProcs
  InfoLen = 3
  Digits = {1, 2}
  Inputs <- MCInputs
  Faults = TRUE
SPECIFICATION Spec
SYMMETRY MCSymmetry
INVARIANT InfoLiveInCall
