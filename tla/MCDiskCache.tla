----------------------------- MODULE MCDiskCache ------------------------------
(* Small instances of DiskCache for TLC. *)
EXTENDS DiskCache

\* The processes that may write are alike, and so are the directories.
Symmetry == Permutations(Procs \ ReadOnly) \cup Permutations(Dirs)

\* Two states are one for TLC when they differ only in what no later step and
\* no property of DiskCacheFault reads: what a removed directory was, and what a
\* finished call, or a finished part of one, has looked up or returned.
Live == {d \in Dirs : path[d] # None}
Local(p) ==
  IF pc[p] = "idle" THEN <<off[p]>>
  ELSE <<off[p], key[p], miss[p], i[p], stale[p], aged[p] \cap Live, victims[p],
         rmpath[p], rmdir[p], rmleft[p], rmback[p],
         IF pc[p] \in {"present", "safe"} THEN seen[p] ELSE {},
         IF pc[p] = "read" THEN read[p] ELSE {}>>
View ==
  <<path, files, [d \in Live |-> content[d]],
    SelectSeq(mtimes, LAMBDA d : d \in Live),
    old \cap Live, debris \cap Live, taken \cap Live,
    pc, [p \in Procs |-> Local(p)], staging, aside, calls>>
===============================================================================
