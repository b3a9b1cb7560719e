----------------------------- MODULE MCThreadPool -----------------------------
(***************************************************************************)
(* A pool of one base thread that may grow to three, with three jobs; one  *)
(* identity more than the pool may use, so that growing too far shows.     *)
(***************************************************************************)
EXTENDS ThreadPoolProperties

CONSTANTS ja, jb, jc, base, dyn1, dyn2, dyn3

MCJobs    == {ja, jb, jc}
MCThreads == {base, dyn1, dyn2, dyn3}
MCBase    == {base}
=============================================================================
