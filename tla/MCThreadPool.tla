--------------------------- MODULE MCThreadPool ---------------------------
(* ThreadPool for TLC: three workers, four tasks.                          *)
EXTENDS ThreadPool
=============================================================================
