----------------------------- MODULE MCThreadPool -----------------------------
(* The thread pool with a list for two threads, of which three are created. *)
EXTENDS ThreadPoolProperties
===============================================================================
