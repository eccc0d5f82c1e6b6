------------------------------ MODULE MCFileLogger ------------------------------
(* FileLogger for TLC: two threads that log and flush.                       *)
EXTENDS FileLogger
===============================================================================
