------------------------------ MODULE MCTaskFifo ------------------------------
(* Instances of TaskFifo for TLC. *)
EXTENDS TaskFifo

(* Four modules for three slots, with and without a task header: none may  *)
(* be a task, and the last one may find the fifo full.                     *)
MCModules == <<BOOLEAN, BOOLEAN, BOOLEAN, BOOLEAN>>

(* One task, as mylittlefork loaded alone. *)
MCOneModule == <<{TRUE}>>

(* "Fork the current task" (include/task.h:70) read as task/mylittlefork.c *)
(* reads it: a call adds at most one task, the son of the caller.          *)
ForkAddsOneTask == [][fifo_size' <= fifo_size + 1]_vars
===============================================================================
