------------------------------ MODULE ThreadList ------------------------------
(***************************************************************************)
(* TP_GC_NMV/gc.c: the circular list of the threads the collector knows,   *)
(* as operators on a list l = [next, prev] of functions over descriptors.  *)
(* attach_thread and detach_thread work under thread_mutex, so each is one *)
(* step.                                                                   *)
(***************************************************************************)
EXTENDS Integers, Sequences, FiniteSets

CONSTANTS Threads, all_threads
ASSUME ThreadListAssumption == IsFiniteSet(Threads) /\ all_threads \notin Threads

Descriptors == Threads \cup {all_threads}
Lists == [next : [Descriptors -> Descriptors], prev : [Descriptors -> Descriptors]]

(* A static descriptor holds null pointers until it is attached: itself    *)
(* here, which nothing reads.                                              *)
initialise_gc == [next |-> [d \in Descriptors |-> d], prev |-> [d \in Descriptors |-> d]]

(* Before the head: (tls.prev = all.prev)->next = &tls, and so on. *)
attach_thread(l, t) ==
  LET last == l.prev[all_threads]
  IN [next |-> [l.next EXCEPT ![last] = t, ![t] = all_threads],
      prev |-> [l.prev EXCEPT ![t] = last, ![all_threads] = t]]

\* Mutant of detach_thread: the neighbour behind is forgotten.
detach_one_way(l, t) ==
  [next |-> [l.next EXCEPT ![l.prev[t]] = l.next[t], ![t] = t],
   prev |-> [l.prev EXCEPT ![t] = t]]

detach_thread(l, t) ==
  [next |-> [l.next EXCEPT ![l.prev[t]] = l.next[t], ![t] = t],
   prev |-> [l.prev EXCEPT ![l.next[t]] = l.prev[t], ![t] = t]]

(* The descriptors met from the head, in at most as many steps as there    *)
(* are descriptors.                                                        *)
Walk(link) ==
  LET at[k \in 0 .. Cardinality(Descriptors)] ==
        IF k = 0 THEN all_threads ELSE link[at[k - 1]]
  IN [k \in 0 .. Cardinality(Descriptors) |-> at[k]]
===============================================================================
