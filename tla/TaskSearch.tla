------------------------------ MODULE TaskSearch ------------------------------
(***************************************************************************)
(* tp-1/rackdoll/kernel/task.c, load_tasks and parse_task: the walk over   *)
(* the tags of the multiboot2 information and the search for the header of *)
(* a task in each module.  Addresses are in bytes.                         *)
(*                                                                         *)
(* A boot is what the loader gives the kernel: tags, a sequence of records *)
(* [at, size, module], total_size, and headers, the words of 8 bytes that  *)
(* hold TASK_HEADER_MAGIC.  A module is [start, end] (start is on a page), *)
(* and NoModule for any other tag.                                         *)
(***************************************************************************)
EXTENDS Integers, Sequences

CONSTANTS TASK_FIFO_LEN, Boots

NoModule == [start |-> 0, end |-> 0]

(* The tags of b: one after the other on multiples of 8, up to total_size. *)
TagsFollow(b) ==
  LET n == Len(b.tags)
      At(k) == IF k = n + 1 THEN b.total_size ELSE b.tags[k].at
  IN /\ At(1) = 8
     /\ \A k \in 1 .. n :
          LET end == At(k) + b.tags[k].size
          IN At(k + 1) % 8 = 0 /\ At(k + 1) \in end .. end + 7 /\ b.tags[k].size >= 8
     /\ \A j, k \in 1 .. n + 1 : j < k => At(j) < At(k)

ASSUME TaskSearchAssumption ==
  /\ TASK_FIFO_LEN \in Nat
  /\ \A b \in Boots :
       /\ b.tags \in Seq([at : Nat, size : Nat, module : [start : Nat, end : Nat]])
       /\ b.total_size \in Nat /\ TagsFollow(b)
       /\ b.headers \subseteq Nat /\ \A p \in b.headers : p % 8 = 0
       /\ \A k \in 1 .. Len(b.tags) :
            LET module == b.tags[k].module
            IN module.start % 8 = 0 /\ module.start <= module.end

VARIABLES
  boot,            (* the information given                                *)
  tagptr,          (* ptr in load_tasks, from the start of the information *)
  visited,         (* the tags met                                         *)
  tasks            (* the headers of the tasks in the fifo                 *)

searchVars == <<boot, tagptr, visited, tasks>>

SearchInit == boot \in Boots /\ tagptr = 8 /\ visited = <<>> /\ tasks = <<>>
-------------------------------------------------------------------------------
\* Mutant of Align: a tag follows the end of the one before.
align_none(n) == n

(* (n + 7) & ~0x7 *)
Align(n) == ((n + 7) \div 8) * 8

(* Where the scan of a module by words of 8 bytes stops: at the first one  *)
(* that holds the magic number or is past the end.                         *)
ScanStop(module) ==
  LET Word(p) == (p - module.start) % 8 = 0
      Stops(p) == p >= module.end \/ p \in boot.headers
  IN CHOOSE p \in module.start .. module.end + 7 :
       /\ Word(p) /\ Stops(p)
       /\ \A q \in module.start .. p - 1 : Word(q) => ~Stops(q)

\* Mutant of parse_task: the fifo takes one task more.
parse_task_late(module) ==
  IF Len(tasks) > TASK_FIFO_LEN \/ ScanStop(module) = module.end THEN tasks
  ELSE Append(tasks, ScanStop(module))

parse_task(module) ==
  IF Len(tasks) = TASK_FIFO_LEN \/ ScanStop(module) = module.end THEN tasks
  ELSE Append(tasks, ScanStop(module))

TagsFrom(p) == {k \in 1 .. Len(boot.tags) : boot.tags[k].at = p}

(* One turn of load_tasks.  Bytes that are not the start of a tag have the *)
(* size of a word and any type.                                            *)
NextTag ==
  /\ tagptr < boot.total_size
  /\ visited' = Append(visited, TagsFrom(tagptr))
  /\ IF TagsFrom(tagptr) = {} THEN tagptr' = Align(tagptr + 8) /\ UNCHANGED tasks
     ELSE LET tag == boot.tags[CHOOSE k \in TagsFrom(tagptr) : TRUE]
          IN /\ tagptr' = Align(tagptr + tag.size)
             /\ tasks' = IF tag.module = NoModule THEN tasks ELSE parse_task(tag.module)
  /\ UNCHANGED boot

SearchNext == NextTag
SearchSpec == SearchInit /\ [][SearchNext]_searchVars
-------------------------------------------------------------------------------
HeadersIn(module) ==
  {p \in boot.headers : module.start <= p /\ p < module.end}

(* Where the scan of a module ends in a task: at its first header; without *)
(* header, when its length is no multiple of 8, at the first word past its *)
(* end, whatever follows the module there (task.c:116).                    *)
TaskAt(module, p) ==
  IF HeadersIn(module) # {}
    THEN p \in HeadersIn(module) /\ \A q \in HeadersIn(module) : p <= q
    ELSE p \in module.end + 1 .. module.end + 7 /\ p % 8 = 0 /\ module.end % 8 # 0

(* The tags met so far of the modules that a task is made of.              *)
Making ==
  {k \in 1 .. Len(visited) :
     LET module == boot.tags[k].module IN HeadersIn(module) # {} \/ module.end % 8 # 0}

(* task.c:99-137 and 184-201: load_tasks meets every tag of the boot       *)
(* information once, in order, and the tasks it makes are, in their order, *)
(* of the first TASK_FIFO_LEN modules that hold a header or whose length   *)
(* is no multiple of 8, each where TaskAt says: place[i] is the tag of     *)
(* task i.  A module of another length and without header makes none.      *)
TasksFound ==
  /\ \A k \in 1 .. Len(visited) : visited[k] = {k}
  /\ tagptr >= boot.total_size => Len(visited) = Len(boot.tags)
  /\ Len(tasks) <= TASK_FIFO_LEN
  /\ \E place \in [1 .. Len(tasks) -> Making] :
       /\ \A i \in 1 .. Len(tasks) : TaskAt(boot.tags[place[i]].module, tasks[i])
       /\ \A i, j \in 1 .. Len(tasks) : i < j => place[i] < place[j]
       /\ \A k \in Making :
            \/ \E i \in 1 .. Len(tasks) : place[i] = k
            \/ Len(tasks) = TASK_FIFO_LEN /\ \A i \in 1 .. Len(tasks) : place[i] < k
===============================================================================
