--------------------------- MODULE SequentialProofs ---------------------------
(***************************************************************************)
(* Theorems about the parts that run alone: the search of rackdoll for its *)
(* tasks (TaskSearch) and the loading of the guest by the monitor of janus *)
(* (KernelLoader), for whatever a loader or a linker laid out as these     *)
(* modules assume, and the hash map of the test program of the collector   *)
(* (Hashmap), for every finite set of values and every size of the map.    *)
(***************************************************************************)
EXTENDS TaskSearch, KernelLoader, Hashmap,
        WellFoundedInduction, FiniteSetTheorems, TLAPS

(* A set of naturals that is not empty has a least element.                *)
LEMMA Least ==
  ASSUME NEW S, S \subseteq Nat, S # {}
  PROVE  \E n \in S : \A m \in S : n <= m
<1>1. PICK n \in S : \A m \in Nat : <<m, n>> \in OpToRel(<, Nat) => m \notin S
  BY NatLessThanWellFounded, WFMin
<1>2. \A m \in Nat : m < n => m \notin S
  BY <1>1 DEF OpToRel
<1> QED
  BY <1>2
-------------------------------------------------------------------------------
(* A module as the boot loader places it.                                  *)
Placed(module) ==
  /\ module.start \in Nat /\ module.end \in Nat
  /\ module.start % 8 = 0 /\ module.start <= module.end
  /\ boot.headers \subseteq Nat /\ \A p \in boot.headers : p % 8 = 0

StopsAt(module, p) ==
  /\ p \in module.start .. module.end + 7
  /\ (p - module.start) % 8 = 0 /\ (p >= module.end \/ p \in boot.headers)
  /\ \A q \in module.start .. p - 1 :
       (q - module.start) % 8 = 0 => ~(q >= module.end \/ q \in boot.headers)

(* There is one place where a scan stops.                                  *)
LEMMA ScanStopIs ==
  ASSUME NEW module, Placed(module), NEW p, StopsAt(module, p)
  PROVE  ScanStop(module) = p
<1>1. ASSUME NEW q, StopsAt(module, q) PROVE q = p
  <2>1. p \in Nat /\ q \in Nat /\ module.start <= p /\ module.start <= q
    BY <1>1 DEF StopsAt, Placed
  <2>2. ~(p < q)
    BY <1>1, <2>1 DEF StopsAt, Placed
  <2>3. ~(q < p)
    BY <1>1, <2>1 DEF StopsAt, Placed
  <2> QED
    BY <2>1, <2>2, <2>3
<1>2. ScanStop(module) = CHOOSE q : StopsAt(module, q)
  BY DEF ScanStop, StopsAt
<1> QED
  BY <1>1, <1>2

(* A module with a header: the scan stops at the first one.                *)
LEMMA ScanFinds ==
  ASSUME NEW module, Placed(module), HeadersIn(module) # {}
  PROVE  /\ ScanStop(module) \in HeadersIn(module) /\ ScanStop(module) # module.end
         /\ \A q \in HeadersIn(module) : ScanStop(module) <= q
<1>1. HeadersIn(module) \subseteq Nat
  BY DEF HeadersIn, Placed
<1>2. PICK p \in HeadersIn(module) : \A q \in HeadersIn(module) : p <= q
  BY <1>1, Least
<1>3. /\ p \in Nat /\ p \in boot.headers /\ module.start <= p /\ p < module.end
      /\ p % 8 = 0 /\ module.start \in Nat /\ module.end \in Nat /\ module.start % 8 = 0
  BY <1>1, <1>2 DEF HeadersIn, Placed
<1>4. (p - module.start) % 8 = 0
  BY <1>3
<1>5. ASSUME NEW q \in module.start .. p - 1 PROVE ~(q >= module.end \/ q \in boot.headers)
  <2>1. q \in Nat /\ module.start <= q /\ q < p
    BY <1>3
  <2>2. q \notin HeadersIn(module)
    BY <1>1, <1>2, <2>1
  <2> QED
    BY <1>3, <2>1, <2>2 DEF HeadersIn
<1>6. StopsAt(module, p)
  BY <1>3, <1>4, <1>5 DEF StopsAt
<1>7. ScanStop(module) = p
  BY <1>6, ScanStopIs
<1>8. p # module.end
  BY <1>3
<1> QED
  BY <1>2, <1>7, <1>8

(* A module without header: the scan stops at its end, or at the first     *)
(* word past it.                                                           *)
LEMMA ScanEnds ==
  ASSUME NEW module, Placed(module), HeadersIn(module) = {}
  PROVE  /\ module.end % 8 = 0 => ScanStop(module) = module.end
         /\ module.end % 8 # 0 => ScanStop(module) # module.end
         /\ module.end % 8 # 0 => TaskAt(module, ScanStop(module))
<1>1. /\ module.start \in Nat /\ module.end \in Nat /\ module.start <= module.end
      /\ module.start % 8 = 0 /\ boot.headers \subseteq Nat
  BY DEF Placed
<1>2. \A q \in module.start .. module.end - 1 : q \notin boot.headers
  BY <1>1 DEF HeadersIn
<1>3. PICK p : p = ((module.end + 7) \div 8) * 8
  OBVIOUS
<1>4. /\ p \in module.end .. module.end + 7 /\ p % 8 = 0 /\ (p - module.start) % 8 = 0
      /\ p = module.end <=> module.end % 8 = 0
  BY <1>1, <1>3
<1>5. \A q \in module.end .. p - 1 : (q - module.start) % 8 # 0
  BY <1>1, <1>4
<1>6. ASSUME NEW q \in module.start .. p - 1, (q - module.start) % 8 = 0
      PROVE  ~(q >= module.end \/ q \in boot.headers)
  <2>1. q \in Int /\ p \in Int /\ module.start <= q /\ q <= p - 1
    BY <1>1, <1>4
  <2>2. q < module.end
    BY <1>1, <1>5, <1>6, <2>1
  <2> QED
    BY <1>1, <1>2, <2>1, <2>2
<1>7. StopsAt(module, p)
  BY <1>1, <1>4, <1>6 DEF StopsAt
<1>8. ScanStop(module) = p
  BY <1>7, ScanStopIs
<1> QED
  BY <1>1, <1>4, <1>8 DEF TaskAt

(* A scan always stops.                                                    *)
LEMMA ScanTyped ==
  ASSUME NEW module, Placed(module)
  PROVE  ScanStop(module) \in Nat
<1> DEFINE Ends == {p \in module.start .. module.end + 7 :
                      /\ (p - module.start) % 8 = 0
                      /\ p >= module.end \/ p \in boot.headers}
<1>1. module.start \in Nat /\ module.end \in Nat /\ module.start <= module.end
  BY DEF Placed
<1>2. Ends \subseteq Nat /\ Ends # {}
  <2>1. PICK n \in Nat : n = module.end - module.start
    BY <1>1
  <2>2. PICK k \in Nat : k = (n + 7) \div 8
    OBVIOUS
  <2>3. PICK p : p = module.start + 8 * k
    OBVIOUS
  <2>4. 8 * k \in n .. n + 7 /\ (8 * k) % 8 = 0
    BY <2>2
  <2>5. p \in module.end .. module.end + 7 /\ (p - module.start) % 8 = 0
    BY <1>1, <2>1, <2>3, <2>4
  <2>6. p \in Ends
    BY <1>1, <2>5
  <2> QED
    BY <1>1, <2>6
<1>3. PICK p \in Ends : \A q \in Ends : p <= q
  <2> HIDE DEF Ends
  <2> QED
    BY <1>2, Least
<1>4. StopsAt(module, p)
  BY <1>1, <1>3 DEF StopsAt
<1> QED
  BY <1>1, <1>3, <1>4, ScanStopIs
-------------------------------------------------------------------------------
(* Where tag k is, the end of the information after the last one.          *)
Offset(k) == IF k = Len(boot.tags) + 1 THEN boot.total_size ELSE boot.tags[k].at

(* place[i] is the tag of task i.                                          *)
Places(place) ==
  /\ place \in [1 .. Len(tasks) -> Making]
  /\ \A i \in 1 .. Len(tasks) : TaskAt(boot.tags[place[i]].module, tasks[i])
  /\ \A i, j \in 1 .. Len(tasks) : i < j => place[i] < place[j]
  /\ \A k \in Making :
       \/ \E i \in 1 .. Len(tasks) : place[i] = k
       \/ Len(tasks) = TASK_FIFO_LEN /\ \A i \in 1 .. Len(tasks) : place[i] < k

(* The pointer is at the first tag that was not met.                       *)
SearchInv ==
  /\ boot \in Boots /\ tasks \in Seq(Nat) /\ visited \in Seq(SUBSET Nat)
  /\ Len(visited) \in 0 .. Len(boot.tags) /\ tagptr = Offset(Len(visited) + 1)
  /\ \A k \in 1 .. Len(visited) : visited[k] = {k}
  /\ Len(tasks) <= TASK_FIFO_LEN /\ \E place : Places(place)

(* An element of a sequence.                                               *)
LEMMA Element ==
  ASSUME NEW S, NEW s \in Seq(S), NEW k \in 1 .. Len(s)
  PROVE  s[k] \in S
OBVIOUS

(* What the boot loader's layout gives.                                    *)
LEMMA BootIs ==
  ASSUME SearchInv
  PROVE  /\ Len(boot.tags) \in Nat /\ Len(visited) \in Nat /\ TASK_FIFO_LEN \in Nat
         /\ Offset(1) = 8 /\ boot.total_size \in Nat
         /\ \A k \in 1 .. Len(boot.tags) + 1 : Offset(k) \in Nat
         /\ \A k \in 1 .. Len(boot.tags) :
              /\ Offset(k) = boot.tags[k].at /\ boot.tags[k].size \in Nat
              /\ Offset(k + 1) % 8 = 0
              /\ Offset(k + 1) \in Offset(k) + boot.tags[k].size .. Offset(k) + boot.tags[k].size + 7
              /\ Placed(boot.tags[k].module)
         /\ \A j, k \in 1 .. Len(boot.tags) + 1 : j < k => Offset(j) < Offset(k)
<1>1. boot \in Boots /\ visited \in Seq(SUBSET Nat)
  BY DEF SearchInv
<1>2. /\ TASK_FIFO_LEN \in Nat
      /\ boot.tags \in Seq([at : Nat, size : Nat, module : [start : Nat, end : Nat]])
      /\ boot.total_size \in Nat /\ TagsFollow(boot)
      /\ boot.headers \subseteq Nat /\ \A p \in boot.headers : p % 8 = 0
      /\ \A k \in 1 .. Len(boot.tags) :
           /\ boot.tags[k].module.start % 8 = 0
           /\ boot.tags[k].module.start <= boot.tags[k].module.end
  BY <1>1, TaskSearchAssumption
<1>3. /\ Len(boot.tags) \in Nat /\ Len(visited) \in Nat
      /\ \A k \in 1 .. Len(boot.tags) :
           /\ boot.tags[k].at \in Nat /\ boot.tags[k].size \in Nat
           /\ boot.tags[k].module.start \in Nat /\ boot.tags[k].module.end \in Nat
  <2>1. Len(boot.tags) \in Nat /\ Len(visited) \in Nat
    BY <1>1, <1>2
  <2>2. ASSUME NEW k \in 1 .. Len(boot.tags)
        PROVE  boot.tags[k] \in [at : Nat, size : Nat, module : [start : Nat, end : Nat]]
    BY <1>2, <2>2, Element
  <2>3. ASSUME NEW tag \in [at : Nat, size : Nat, module : [start : Nat, end : Nat]]
        PROVE  /\ tag.at \in Nat /\ tag.size \in Nat
               /\ tag.module.start \in Nat /\ tag.module.end \in Nat
    OBVIOUS
  <2> QED
    BY <2>1, <2>2, <2>3
<1>4. \A k \in 1 .. Len(boot.tags) : Offset(k) = boot.tags[k].at
  BY <1>3 DEF Offset
<1>5. Offset(Len(boot.tags) + 1) = boot.total_size
  BY DEF Offset
<1>6. \A k \in 1 .. Len(boot.tags) + 1 : Offset(k) \in Nat
  BY <1>2, <1>3 DEF Offset
<1>7. /\ Offset(1) = 8
      /\ \A k \in 1 .. Len(boot.tags) :
           /\ Offset(k + 1) % 8 = 0
           /\ Offset(k + 1) \in Offset(k) + boot.tags[k].size .. Offset(k) + boot.tags[k].size + 7
      /\ \A j, k \in 1 .. Len(boot.tags) + 1 : j < k => Offset(j) < Offset(k)
  BY <1>2 DEF TagsFollow, Offset
<1>8. \A k \in 1 .. Len(boot.tags) : Placed(boot.tags[k].module)
  BY <1>2, <1>3 DEF Placed
<1> QED
  BY <1>2, <1>3, <1>4, <1>6, <1>7, <1>8

(* The rounding of the code and the one of the layout.                     *)
LEMMA Aligned ==
  ASSUME NEW n \in Nat, NEW p \in n .. n + 7, p % 8 = 0
  PROVE  Align(n) = p
BY DEF Align

(* A turn of load_tasks meets the next tag and goes to the one after it.   *)
LEMMA TagMet ==
  ASSUME SearchInv, NextTag, NEW k, k = Len(visited) + 1
  PROVE  /\ k \in 1 .. Len(boot.tags) /\ boot' = boot
         /\ visited' = Append(visited, {k}) /\ tagptr' = Offset(k + 1)
         /\ tasks' = IF boot.tags[k].module = NoModule THEN tasks
                     ELSE parse_task(boot.tags[k].module)
<1>1. /\ tagptr = Offset(k) /\ Len(visited) \in 0 .. Len(boot.tags)
      /\ tagptr < boot.total_size /\ boot' = boot
  BY DEF SearchInv, NextTag
<1>2. k \in 1 .. Len(boot.tags)
  <2>1. k # Len(boot.tags) + 1
    BY <1>1, BootIs DEF Offset
  <2> QED
    BY <1>1, <2>1, BootIs
<1>3. TagsFrom(tagptr) = {k}
  <2>1. ASSUME NEW j \in 1 .. Len(boot.tags), boot.tags[j].at = tagptr PROVE j = k
    <3>1. Offset(j) = Offset(k)
      BY <1>1, <1>2, <2>1, BootIs
    <3>2. /\ j \in 1 .. Len(boot.tags) + 1 /\ k \in 1 .. Len(boot.tags) + 1
          /\ j \in Nat /\ k \in Nat
      BY <1>2, BootIs
    <3>3. Offset(j) \in Nat /\ (j < k => Offset(j) < Offset(k)) /\ (k < j => Offset(k) < Offset(j))
      BY <3>2, BootIs
    <3> QED
      BY <3>1, <3>2, <3>3
  <2>2. boot.tags[k].at = tagptr
    BY <1>1, <1>2, BootIs
  <2> QED
    BY <1>2, <2>1, <2>2 DEF TagsFrom
<1>4. (CHOOSE j \in TagsFrom(tagptr) : TRUE) = k
  BY <1>3
<1>5. Align(tagptr + boot.tags[k].size) = Offset(k + 1)
  <2>1. /\ tagptr + boot.tags[k].size \in Nat /\ Offset(k + 1) % 8 = 0
        /\ Offset(k + 1) \in tagptr + boot.tags[k].size .. tagptr + boot.tags[k].size + 7
    <3>1. k \in 1 .. Len(boot.tags) + 1
      BY <1>2, BootIs
    <3>2. tagptr \in Nat /\ boot.tags[k].size \in Nat
      BY <1>1, <1>2, <3>1, BootIs
    <3>3. /\ Offset(k + 1) % 8 = 0
          /\ Offset(k + 1) \in Offset(k) + boot.tags[k].size .. Offset(k) + boot.tags[k].size + 7
      BY <1>2, BootIs
    <3>4. tagptr = Offset(k)
      BY <1>1
    <3> QED
      BY <3>2, <3>3, <3>4
  <2> QED
    BY <2>1, Aligned
<1> QED
  BY <1>1, <1>2, <1>3, <1>4, <1>5 DEF NextTag

(* The tasks after a turn: place gets tag k when a task was made of it.    *)
LEMMA TasksPlaced ==
  ASSUME SearchInv, NextTag
  PROVE  /\ tasks' \in Seq(Nat) /\ Len(tasks') <= TASK_FIFO_LEN
         /\ \E place : Places(place)'
<1> DEFINE k == Len(visited) + 1
           module == boot.tags[k].module
<1>1. /\ k \in 1 .. Len(boot.tags) /\ boot' = boot /\ visited' = Append(visited, {k})
      /\ tasks' = IF module = NoModule THEN tasks ELSE parse_task(module)
      /\ Placed(module)
  BY TagMet, BootIs
<1>2. /\ tasks \in Seq(Nat) /\ Len(tasks) \in Nat /\ Len(tasks) <= TASK_FIFO_LEN
      /\ visited \in Seq(SUBSET Nat) /\ Len(visited) \in Nat /\ TASK_FIFO_LEN \in Nat
  BY BootIs DEF SearchInv
<1>3. Len(visited') = k
  BY <1>1, <1>2
<1>4. PICK place : Places(place)
  BY DEF SearchInv
<1>5. \A m : HeadersIn(m)' = HeadersIn(m)
  BY <1>1 DEF HeadersIn
<1> DEFINE makes == HeadersIn(module) # {} \/ module.end % 8 # 0
<1>6. Making' = Making \cup (IF makes THEN {k} ELSE {})
  <2>1. Making' = {j \in 1 .. k : \/ HeadersIn(boot.tags[j].module) # {}
                                 \/ boot.tags[j].module.end % 8 # 0}
    BY <1>1, <1>3, <1>5 DEF Making
  <2>2. 1 .. k = (1 .. Len(visited)) \cup {k} /\ k \notin 1 .. Len(visited)
    BY <1>2
  <2> QED
    BY <2>1, <2>2 DEF Making
<1>7. \A m, p : TaskAt(m, p)' <=> TaskAt(m, p)
  BY <1>5 DEF TaskAt
<1>8. \A j \in Making : j \in Nat /\ j < k
  BY <1>2 DEF Making
<1>9. /\ place \in [1 .. Len(tasks) -> Making]
      /\ \A i \in 1 .. Len(tasks) : TaskAt(boot.tags[place[i]].module, tasks[i])
      /\ \A i, j \in 1 .. Len(tasks) : i < j => place[i] < place[j]
      /\ \A j \in Making :
           \/ \E i \in 1 .. Len(tasks) : place[i] = j
           \/ Len(tasks) = TASK_FIFO_LEN /\ \A i \in 1 .. Len(tasks) : place[i] < j
  BY <1>4 DEF Places
<1>13. ScanStop(module) \in Nat
  BY <1>1, ScanTyped
<1>14. /\ makes => ScanStop(module) # module.end /\ TaskAt(module, ScanStop(module))
       /\ ~makes => ScanStop(module) = module.end
  BY <1>1, ScanEnds, ScanFinds DEF TaskAt
<1>15. boot.tags[k].module = module
  OBVIOUS
<1>16. makes => module # NoModule
  BY <1>1 DEF NoModule, HeadersIn, Placed
<1> HIDE DEF k, module, makes
<1>10. CASE ~makes
  <2>1. tasks' = tasks
    BY <1>1, <1>10, <1>14 DEF parse_task
  <2>2. Making' = Making
    BY <1>6, <1>10
  <2>3. Places(place)'
    BY <1>1, <1>7, <1>9, <2>1, <2>2 DEF Places
  <2> QED
    BY <1>2, <2>1, <2>3
<1>11. CASE makes /\ Len(tasks) = TASK_FIFO_LEN
  <2>1. tasks' = tasks
    BY <1>1, <1>11 DEF parse_task
  <2>2. Making' = Making \cup {k}
    BY <1>6, <1>11
  <2>3. \A i \in 1 .. Len(tasks) : place[i] < k
    BY <1>8, <1>9
  <2>4. Places(place)'
    BY <1>1, <1>7, <1>9, <1>11, <2>1, <2>2, <2>3 DEF Places
  <2> QED
    BY <1>2, <2>1, <2>4
<1>12. CASE makes /\ Len(tasks) # TASK_FIFO_LEN
  <2>1. PICK p : p = ScanStop(module)
    OBVIOUS
  <2>2. p # module.end /\ TaskAt(module, p)
    BY <1>12, <1>14, <2>1
  <2>3. p \in Nat
    BY <1>13, <2>1
  <2>4. module # NoModule
    BY <1>12, <1>16
  <2>5. tasks' = Append(tasks, p)
    BY <1>1, <1>12, <2>1, <2>2, <2>4 DEF parse_task
  <2>6. /\ tasks' \in Seq(Nat) /\ Len(tasks') = Len(tasks) + 1
        /\ \A i \in 1 .. Len(tasks) : tasks'[i] = tasks[i]
        /\ tasks'[Len(tasks) + 1] = p
    BY <1>2, <2>3, <2>5
  <2>7. Making' = Making \cup {k}
    BY <1>6, <1>12
  <2>8. TaskAt(boot.tags[k].module, p)
    BY <1>15, <2>2
  <2>9. PICK place2 :
          place2 = [i \in 1 .. Len(tasks) + 1 |-> IF i <= Len(tasks) THEN place[i] ELSE k]
    OBVIOUS
  <2>10. /\ place2 \in [1 .. Len(tasks') -> Making']
         /\ \A i \in 1 .. Len(tasks) : place2[i] = place[i]
         /\ place2[Len(tasks) + 1] = k
    BY <1>2, <1>9, <2>6, <2>7, <2>9
  <2>11. \A i \in 1 .. Len(tasks') : i \in 1 .. Len(tasks) \/ i = Len(tasks) + 1
    BY <1>2, <2>6
  <2>12. \A i \in 1 .. Len(tasks') : TaskAt(boot.tags[place2[i]].module, tasks'[i])
    BY <1>9, <2>6, <2>8, <2>10, <2>11
  <2>13. \A i, j \in 1 .. Len(tasks') : i < j => place2[i] < place2[j]
    <3>1. ASSUME NEW i \in 1 .. Len(tasks'), NEW j \in 1 .. Len(tasks'), i < j
          PROVE  place2[i] < place2[j]
      <4>1. i \in 1 .. Len(tasks)
        BY <1>2, <2>6, <3>1
      <4>2. CASE j \in 1 .. Len(tasks)
        BY <1>9, <2>10, <3>1, <4>1, <4>2
      <4>3. CASE j = Len(tasks) + 1
        <5>1. place[i] \in Making
          BY <1>9, <4>1
        <5> QED
          BY <1>8, <2>10, <4>1, <4>3, <5>1
      <4> QED
        BY <2>11, <4>2, <4>3
    <3> QED
      BY <3>1
  <2>14. \A j \in Making' : \E i \in 1 .. Len(tasks') : place2[i] = j
    <3>1. Len(tasks) + 1 \in 1 .. Len(tasks') /\ \A i \in 1 .. Len(tasks) : i \in 1 .. Len(tasks')
      BY <1>2, <2>6
    <3>2. \A j \in Making : \E i \in 1 .. Len(tasks) : place[i] = j
      BY <1>9, <1>12
    <3> QED
      BY <2>7, <2>10, <3>1, <3>2
  <2>15. Places(place2)'
    BY <1>1, <1>7, <2>10, <2>12, <2>13, <2>14 DEF Places
  <2>16. Len(tasks') <= TASK_FIFO_LEN
    BY <1>2, <1>12, <2>6
  <2> QED
    BY <2>6, <2>15, <2>16
<1> QED
  BY <1>10, <1>11, <1>12

(* A turn of load_tasks keeps the invariant.                               *)
LEMMA SearchKeeps == ASSUME SearchInv, [SearchNext]_searchVars PROVE SearchInv'
<1>1. CASE NextTag
  <2> DEFINE k == Len(visited) + 1
  <2>1. /\ k \in 1 .. Len(boot.tags) /\ boot' = boot
        /\ visited' = Append(visited, {k}) /\ tagptr' = Offset(k + 1)
    BY <1>1, TagMet
  <2>2. /\ boot \in Boots /\ visited \in Seq(SUBSET Nat) /\ Len(boot.tags) \in Nat
        /\ \A j \in 1 .. Len(visited) : visited[j] = {j}
    BY BootIs DEF SearchInv
  <2>3. /\ visited' \in Seq(SUBSET Nat) /\ Len(visited') = k
        /\ \A j \in 1 .. k : visited'[j] = {j}
    BY <2>1, <2>2
  <2>4. Len(visited') \in 0 .. Len(boot'.tags) /\ tagptr' = Offset(Len(visited) + 1)'
    BY <2>1, <2>2, <2>3 DEF Offset
  <2>6. tasks' \in Seq(Nat)
    BY <1>1, TasksPlaced
  <2>7. Len(tasks') <= TASK_FIFO_LEN /\ \E place : Places(place)'
    BY <1>1, TasksPlaced
  <2>8. boot' \in Boots /\ \A j \in 1 .. Len(visited') : visited'[j] = {j}
    BY <2>1, <2>2, <2>3
  <2> QED
    BY <2>3, <2>4, <2>6, <2>7, <2>8 DEF SearchInv
<1>2. CASE UNCHANGED searchVars
  <2>1. \A place : Places(place)' <=> Places(place)
    BY <1>2 DEF searchVars, Places, Making, TaskAt, HeadersIn
  <2> QED
    BY <1>2, <2>1 DEF SearchInv, searchVars, Offset
<1> QED
  BY <1>1, <1>2 DEF SearchNext

(* Before the first tag.                                                   *)
LEMMA SearchBegins == ASSUME SearchInit PROVE SearchInv
<1>1. boot \in Boots /\ tagptr = 8 /\ visited = <<>> /\ tasks = <<>>
  BY DEF SearchInit
<1>2. /\ Len(boot.tags) \in Nat /\ TASK_FIFO_LEN \in Nat /\ TagsFollow(boot)
  BY <1>1, TaskSearchAssumption
<1>3. tagptr = Offset(1)
  BY <1>1, <1>2 DEF TagsFollow, Offset
<1>4. /\ tasks \in Seq(Nat) /\ visited \in Seq(SUBSET Nat) /\ Len(visited) = 0 /\ Len(tasks) = 0
  BY <1>1
<1>5. Making = {}
  BY <1>4 DEF Making
<1>6. Places([i \in 1 .. Len(tasks) |-> 0])
  BY <1>4, <1>5 DEF Places
<1> QED
  BY <1>1, <1>2, <1>3, <1>4, <1>6 DEF SearchInv

(* For any number of tags of any sizes, modules and headers: load_tasks    *)
(* meets each tag once, in order, and makes its tasks of the first modules *)
(* with a header, each at its first one, or of a length that is no         *)
(* multiple of 8, past their end (task.c:99-137 and 184-201).              *)
THEOREM SearchFindsTasks == SearchSpec => []TasksFound
<1>1. SearchInv => TasksFound
  <2>1. SUFFICES ASSUME SearchInv PROVE TasksFound
    OBVIOUS
  <2>2. \A k \in 1 .. Len(visited) : visited[k] = {k}
    BY <2>1 DEF SearchInv
  <2>3. tagptr >= boot.total_size => Len(visited) = Len(boot.tags)
    <3>1. Len(visited) \in 0 .. Len(boot.tags) /\ tagptr = Offset(Len(visited) + 1)
      BY <2>1 DEF SearchInv
    <3>2. CASE Len(visited) < Len(boot.tags)
      <4>1. Offset(Len(boot.tags) + 1) = boot.total_size
        BY DEF Offset
      <4>2. Len(visited) + 1 \in 1 .. Len(boot.tags) + 1 /\ Len(boot.tags) + 1 \in 1 .. Len(boot.tags) + 1
        BY <2>1, <3>1, <3>2, BootIs
      <4>3. Offset(Len(visited) + 1) < Offset(Len(boot.tags) + 1)
        BY <2>1, <3>1, <3>2, <4>2, BootIs
      <4>4. tagptr \in Nat /\ boot.total_size \in Nat
        BY <2>1, <3>1, <4>2, BootIs
      <4> QED
        BY <3>1, <4>1, <4>3, <4>4
    <3> QED
      BY <2>1, <3>1, <3>2, BootIs
  <2>4. Len(tasks) <= TASK_FIFO_LEN /\ \E place : Places(place)
    BY <2>1 DEF SearchInv
  <2> QED
    BY <2>2, <2>3, <2>4 DEF TasksFound, Places
<1>2. SearchInit => SearchInv
  BY SearchBegins
<1>3. SearchInv /\ [SearchNext]_searchVars => SearchInv'
  BY SearchKeeps
<1> QED
  BY <1>1, <1>2, <1>3, PTL DEF SearchSpec
-------------------------------------------------------------------------------
(* What the tags before tag k said is in info.                             *)
Known(k) ==
  /\ (\E j \in 1 .. k - 1 : file.tags[j].type = "address") => info.address = file.address
  /\ (\E j \in 1 .. k - 1 : file.tags[j].type = "entry") => info.entry = file.entry

ImageInPlace ==
  LET a == file.address
      shift == file.head - a.header_addr
  IN /\ memory[a.header_addr] = file.head
     /\ \A x \in Words(a.load_addr, a.load_end_addr) : memory[x] = x + shift
     /\ \A x \in Words(a.load_end_addr, a.bss_end_addr) : memory[x] = Zero

TooShort ==
  \/ file.address.load_end_addr + (file.head - file.address.header_addr) > file.size
  \/ file.address.load_end_addr > PHYSICAL_MEMORY

(* What is known of every file: main passes no header it has read whole,   *)
(* and stops at no other.                                                  *)
HeaderSought ==
  /\ stage = "search" =>
       /\ off \in Nat /\ off % 4 = 0
       /\ \A i \in 0 .. off - 1 : i % 4 = 0 => i # file.head \/ ~WasRead(i, 16)
  /\ stage = "invalid" => file.head \notin 0 .. Searched - 16
  /\ stage \in {"extract", "load", "entered", "unable", "crash"} =>
       info.header_off = file.head \/ ~WasRead(info.header_off, 16)

(* What is known when the header and its tags were read whole: off at a    *)
(* tag or past the header, then what load_multiboot2 did.                  *)
ReadInv ==
  LET a == file.address
  IN /\ stage \in {"extract", "load", "entered", "unable", "crash"} => info.header_off = file.head
     /\ stage = "extract" =>
          /\ off \in Nat
          /\ \/ \E k \in 1 .. Len(file.tags) : off = file.tags[k].at /\ Known(k)
             \/ off >= file.length /\ Known(Len(file.tags) + 1)
     /\ stage \in {"load", "entered", "unable", "crash"} =>
          info.address = a /\ info.entry = file.entry
     /\ stage = "entered" => ImageInPlace
     /\ stage = "unable" => TooShort
     /\ stage = "crash" => a.bss_end_addr < a.load_end_addr \/ a.bss_end_addr > PHYSICAL_MEMORY

LoaderInv ==
  /\ file \in Files
  /\ info = [header_off |-> info.header_off, address |-> info.address, entry |-> info.entry]
  /\ stage \in {"search", "invalid", "extract", "load", "entered", "unable", "crash"}
  /\ HeaderSought
  /\ HeaderRead => ReadInv

(* What entry.S and the linker give.                                       *)
LEMMA FileIs ==
  ASSUME file \in Files
  PROVE  /\ SEARCH_ZONE_LEN \in Nat /\ PHYSICAL_MEMORY \in Nat /\ file.address # Unset
         /\ file.size \in Nat /\ file.length \in Nat
         /\ file.magics \subseteq Nat /\ Len(file.tags) \in Nat
         /\ \A k \in 1 .. Len(file.tags) : file.tags[k].at \in Nat /\ file.tags[k].size \in Nat
         /\ file.address.header_addr \in Nat /\ file.address.load_addr \in Nat
         /\ file.address.load_end_addr \in Nat /\ file.address.bss_end_addr \in Nat
         /\ file.head # NoHeader => TagsLaidOut(file) /\ HeaderInImage(file)
<1>1. /\ SEARCH_ZONE_LEN \in Nat /\ PHYSICAL_MEMORY \in Nat
      /\ file.size \in Nat /\ file.length \in Nat /\ file.magics \subseteq Nat
      /\ file.tags \in Seq([type : STRING, at : Nat, size : Nat])
      /\ file.address \in [header_addr : Nat, load_addr : Nat,
                            load_end_addr : Nat, bss_end_addr : Nat]
      /\ file.head # NoHeader => TagsLaidOut(file) /\ HeaderInImage(file)
  BY KernelLoaderAssumption DEF Address
<1>2. ASSUME NEW k \in 1 .. Len(file.tags)
      PROVE  file.tags[k].at \in Nat /\ file.tags[k].size \in Nat
  <2>1. file.tags[k] \in [type : STRING, at : Nat, size : Nat]
    BY <1>1, <1>2, Element
  <2> QED
    BY <2>1
<1>3. Len(file.tags) \in Nat
  BY <1>1
<1>4. file.address # Unset
  <2>1. DOMAIN file.address = {"header_addr", "load_addr", "load_end_addr", "bss_end_addr"}
    BY <1>1
  <2>2. DOMAIN Unset = {}
    BY DEF Unset
  <2> QED
    BY <2>1, <2>2
<1> QED
  BY <1>1, <1>2, <1>3, <1>4

(* The header starts on a word and has room for a tag.                     *)
LEMMA HeaderIs ==
  ASSUME file \in Files, file.head # NoHeader
  PROVE  /\ file.head \in Nat /\ file.head \in file.magics /\ file.head % 4 = 0
         /\ Len(file.tags) \in Nat /\ Len(file.tags) > 0 /\ file.tags[1].at = 16
         /\ file.length \in Nat /\ file.length >= 24
<1>1. /\ file.head \in Nat /\ file.head \in file.magics /\ file.head % 4 = 0
  BY FileIs DEF HeaderInImage
<1>2. /\ Len(file.tags) \in Nat /\ Len(file.tags) > 0 /\ file.tags[1].at = 16
      /\ file.length \in Nat
  BY FileIs DEF TagsLaidOut
<1>3. 1 \in 1 .. Len(file.tags)
  BY <1>2
<1>4. file.tags[1].size >= 8 /\ file.tags[1].at + file.tags[1].size <= file.length
  BY <1>3, FileIs DEF TagsLaidOut, TagEnd
<1>5. file.tags[1].size \in Nat
  BY <1>3, FileIs
<1> QED
  BY <1>1, <1>2, <1>4, <1>5

(* The rounding of the code and the one of the assembler.                  *)
LEMMA Rounded ==
  ASSUME NEW n \in Nat
  PROVE  /\ NextOffset(n) \in Nat /\ NextOffset(n) >= n
         /\ \A p \in n .. n + 7 : p % 8 = 0 => NextOffset(n) = p
BY DEF NextOffset

(* The search goes on only past words that are not the header.             *)
LEMMA SearchStep == ASSUME LoaderInv, Search PROVE LoaderInv'
<1>1. /\ stage = "search" /\ file' = file /\ memory' = memory /\ file \in Files /\ off \in Nat
      /\ off % 4 = 0
      /\ \A i \in 0 .. off - 1 : i % 4 = 0 => i # file.head \/ ~WasRead(i, 16)
      /\ info = [header_off |-> info.header_off, address |-> info.address, entry |-> info.entry]
  BY DEF LoaderInv, HeaderSought, Search
<1>2. file.head # NoHeader =>
        file.head \in Nat /\ file.head \in file.magics /\ file.head % 4 = 0
  BY <1>1, HeaderIs
<1>3. Searched \in Nat /\ Searched' = Searched /\ HeaderRead' = HeaderRead
  BY <1>1, FileIs DEF Searched, HeaderRead
<1>4. CASE off >= Searched /\ stage' = "invalid" /\ UNCHANGED <<off, info>>
  <2>1. file.head \notin 0 .. Searched - 16
    BY <1>1, <1>2, <1>3, <1>4 DEF WasRead, NoHeader
  <2>2. HeaderSought' /\ ReadInv'
    BY <1>1, <1>3, <1>4, <2>1 DEF HeaderSought, ReadInv
  <2> QED
    BY <1>1, <1>4, <2>2 DEF LoaderInv
<1>5. CASE off < Searched /\ FALSE \in IsHeader(off) /\ off' = off + 4 /\ UNCHANGED <<stage, info>>
  <2>1. off # file.head \/ ~WasRead(off, 16)
    <3>1. SUFFICES ASSUME off = file.head, WasRead(off, 16) PROVE FALSE
      OBVIOUS
    <3>2. off \in file.magics
      BY <1>1, <1>2, <3>1 DEF NoHeader
    <3>3. IsHeader(off) = {TRUE}
      BY <3>1, <3>2 DEF IsHeader
    <3> QED
      BY <1>5, <3>3
  <2>2. off' \in Nat /\ off' % 4 = 0
    BY <1>1, <1>5
  <2>3. \A i \in 0 .. off' - 1 : i % 4 = 0 => i \in 0 .. off - 1 \/ i = off
    BY <1>1, <1>5
  <2>4. \A i \in 0 .. off' - 1 : i % 4 = 0 => i # file'.head \/ ~WasRead(i, 16)'
    BY <1>1, <1>3, <2>1, <2>3 DEF WasRead
  <2>5. HeaderSought' /\ ReadInv'
    BY <1>1, <1>5, <2>2, <2>4 DEF HeaderSought, ReadInv
  <2> QED
    BY <1>1, <1>5, <2>5 DEF LoaderInv
<1>6. CASE /\ off < Searched /\ TRUE \in IsHeader(off) /\ stage' = "extract" /\ off' = 16
           /\ info' = [info EXCEPT !.header_off = off]
  <2>1. /\ info'.header_off = off
        /\ info' = [header_off |-> info'.header_off, address |-> info'.address, entry |-> info'.entry]
    BY <1>1, <1>6
  <2>2. off = file.head \/ ~WasRead(off, 16)
    BY <1>1, <1>6 DEF IsHeader
  <2>3. HeaderSought'
    BY <1>1, <1>3, <1>6, <2>1, <2>2 DEF HeaderSought, WasRead
  <2>4. ASSUME HeaderRead PROVE ReadInv'
    <3>1. /\ file.head \in Nat /\ file.head % 4 = 0 /\ Len(file.tags) \in Nat
          /\ Len(file.tags) > 0 /\ file.tags[1].at = 16
          /\ file.length \in Nat /\ file.length >= 24
      BY <1>1, <2>4, HeaderIs DEF HeaderRead
    <3>2. file.head + file.length <= Searched
      BY <2>4 DEF HeaderRead
    <3>3. ~(file.head < off)
      BY <1>1, <1>3, <3>1, <3>2 DEF WasRead
    <3>4. ~(off < file.head)
      BY <1>1, <1>3, <2>2, <3>1, <3>2 DEF WasRead
    <3>5. off = file.head
      BY <1>1, <3>1, <3>3, <3>4
    <3>6. Known(1)'
      BY DEF Known
    <3>7. \E k \in 1 .. Len(file'.tags) : off' = file'.tags[k].at /\ Known(k)'
      BY <1>1, <1>6, <3>1, <3>6
    <3> QED
      BY <1>1, <1>6, <2>1, <3>5, <3>7 DEF ReadInv
  <2> QED
    BY <1>1, <1>3, <1>6, <2>1, <2>3, <2>4 DEF LoaderInv
<1> QED
  BY <1>1, <1>4, <1>5, <1>6 DEF Search

(* A tag read adds what it says to what is known.                          *)
LEMMA KnownGrows ==
  ASSUME NEW k \in Nat, Known(k),
         info'.address = IF file.tags[k].type = "address" THEN file.address ELSE info.address,
         info'.entry = IF file.tags[k].type = "entry" THEN file.entry ELSE info.entry
  PROVE  /\ (\E j \in 1 .. k : file.tags[j].type = "address") => info'.address = file.address
         /\ (\E j \in 1 .. k : file.tags[j].type = "entry") => info'.entry = file.entry
<1> DEFINE type(j) == file.tags[j].type
<1>1. \A j \in 1 .. k : j \in 1 .. k - 1 \/ j = k
  OBVIOUS
<1>2. /\ (\E j \in 1 .. k - 1 : type(j) = "address") => info.address = file.address
      /\ (\E j \in 1 .. k - 1 : type(j) = "entry") => info.entry = file.entry
  BY DEF Known
<1> HIDE DEF type
<1>3. (\E j \in 1 .. k : type(j) = "address") => info'.address = file.address
  BY <1>1, <1>2 DEF type
<1>4. (\E j \in 1 .. k : type(j) = "entry") => info'.entry = file.entry
  BY <1>1, <1>2 DEF type
<1> QED
  BY <1>3, <1>4 DEF type

(* What is known after a step, in the terms of the new state.              *)
LEMMA KnownNext ==
  ASSUME NEW k,
         (\E j \in 1 .. k - 1 : file'.tags[j].type = "address") => info'.address = file'.address,
         (\E j \in 1 .. k - 1 : file'.tags[j].type = "entry") => info'.entry = file'.entry
  PROVE  Known(k)'
BY DEF Known

(* A tag is read where it is, and the next one follows.                    *)
LEMMA ExtractStep == ASSUME LoaderInv, Extract PROVE LoaderInv'
<1>1. /\ stage = "extract" /\ file' = file /\ memory' = memory /\ file \in Files
      /\ info = [header_off |-> info.header_off, address |-> info.address, entry |-> info.entry]
      /\ info.header_off = file.head \/ ~WasRead(info.header_off, 16)
      /\ stage' \in {"extract", "load", "crash"}
  BY DEF LoaderInv, HeaderSought, Extract
<1>2. Searched' = Searched /\ HeaderRead' = HeaderRead
  BY <1>1 DEF Searched, HeaderRead
<1>3. /\ info'.header_off = info.header_off
      /\ info' = [header_off |-> info'.header_off, address |-> info'.address, entry |-> info'.entry]
  <2>1. CASE UNCHANGED info
    BY <1>1, <2>1
  <2>2. CASE \E tag : info' = CASE tag.type = "address" -> [info EXCEPT !.address = tag.address]
                                [] tag.type = "entry"   -> [info EXCEPT !.entry = tag.entry]
                                [] OTHER                -> info
    <3>1. PICK tag : info' = CASE tag.type = "address" -> [info EXCEPT !.address = tag.address]
                               [] tag.type = "entry"   -> [info EXCEPT !.entry = tag.entry]
                               [] OTHER                -> info
      BY <2>2
    <3>2. CASE tag.type = "address"
      BY <1>1, <3>1, <3>2
    <3>3. CASE tag.type = "entry"
      BY <1>1, <3>1, <3>3
    <3>4. CASE tag.type # "address" /\ tag.type # "entry"
      BY <1>1, <3>1, <3>4
    <3> QED
      BY <3>2, <3>3, <3>4
  <2> QED
    BY <2>1, <2>2 DEF Extract
<1>4. HeaderSought'
  BY <1>1, <1>2, <1>3 DEF HeaderSought, WasRead
<1>5. SUFFICES ASSUME HeaderRead PROVE ReadInv'
  BY <1>1, <1>2, <1>3, <1>4 DEF LoaderInv
<1> DEFINE n == Len(file.tags)
<1>6. /\ info.header_off = file.head /\ off \in Nat /\ file.head # NoHeader
      /\ \/ \E k \in 1 .. n : off = file.tags[k].at /\ Known(k)
         \/ off >= file.length /\ Known(n + 1)
      /\ file.head \in Nat /\ file.head + file.length <= Searched /\ Searched \in Nat
  BY <1>1, <1>5, FileIs DEF LoaderInv, ReadInv, HeaderRead, HeaderInImage, Searched
<1>7. /\ n \in Nat /\ file.length \in Nat
      /\ \A k \in 1 .. n : /\ file.tags[k].at \in Nat /\ file.tags[k].size \in Nat
                           /\ file.tags[k].size >= 8
                           /\ file.tags[k].at + file.tags[k].size <= file.length
      /\ n > 0 /\ file.length = file.tags[n].at + file.tags[n].size
      /\ file.tags[1].at = 16
      /\ \A k \in 1 .. n - 1 :
           /\ file.tags[k + 1].at % 8 = 0
           /\ file.tags[k + 1].at \in file.tags[k].at + file.tags[k].size
                                      .. file.tags[k].at + file.tags[k].size + 7
      /\ \A j, k \in 1 .. n : j < k => file.tags[j].at + file.tags[j].size <= file.tags[k].at
      /\ \E j, k \in 1 .. n : file.tags[j].type = "address" /\ file.tags[k].type = "entry"
  BY <1>1, <1>6, FileIs DEF TagsLaidOut, TagEnd
<1>8. WasRead(info.header_off, 16) /\ HeaderLength = {file.length}
  <2>1. file.length >= 24
    BY <1>1, <1>6, HeaderIs
  <2> QED
    BY <1>6, <1>7, <2>1 DEF WasRead, HeaderLength
<1>9. ASSUME NEW k \in 1 .. n, off = file.tags[k].at
      PROVE  TagsRead(off) = {[type |-> file.tags[k].type, size |-> file.tags[k].size,
                               address |-> file.address, entry |-> file.entry]}
  <2>1. \A j \in 1 .. n : file.tags[j].at = off => j = k
    <3>1. ASSUME NEW j \in 1 .. n, file.tags[j].at = off PROVE j = k
      <4>1. /\ file.tags[j].at \in Nat /\ file.tags[j].size >= 8 /\ file.tags[j].size \in Nat
            /\ file.tags[k].at \in Nat /\ file.tags[k].size >= 8 /\ file.tags[k].size \in Nat
        BY <1>7, <1>9, <3>1
      <4>2. /\ j < k => file.tags[j].at + file.tags[j].size <= file.tags[k].at
            /\ k < j => file.tags[k].at + file.tags[k].size <= file.tags[j].at
        BY <1>7, <1>9, <3>1
      <4>3. file.tags[j].at = file.tags[k].at
        BY <1>9, <3>1
      <4>4. ~(j < k) /\ ~(k < j)
        BY <4>1, <4>2, <4>3
      <4> QED
        BY <1>7, <4>4
    <3> QED
      BY <3>1
  <2>2. WasRead(info.header_off + off, file.tags[k].size)
    <3>1. /\ file.tags[k].at \in Nat /\ file.tags[k].size \in Nat
          /\ file.tags[k].at + file.tags[k].size <= file.length
      BY <1>7, <1>9
    <3>2. info.header_off + off + file.tags[k].size <= Searched
      <4>1. /\ info.header_off \in Nat /\ Searched \in Nat /\ file.length \in Nat /\ off \in Nat
            /\ info.header_off + file.length <= Searched
        BY <1>6, <1>7
      <4>2. off + file.tags[k].size <= file.length
        BY <1>9, <3>1
      <4> QED
        BY <3>1, <4>1, <4>2
    <3> QED
      BY <3>2 DEF WasRead
  <2>3. {m \in 1 .. n : /\ file.tags[m].at = off /\ WasRead(info.header_off, 16)
                        /\ WasRead(info.header_off + off, file.tags[m].size)} = {k}
    BY <1>8, <1>9, <2>1, <2>2
  <2>4. {file.tags[m] : m \in {k}} = {file.tags[k]}
    OBVIOUS
  <2> QED
    BY <2>3, <2>4 DEF TagsRead
<1>10. CASE off >= file.length /\ stage' = "load" /\ UNCHANGED <<off, info>>
  <2>1. \A k \in 1 .. n : off # file.tags[k].at
    <3>1. ASSUME NEW k \in 1 .. n PROVE off # file.tags[k].at
      <4>1. /\ file.tags[k].at \in Nat /\ file.tags[k].size >= 8 /\ file.tags[k].size \in Nat
            /\ file.tags[k].at + file.tags[k].size <= file.length
        BY <1>7, <3>1
      <4>2. off \in Nat /\ off >= file.length /\ file.length \in Nat
        BY <1>6, <1>7, <1>10
      <4> QED
        BY <4>1, <4>2
    <3> QED
      BY <3>1
  <2>2. Known(n + 1)
    BY <1>6, <2>1
  <2>3. 1 .. (n + 1) - 1 = 1 .. n
    BY <1>7
  <2>4. info.address = file.address /\ info.entry = file.entry
    BY <1>7, <2>2, <2>3 DEF Known
  <2> QED
    BY <1>1, <1>6, <1>10, <2>4 DEF ReadInv
<1>11. CASE /\ off < file.length /\ UNCHANGED stage
            /\ \E tag \in TagAt(off) :
                 /\ info' = CASE tag.type = "address" -> [info EXCEPT !.address = tag.address]
                              [] tag.type = "entry"   -> [info EXCEPT !.entry = tag.entry]
                              [] OTHER                -> info
                 /\ off' = NextOffset(off + tag.size)
  <2>1. PICK k \in 1 .. n : off = file.tags[k].at /\ Known(k)
    BY <1>6, <1>7, <1>11
  <2>2. PICK tag : tag = [type |-> file.tags[k].type, size |-> file.tags[k].size,
                          address |-> file.address, entry |-> file.entry]
    OBVIOUS
  <2>3. TagAt(off) = {tag}
    BY <1>9, <2>1, <2>2 DEF TagAt
  <2>4. /\ info' = CASE tag.type = "address" -> [info EXCEPT !.address = tag.address]
                     [] tag.type = "entry"   -> [info EXCEPT !.entry = tag.entry]
                     [] OTHER                -> info
        /\ off' = NextOffset(off + tag.size)
    BY <1>11, <2>3
  <2>5. /\ tag.type = file.tags[k].type /\ tag.size = file.tags[k].size
        /\ tag.address = file.address /\ tag.entry = file.entry
    BY <2>2
  <2>6. /\ info'.address = IF file.tags[k].type = "address" THEN file.address ELSE info.address
        /\ info'.entry = IF file.tags[k].type = "entry" THEN file.entry ELSE info.entry
    <3>1. CASE file.tags[k].type = "address"
      BY <1>1, <2>4, <2>5, <3>1
    <3>2. CASE file.tags[k].type = "entry"
      BY <1>1, <2>4, <2>5, <3>2
    <3>3. CASE file.tags[k].type # "address" /\ file.tags[k].type # "entry"
      BY <1>1, <2>4, <2>5, <3>3
    <3> QED
      BY <3>1, <3>2, <3>3
  <2>7. Known(k + 1)'
    <3>1. k \in Nat /\ (k + 1) - 1 = k /\ file' = file
      BY <1>1, <1>7
    <3>2. /\ (\E j \in 1 .. k : file.tags[j].type = "address") => info'.address = file.address
          /\ (\E j \in 1 .. k : file.tags[j].type = "entry") => info'.entry = file.entry
      BY <2>1, <2>6, <3>1, KnownGrows
    <3>3. \A j \in 1 .. (k + 1) - 1 : j \in 1 .. k /\ file'.tags[j] = file.tags[j]
      BY <3>1
    <3>4. file'.address = file.address /\ file'.entry = file.entry
      BY <3>1
    <3>5. (\E j \in 1 .. (k + 1) - 1 : file'.tags[j].type = "address") => info'.address = file'.address
      BY <3>2, <3>3, <3>4
    <3>6. (\E j \in 1 .. (k + 1) - 1 : file'.tags[j].type = "entry") => info'.entry = file'.entry
      BY <3>2, <3>3, <3>4
    <3> QED
      BY <3>5, <3>6, KnownNext
  <2>8. /\ off + tag.size \in Nat /\ off' \in Nat /\ off' >= off + tag.size
    <3>1. tag.size \in Nat
      BY <1>7, <2>5
    <3>2. off \in Nat
      BY <1>6
    <3> DEFINE end == off + tag.size
    <3>3. end \in Nat
      BY <3>1, <3>2
    <3>4. off' = NextOffset(end)
      BY <2>4
    <3> HIDE DEF end
    <3>5. off' \in Nat /\ off' >= end
      BY <3>3, <3>4, Rounded
    <3> QED
      BY <3>3, <3>5 DEF end
  <2>9. CASE k = n
    <3>1. off' >= file.length
      BY <1>7, <2>1, <2>5, <2>8, <2>9
    <3> QED
      BY <1>1, <1>3, <1>6, <1>11, <2>7, <2>8, <2>9, <3>1 DEF ReadInv
  <2>10. CASE k \in 1 .. n - 1
    <3>1. /\ file.tags[k + 1].at % 8 = 0
          /\ file.tags[k + 1].at \in off + tag.size .. off + tag.size + 7
      <4>1. /\ file.tags[k + 1].at % 8 = 0
            /\ file.tags[k + 1].at \in file.tags[k].at + file.tags[k].size
                                       .. file.tags[k].at + file.tags[k].size + 7
        BY <1>7, <2>10
      <4> QED
        BY <2>1, <2>5, <4>1
    <3>2. off' = file.tags[k + 1].at /\ k + 1 \in 1 .. n
      <4>1. NextOffset(off + tag.size) = file.tags[k + 1].at
        BY <2>8, <3>1, Rounded
      <4> QED
        BY <1>7, <2>4, <2>10, <4>1
    <3> QED
      BY <1>1, <1>3, <1>6, <1>11, <2>7, <2>8, <3>2 DEF ReadInv
  <2> QED
    BY <1>7, <2>9, <2>10
<1>12. CASE off < file.length /\ TagsRead(off) = {}
  <2>1. PICK k \in 1 .. n : off = file.tags[k].at
    BY <1>6, <1>7, <1>12
  <2> QED
    BY <1>9, <1>12, <2>1
<1> QED
  BY <1>8, <1>10, <1>11, <1>12 DEF Extract

(* The copy puts each word where the address tag says, or fails on a file  *)
(* or a memory that ends too early.                                        *)
LEMMA LoadStep == ASSUME LoaderInv, Load PROVE LoaderInv'
<1>1. /\ stage = "load" /\ file' = file /\ off' = off /\ info' = info /\ file \in Files
      /\ info = [header_off |-> info.header_off, address |-> info.address, entry |-> info.entry]
      /\ info.header_off = file.head \/ ~WasRead(info.header_off, 16)
      /\ stage' \in {"entered", "unable", "crash"}
  BY DEF LoaderInv, HeaderSought, Load
<1>2. Searched' = Searched /\ HeaderRead' = HeaderRead
  BY <1>1 DEF Searched, HeaderRead
<1>3. HeaderSought'
  BY <1>1, <1>2 DEF HeaderSought, WasRead
<1>4. SUFFICES ASSUME HeaderRead PROVE ReadInv'
  BY <1>1, <1>2, <1>3 DEF LoaderInv
<1> DEFINE a == file.address
           image == Words(a.load_addr, a.load_end_addr)
           bss == Words(a.load_end_addr, a.bss_end_addr)
           mapped == a.load_addr <= a.load_end_addr /\ a.load_end_addr <= PHYSICAL_MEMORY
           fread == /\ a.load_addr < a.load_end_addr /\ Start(a) >= 0
                    /\ Start(a) + a.load_end_addr - a.load_addr <= file.size
           memset == a.bss_end_addr \in a.load_end_addr .. PHYSICAL_MEMORY
<1>5. /\ info.header_off = file.head /\ info.address = a /\ info.entry = file.entry
      /\ file.head # NoHeader
  BY <1>1, <1>4 DEF LoaderInv, ReadInv, HeaderRead
<1>6. /\ a.header_addr \in Nat /\ a.load_addr \in Nat /\ a.load_end_addr \in Nat
      /\ a.bss_end_addr \in Nat /\ file.size \in Nat /\ file.head \in Nat
      /\ PHYSICAL_MEMORY \in Nat /\ a # Unset
      /\ a.header_addr \in image /\ a.header_addr - a.load_addr <= file.head
  BY <1>1, <1>5, FileIs DEF HeaderInImage
<1>7. Start(a) = file.head - (a.header_addr - a.load_addr)
  BY <1>5 DEF Start
<1>8. /\ a.load_end_addr > a.load_addr /\ Start(a) >= 0
      /\ Start(a) + a.load_end_addr - a.load_addr = a.load_end_addr + (file.head - a.header_addr)
  BY <1>6, <1>7 DEF Words
<1>9. AddressSeen = {a}
  BY <1>5, <1>6 DEF AddressSeen
<1>10. CASE /\ stage' = "entered"
            /\ memory' = [x \in image \cup bss |->
                            IF x \in bss THEN Zero ELSE Start(a) + x - a.load_addr]
  <2>1. \A x \in image : x \in Nat /\ x < a.load_end_addr
    BY <1>6 DEF Words
  <2>2. \A x \in bss : x >= a.load_end_addr
    BY <1>6 DEF Words
  <2>3. \A x \in image : x \notin bss
    BY <1>6, <2>1, <2>2
  <2>4. \A x \in image : memory'[x] = x + (file.head - a.header_addr)
    <3>1. ASSUME NEW x \in image PROVE memory'[x] = x + (file.head - a.header_addr)
      <4>1. memory'[x] = Start(a) + x - a.load_addr
        BY <1>10, <2>3, <3>1
      <4>2. x \in Nat
        BY <2>1, <3>1
      <4> QED
        BY <1>6, <1>7, <4>1, <4>2
    <3> QED
      BY <3>1
  <2>5. \A x \in bss : memory'[x] = Zero
    BY <1>10
  <2>6. memory'[a.header_addr] = file.head
    BY <1>6, <2>4
  <2>7. ImageInPlace'
    BY <1>1, <2>4, <2>5, <2>6 DEF ImageInPlace
  <2> QED
    BY <1>1, <1>5, <1>10, <2>7 DEF ReadInv
<1>11. CASE ~(mapped /\ fread) /\ stage' = "unable"
  <2>1. TooShort
    BY <1>6, <1>8, <1>11 DEF TooShort
  <2> QED
    BY <1>1, <1>5, <1>11, <2>1 DEF ReadInv, TooShort
<1>12. CASE ~(mapped /\ (fread => memset)) /\ stage' = "crash"
  <2>1. a.bss_end_addr < a.load_end_addr \/ a.bss_end_addr > PHYSICAL_MEMORY
    BY <1>6, <1>8, <1>12
  <2> QED
    BY <1>1, <1>5, <1>12, <2>1 DEF ReadInv
<1> QED
  BY <1>9, <1>10, <1>11, <1>12 DEF Load

(* A step of main keeps the invariant.                                     *)
LEMMA LoaderKeeps == ASSUME LoaderInv, [LoaderNext]_loaderVars PROVE LoaderInv'
<1>1. CASE UNCHANGED loaderVars
  BY <1>1 DEF LoaderInv, HeaderSought, ReadInv, HeaderRead, WasRead, loaderVars, Searched, Known,
              ImageInPlace, TooShort
<1> QED
  BY <1>1, SearchStep, ExtractStep, LoadStep DEF LoaderNext

(* For any kernel that entry.S and the linker make, any file without a     *)
(* header and any words past those read: main takes no header but the      *)
(* right one before the last 16 bytes, and misses none there; when that    *)
(* header and its tags were all read, what main jumps into is the image,   *)
(* word for word where its address tag says, and main ends otherwise only  *)
(* on a file or a memory too short or a bss out of its bounds              *)
(* (multiboot2.c:53-156).                                                  *)
THEOREM KernelLoadedInPlace == LoaderSpec => []LoadedInPlace
<1>1. LoaderInv => LoadedInPlace
  BY DEF LoaderInv, HeaderSought, ReadInv, LoadedInPlace, ImageInPlace, TooShort
<1>2. LoaderInit => LoaderInv
  BY DEF LoaderInit, LoaderInv, HeaderSought, ReadInv
<1>3. LoaderInv /\ [LoaderNext]_loaderVars => LoaderInv'
  BY LoaderKeeps
<1> QED
  BY <1>1, <1>2, <1>3, PTL DEF LoaderSpec
-------------------------------------------------------------------------------
(* The chain of the links that begins at first holds the elements S, which *)
(* come in the order of their ranks.                                       *)
Chained(links, first, S, rank) ==
  /\ first \in S \cup {NULL}
  /\ \A u \in S : links[u] \in S \cup {NULL} /\ (links[u] # NULL => rank[u] < rank[links[u]])
  /\ \A v \in S : v = first \/ \E u \in S : links[u] = v

Part(S, mod, j) == {v \in S : v % mod = j}

IsMap(m) ==
  /\ m = [nodes |-> m.nodes, mod |-> m.mod, nb_elment |-> m.nb_elment]
  /\ m.mod \in Nat \ {0} /\ m.nb_elment \in Nat
  /\ m.nodes \in [0 .. m.mod - 1 -> Values \cup {NULL}]

(* Each element of S is in the chain of its own bucket of m.               *)
Holds(links, m, S, rank) ==
  /\ IsMap(m) /\ S \subseteq Values /\ rank \in [Values -> Nat]
  /\ \A j \in 0 .. m.mod - 1 : Chained(links, m.nodes[j], Part(S, m.mod, j), rank)
  /\ m.nb_elment = Cardinality(S) /\ \A v \in S : rank[v] < m.nb_elment

Map == IF walk.map = "hm" THEN hm ELSE helper

(* The calls of recurse_apply that have an element.                        *)
Calls == IF walk.down THEN Len(walk.path) - 1 ELSE Len(walk.path)

PointerPlaces == {"hm", "helper", "next"} \X Nat

(* hashmap_apply has still to do with the elements L: those of the calls   *)
(* in progress, of the rest of their chain and of the buckets after.       *)
Walking(L, rank) ==
  /\ walk = [func |-> walk.func, map |-> walk.map, i |-> walk.i,
             path |-> walk.path, down |-> walk.down]
  /\ walk.func \in {"hash", "print"} /\ walk.map = IF walk.func = "hash" THEN "helper" ELSE "hm"
  /\ walk.down \in BOOLEAN /\ walk.path \in Seq(PointerPlaces)
  /\ IsMap(Map) /\ walk.i \in 0 .. Map.mod - 1
  /\ \A v \in L : walk.i <= v % Map.mod
  /\ \A j \in walk.i + 1 .. Map.mod - 1 : Chained(next, Map.nodes[j], Part(L, Map.mod, j), rank)
  /\ Len(walk.path) > 0 => walk.path[1] = <<walk.map, walk.i>>
  /\ \A k \in 2 .. Len(walk.path) : walk.path[k] = <<"next", At(walk.path[k - 1])>>
  /\ \A k \in 1 .. Calls : At(walk.path[k]) \in Part(L, Map.mod, walk.i)
  /\ \A j, k \in 1 .. Calls : j < k => rank[At(walk.path[j])] < rank[At(walk.path[k])]
  /\ walk.down =>
       walk.path # <<>> /\ Chained(next, Map.nodes[walk.i], Part(L, Map.mod, walk.i), rank)
  /\ ~walk.down =>
       \A v \in Part(L, Map.mod, walk.i) : \E k \in 1 .. Calls : v = At(walk.path[k])

Texts == {buf.text[i] : i \in 1 .. Len(buf.text)}

BufferKept ==
  /\ buf = [text |-> buf.text, cursor |-> buf.cursor, top |-> buf.top]
  /\ buf.text \in Seq(Values) /\ buf.cursor \in Nat /\ buf.top \in Nat
  /\ \A i, j \in 1 .. Len(buf.text) : i # j => buf.text[i] # buf.text[j]
  /\ \/ buf.top = 0 /\ buf.cursor = 0
     \/ buf.top >= Slack /\ buf.cursor + 1 <= buf.top

Rehashing == walk.func = "hash"

Settled(L) == IF Rehashing THEN inserted \ L ELSE inserted

(* L is what the walk in progress has still to do with.                    *)
HashState(L, rank) ==
  /\ next \in [Values -> Values \cup {NULL}]
  /\ inserted \subseteq Values /\ L \subseteq inserted /\ rank \in [Values -> Nat]
  /\ IsMap(helper) /\ ~Crowded(hm)
  /\ Holds(next, hm, Settled(L), rank)
  /\ walk = Idle \/ Walking(L, rank)
  /\ walk = Idle => L = {}
  /\ Rehashing => /\ hm.mod = 2 * helper.mod
                  /\ Cardinality(inserted) <= 2 * helper.mod + 1
  /\ walk.func = "print" => Texts \cup L = inserted /\ Texts \cap L = {}

HashInv == BufferKept /\ \E L, rank : HashState(L, rank)
-------------------------------------------------------------------------------
(* The elements of a chain are those met from its beginning.               *)
LEMMA MembersClosed ==
  ASSUME NEW loc, next \in [Values -> Values \cup {NULL}]
  PROVE  /\ Members(loc) \subseteq Values
         /\ At(loc) \in Values => At(loc) \in Members(loc)
         /\ \A u \in Members(loc) : next[u] # NULL => next[u] \in Members(loc)
<1>1. \A v \in Values : v # NULL
  BY HashmapAssumption DEF NULL
<1>2. \A u \in Values : next[u] # NULL => next[u] \in Values
  OBVIOUS
<1>3. Members(loc) \subseteq Values
  BY DEF Members
<1>4. At(loc) \in Values => At(loc) \in Members(loc)
  BY <1>1 DEF Members
<1>5. ASSUME NEW u \in Members(loc), next[u] # NULL PROVE next[u] \in Members(loc)
  <2>1. next[u] \in Values
    BY <1>2, <1>3, <1>5
  <2>2. ASSUME NEW S \in SUBSET Values, At(loc) \in S \cup {NULL}, Linked(S) PROVE next[u] \in S
    <3>1. u \in S
      BY <2>2 DEF Members
    <3> QED
      BY <1>5, <2>2, <3>1 DEF Linked
  <2> QED
    BY <2>1, <2>2 DEF Members
<1> QED
  BY <1>3, <1>4, <1>5

(* A property of every element of a chain, from the least that lacks it.   *)
LEMMA FirstWithout ==
  ASSUME NEW S, S \subseteq Values, NEW T, NEW rank \in [Values -> Nat], NEW v0 \in S, v0 \notin T
  PROVE  \E v \in S \ T : \A u \in S : rank[u] < rank[v] => u \in T
<1> DEFINE R == {rank[v] : v \in S \ T}
<1>1. R \subseteq Nat /\ R # {}
  OBVIOUS
<1>2. PICK n \in R : \A m \in R : n <= m
  <2> HIDE DEF R
  <2> QED
    BY <1>1, Least
<1>3. PICK v \in S \ T : n = rank[v]
  BY <1>2
<1>4. ASSUME NEW u \in S, rank[u] < rank[v] PROVE u \in T
  <2>1. SUFFICES ASSUME u \notin T PROVE FALSE
    OBVIOUS
  <2>2. n <= rank[u]
    BY <1>2, <1>4, <2>1
  <2>3. rank[u] \in Nat /\ rank[v] \in Nat
    BY <1>3, <1>4
  <2> QED
    BY <1>3, <1>4, <2>2, <2>3
<1> QED
  BY <1>3, <1>4

(* The elements met from the beginning of a chain are its elements.        *)
LEMMA MembersAre ==
  ASSUME NEW loc, NEW S, S \subseteq Values, NEW rank \in [Values -> Nat],
         next \in [Values -> Values \cup {NULL}], Chained(next, At(loc), S, rank)
  PROVE  Members(loc) = S
<1>1. Members(loc) \subseteq S
  <2>1. S \in SUBSET Values /\ At(loc) \in S \cup {NULL} /\ Linked(S)
    BY DEF Chained, Linked
  <2> QED
    BY <2>1 DEF Members
<1>2. ASSUME NEW v0 \in S, v0 \notin Members(loc) PROVE FALSE
  <2>1. PICK v \in S \ Members(loc) : \A u \in S : rank[u] < rank[v] => u \in Members(loc)
    BY <1>2, FirstWithout
  <2>2. v \in Values /\ v # NULL
    BY <2>1, HashmapAssumption DEF NULL
  <2>3. v # At(loc)
    BY <2>1, <2>2, MembersClosed
  <2>4. PICK u \in S : next[u] = v
    BY <2>1, <2>3 DEF Chained
  <2>5. rank[u] < rank[v]
    BY <2>2, <2>4 DEF Chained
  <2>6. u \in Members(loc)
    BY <2>1, <2>5
  <2> QED
    BY <2>1, <2>2, <2>4, <2>6, MembersClosed
<1> QED
  BY <1>1, <1>2

(* A chain ends.                                                           *)
LEMMA EndIs ==
  ASSUME NEW loc, NEW S, S \subseteq Values, NEW rank \in [Values -> Nat], NEW n \in Nat,
         next \in [Values -> Values \cup {NULL}], Chained(next, At(loc), S, rank),
         \A v \in S : rank[v] < n
  PROVE  \/ End(loc) = loc /\ At(loc) = NULL /\ S = {}
         \/ \E u \in S : End(loc) = <<"next", u>> /\ next[u] = NULL
<1>1. Members(loc) = S
  BY MembersAre
<1>2. \A u : At(<<"next", u>>) = next[u]
  BY DEF At
<1>3. \A v \in Values : v # NULL
  BY HashmapAssumption DEF NULL
<1>4. CASE S = {}
  <2>1. At(loc) = NULL
    BY <1>4 DEF Chained
  <2>2. End(loc) = CHOOSE l \in {loc} : At(l) = NULL
    BY <1>1, <1>4 DEF End
  <2> QED
    BY <1>4, <2>1, <2>2
<1>5. CASE S # {}
  <2>1. At(loc) # NULL
    <3>1. SUFFICES ASSUME At(loc) = NULL PROVE FALSE
      OBVIOUS
    <3>2. PICK v \in S : \A u \in S : ~(rank[u] < rank[v])
      <4>1. PICK T : T = {}
        OBVIOUS
      <4>2. PICK v0 \in S : v0 \notin T
        BY <1>5, <4>1
      <4>3. \E v \in S \ T : \A u \in S : rank[u] < rank[v] => u \in T
        BY <4>2, FirstWithout
      <4> QED
        BY <4>1, <4>3
    <3>3. PICK u \in S : next[u] = v
      BY <1>3, <3>1, <3>2 DEF Chained
    <3> QED
      BY <1>3, <3>2, <3>3 DEF Chained
  <2>2. PICK u \in S : next[u] = NULL
    <3> DEFINE R == {n - rank[v] : v \in S}
    <3>1. R \subseteq Nat /\ R # {}
      BY <1>5
    <3>2. PICK r \in R : \A q \in R : r <= q
      <4> HIDE DEF R
      <4> QED
        BY <3>1, Least
    <3>3. PICK u \in S : r = n - rank[u]
      BY <3>2
    <3>4. SUFFICES ASSUME next[u] # NULL PROVE FALSE
      BY <3>3
    <3>5. next[u] \in S /\ rank[u] < rank[next[u]]
      BY <3>4 DEF Chained
    <3>6. r <= n - rank[next[u]]
      BY <3>2, <3>5
    <3>7. rank[u] \in Nat /\ rank[next[u]] \in Nat
      BY <3>5
    <3> QED
      BY <3>3, <3>5, <3>6, <3>7
  <2>3. End(loc) = CHOOSE l \in {loc} \cup {<<"next", v>> : v \in S} : At(l) = NULL
    BY <1>1 DEF End
  <2>4. /\ End(loc) \in {loc} \cup {<<"next", v>> : v \in S} /\ At(End(loc)) = NULL
    <3>1. <<"next", u>> \in {loc} \cup {<<"next", v>> : v \in S} /\ At(<<"next", u>>) = NULL
      BY <1>2, <2>2
    <3> QED
      BY <2>3, <3>1
  <2> QED
    BY <1>2, <2>1, <2>4
<1> QED
  BY <1>4, <1>5
-------------------------------------------------------------------------------
(* hash puts an element that was not there at the end of the chain of its  *)
(* bucket and counts it.                                                   *)
LEMMA Linking ==
  ASSUME NEW M, NEW rank, Holds(next, hm, M, rank), NEW v \in Values, v \notin M,
         next \in [Values -> Values \cup {NULL}],
         next' = NewLinks(End(Bucket(v)), v), NEW m, m = NewMap(End(Bucket(v)), v),
         NEW rank2, rank2 = [rank EXCEPT ![v] = hm.nb_elment]
  PROVE  /\ ~has_elmt(v)
         /\ next' \in [Values -> Values \cup {NULL}]
         /\ \A u \in Values \ (M \cup {v}) : next'[u] = next[u]
         /\ Holds(next', m, M \cup {v}, rank2) /\ m.mod = hm.mod /\ m.nb_elment = hm.nb_elment + 1
<1> DEFINE b == v % hm.mod
           P(j) == Part(M, hm.mod, j)
           P2(j) == Part(M \cup {v}, hm.mod, j)
<1>1. /\ hm = [nodes |-> hm.nodes, mod |-> hm.mod, nb_elment |-> hm.nb_elment]
      /\ hm.mod \in Nat \ {0} /\ hm.nb_elment \in Nat
      /\ hm.nodes \in [0 .. hm.mod - 1 -> Values \cup {NULL}]
      /\ M \subseteq Values /\ rank \in [Values -> Nat]
      /\ \A j \in 0 .. hm.mod - 1 : Chained(next, hm.nodes[j], P(j), rank)
      /\ hm.nb_elment = Cardinality(M) /\ \A u \in M : rank[u] < hm.nb_elment
  BY DEF Holds, IsMap
<1>2. Values \subseteq Nat /\ v \in Nat /\ v # NULL /\ IsFiniteSet(Values)
  BY HashmapAssumption DEF NULL
<1>3. b \in 0 .. hm.mod - 1
  BY <1>1, <1>2
<1>4. Bucket(v) = <<"hm", b>> /\ At(Bucket(v)) = hm.nodes[b]
  BY DEF Bucket, At
<1>5. Chained(next, At(Bucket(v)), P(b), rank) /\ P(b) \subseteq M /\ P(b) \subseteq Values
  BY <1>1, <1>3, <1>4 DEF Part
<1>6. Members(Bucket(v)) = P(b)
  <2> HIDE DEF P, b
  <2> QED
    BY <1>1, <1>5, MembersAre
<1>7. ~has_elmt(v)
  BY <1>5, <1>6 DEF has_elmt
<1>8. PICK loc : loc = End(Bucket(v))
  OBVIOUS
<1>9. \/ loc = <<"hm", b>> /\ hm.nodes[b] = NULL /\ P(b) = {}
      \/ \E u \in P(b) : loc = <<"next", u>> /\ next[u] = NULL
  <2>1. \A u \in P(b) : rank[u] < hm.nb_elment
    BY <1>1, <1>5
  <2> HIDE DEF P, b
  <2> QED
    BY <1>1, <1>4, <1>5, <1>8, <2>1, EndIs
<1>10. /\ next' = [u \in Values |-> IF loc = <<"next", u>> THEN v ELSE IF u = v THEN NULL ELSE next[u]]
       /\ m = [nodes |-> [i \in 0 .. hm.mod - 1 |-> IF loc = <<"hm", i>> THEN v ELSE hm.nodes[i]],
                mod |-> hm.mod, nb_elment |-> hm.nb_elment + 1]
  BY <1>1, <1>8 DEF NewLinks, NewMap
<1>11. \A u \in Values : next'[u] = IF loc = <<"next", u>> THEN v ELSE IF u = v THEN NULL ELSE next[u]
  BY <1>10
<1>12. \A u \in Values : loc = <<"next", u>> => u \in P(b) /\ next[u] = NULL
  BY <1>9
<1>13. next'[v] = NULL /\ loc # <<"next", v>>
  BY <1>5, <1>11, <1>12
<1>14. next' \in [Values -> Values \cup {NULL}]
  BY <1>10
<1>15. \A u \in Values \ (M \cup {v}) : next'[u] = next[u]
  BY <1>5, <1>11, <1>12
<1>16. /\ IsMap(m) /\ m.mod = hm.mod /\ m.nb_elment = hm.nb_elment + 1
       /\ \A i \in 0 .. hm.mod - 1 : m.nodes[i] = IF loc = <<"hm", i>> THEN v ELSE hm.nodes[i]
  BY <1>1, <1>10 DEF IsMap
<1>17. /\ rank2 \in [Values -> Nat] /\ rank2[v] = hm.nb_elment
       /\ \A u \in M : rank2[u] = rank[u]
  BY <1>1
<1>18. Cardinality(M \cup {v}) = m.nb_elment
  <2>1. IsFiniteSet(M)
    BY <1>1, <1>2, FS_Subset
  <2>2. Cardinality(M \cup {v}) = IF v \in M THEN Cardinality(M) ELSE Cardinality(M) + 1
    BY <2>1, FS_AddElement
  <2> QED
    BY <1>1, <1>16, <2>2
<1>19. \A u \in M \cup {v} : rank2[u] < m.nb_elment
  BY <1>1, <1>16, <1>17
<1> HIDE DEF b
<1>20. ASSUME NEW j \in 0 .. hm.mod - 1, j # b PROVE Chained(next', m.nodes[j], P2(j), rank2)
  <2>1. P2(j) = P(j) /\ P(j) \subseteq M
    BY <1>20 DEF Part, b
  <2>2. m.nodes[j] = hm.nodes[j]
    BY <1>9, <1>16, <1>20
  <2>3. \A u \in P(j) : next'[u] = next[u]
    <3>1. \A u \in P(j) : u # v /\ u \notin P(b) /\ u \in Values
      BY <1>1, <1>20 DEF Part, b
    <3> QED
      BY <1>11, <1>12, <3>1
  <2>4. Chained(next, hm.nodes[j], P(j), rank)
    BY <1>1
  <2>5. \A u \in P(j) : next[u] # NULL => rank2[u] < rank2[next[u]]
    BY <1>17, <2>1, <2>4 DEF Chained
  <2> HIDE DEF P, P2
  <2> QED
    BY <2>1, <2>2, <2>3, <2>4, <2>5 DEF Chained
<1>21. Chained(next', m.nodes[b], P2(b), rank2)
  <2>1. P2(b) = P(b) \cup {v} /\ v \notin P(b)
    BY <1>5 DEF Part, b
  <2>2. /\ hm.nodes[b] \in P(b) \cup {NULL}
        /\ \A u \in P(b) : next[u] \in P(b) \cup {NULL} /\ (next[u] # NULL => rank[u] < rank[next[u]])
        /\ \A w \in P(b) : w = hm.nodes[b] \/ \E u \in P(b) : next[u] = w
    BY <1>4, <1>5 DEF Chained
  <2>3. \A u \in P(b) : u \in Values /\ u # v /\ u \in M
    BY <1>5, <2>1
  <2> HIDE DEF P, P2
  <2>4. \A u \in P2(b) : next'[u] \in P2(b) \cup {NULL} /\ (next'[u] # NULL => rank2[u] < rank2[next'[u]])
    <3>1. ASSUME NEW u \in P(b)
          PROVE  next'[u] \in P2(b) \cup {NULL} /\ (next'[u] # NULL => rank2[u] < rank2[next'[u]])
      <4>1. CASE loc = <<"next", u>>
        BY <1>1, <1>11, <1>17, <2>1, <2>3, <3>1, <4>1
      <4>2. CASE loc # <<"next", u>>
        <5>1. next'[u] = next[u]
          BY <1>11, <2>3, <3>1, <4>2
        <5> QED
          BY <1>17, <2>1, <2>2, <2>3, <3>1, <5>1
      <4> QED
        BY <4>1, <4>2
    <3> QED
      BY <1>13, <2>1, <3>1
  <2>5. CASE loc = <<"hm", b>> /\ hm.nodes[b] = NULL /\ P(b) = {}
    <3>1. m.nodes[b] = v
      BY <1>3, <1>16, <2>5
    <3> QED
      BY <2>1, <2>4, <2>5, <3>1 DEF Chained
  <2>6. ASSUME NEW u0 \in P(b), loc = <<"next", u0>>, next[u0] = NULL
        PROVE  Chained(next', m.nodes[b], P2(b), rank2)
    <3>1. m.nodes[b] = hm.nodes[b]
      BY <1>3, <1>16, <2>6
    <3>2. next'[u0] = v
      BY <1>11, <2>3, <2>6
    <3>3. ASSUME NEW w \in P(b), w # hm.nodes[b] PROVE \E u \in P2(b) : next'[u] = w
      <4>1. PICK u \in P(b) : next[u] = w
        BY <2>2, <3>3
      <4>2. w # NULL
        BY <1>2, <2>3, <3>3, HashmapAssumption DEF NULL
      <4>3. loc # <<"next", u>>
        BY <1>12, <2>3, <4>1, <4>2
      <4>4. next'[u] = w
        BY <1>11, <2>3, <4>1, <4>3
      <4> QED
        BY <2>1, <4>4
    <3> QED
      BY <2>1, <2>2, <2>4, <2>6, <3>1, <3>2, <3>3 DEF Chained
  <2> QED
    BY <1>9, <2>5, <2>6
<1>22. \A j \in 0 .. m.mod - 1 : Chained(next', m.nodes[j], P2(j), rank2)
  BY <1>16, <1>20, <1>21
<1>23. Holds(next', m, M \cup {v}, rank2)
  <2>1. M \cup {v} \subseteq Values
    BY <1>1
  <2> QED
    BY <1>16, <1>17, <1>18, <1>19, <1>22, <2>1 DEF Holds
<1> QED
  BY <1>7, <1>14, <1>15, <1>16, <1>23
-------------------------------------------------------------------------------
(* The calls in progress: their elements, and their first location.        *)
LEMMA WalkIs ==
  ASSUME NEW L, NEW rank, Walking(L, rank)
  PROVE  /\ walk.path \in Seq(PointerPlaces) /\ Len(walk.path) \in Nat
         /\ Map.mod \in Nat \ {0} /\ walk.i \in 0 .. Map.mod - 1 /\ walk.i \in Nat
         /\ Map.nodes \in [0 .. Map.mod - 1 -> Values \cup {NULL}]
         /\ \A j : At(<<walk.map, j>>) = Map.nodes[j]
         /\ \A u : At(<<"next", u>>) = next[u]
         /\ walk # Idle /\ Map = IF Rehashing THEN helper ELSE hm
         /\ Walked = Map.mod
<1>1. /\ walk.func \in {"hash", "print"} /\ walk.path \in Seq(PointerPlaces)
      /\ walk.map = IF walk.func = "hash" THEN "helper" ELSE "hm"
      /\ IsMap(Map) /\ walk.i \in 0 .. Map.mod - 1
  BY DEF Walking
<1>2. Len(walk.path) \in Nat /\ walk.i \in Nat
  BY <1>1
<1>3. walk # Idle
  BY <1>1 DEF Idle
<1>4. /\ \A j : At(<<walk.map, j>>) = Map.nodes[j]
      /\ \A u : At(<<"next", u>>) = next[u]
  BY <1>1 DEF At, Map
<1>5. Map = (IF Rehashing THEN helper ELSE hm) /\ Walked = Map.mod
  BY <1>1 DEF Map, Rehashing, Walked
<1> QED
  BY <1>1, <1>2, <1>3, <1>4, <1>5 DEF IsMap

(* When the calls have met the end of a chain they have all its elements.  *)
LEMMA CallsHaveAll ==
  ASSUME NEW L, L \subseteq Values, NEW rank \in [Values -> Nat],
         next \in [Values -> Values \cup {NULL}], Walking(L, rank), walk.down
  PROVE  /\ At(Top) \in Part(L, Map.mod, walk.i) \cup {NULL}
         /\ \A v \in Part(L, Map.mod, walk.i) :
              v \in Members(Top) \/ \E k \in 1 .. Calls : v = At(walk.path[k])
         /\ Members(Top) \subseteq L
<1> DEFINE n == Len(walk.path)
           S == Part(L, Map.mod, walk.i)
           T == Members(Top) \cup {At(walk.path[k]) : k \in 1 .. Calls}
<1>1. n \in Nat /\ n > 0 /\ Calls = n - 1 /\ Top = walk.path[n]
  <2>1. n \in Nat /\ walk.path # <<>> /\ walk.path \in Seq(PointerPlaces)
    BY WalkIs DEF Walking
  <2>2. n > 0
    BY <2>1
  <2> QED
    BY <2>1, <2>2 DEF Calls, Top
<1>2. /\ S \subseteq Values /\ S \subseteq L
      /\ Chained(next, Map.nodes[walk.i], S, rank)
      /\ \A k \in 1 .. n - 1 : At(walk.path[k]) \in S
  BY <1>1 DEF Walking, Part
<1>3. /\ At(walk.path[1]) = Map.nodes[walk.i]
      /\ \A k \in 2 .. n : At(walk.path[k]) = next[At(walk.path[k - 1])]
  <2>1. /\ walk.path[1] = <<walk.map, walk.i>>
        /\ \A k \in 2 .. n : walk.path[k] = <<"next", At(walk.path[k - 1])>>
    BY <1>1 DEF Walking
  <2>2. /\ At(<<walk.map, walk.i>>) = Map.nodes[walk.i]
        /\ \A u : At(<<"next", u>>) = next[u]
    BY WalkIs
  <2> QED
    BY <2>1, <2>2
<1>4. At(Top) \in S \cup {NULL}
  <2>1. /\ Map.nodes[walk.i] \in S \cup {NULL}
        /\ \A u \in S : next[u] \in S \cup {NULL}
    BY <1>2 DEF Chained
  <2> HIDE DEF S, n
  <2>2. CASE n = 1
    BY <1>1, <1>3, <2>1, <2>2
  <2>3. CASE n # 1
    <3>1. n \in 2 .. n /\ n - 1 \in 1 .. n - 1
      BY <1>1, <2>3
    <3> QED
      BY <1>1, <1>2, <1>3, <2>1, <3>1
  <2> QED
    BY <2>2, <2>3
<1>5. Members(Top) \subseteq S
  <2>1. S \in SUBSET Values /\ Linked(S)
    BY <1>2 DEF Chained, Linked
  <2> QED
    BY <1>4, <2>1 DEF Members
<1>6. ASSUME NEW v0 \in S, v0 \notin T PROVE FALSE
  <2> HIDE DEF S, T
  <2>1. PICK v \in S \ T : \A u \in S : rank[u] < rank[v] => u \in T
    BY <1>2, <1>6, FirstWithout
  <2>2. v \in Values /\ v # NULL
    BY <1>2, <2>1, HashmapAssumption DEF NULL
  <2>3. At(Top) # v
    BY <2>1, <2>2, MembersClosed DEF T
  <2>4. \A k \in 1 .. n : At(walk.path[k]) # v
    BY <1>1, <2>1, <2>3 DEF T
  <2>5. v # Map.nodes[walk.i]
    BY <1>1, <1>3, <2>4
  <2>6. PICK u \in S : next[u] = v /\ rank[u] < rank[v]
    BY <1>2, <2>1, <2>2, <2>5 DEF Chained
  <2>7. u \in T
    BY <2>1, <2>6
  <2>8. u \notin Members(Top)
    BY <2>1, <2>2, <2>6, MembersClosed DEF T
  <2>9. PICK k \in 1 .. n - 1 : u = At(walk.path[k])
    BY <1>1, <2>7, <2>8 DEF T
  <2>10. k + 1 \in 2 .. n /\ (k + 1) - 1 = k
    BY <1>1, <2>9
  <2>11. At(walk.path[k + 1]) = v
    BY <1>3, <2>6, <2>9, <2>10
  <2> QED
    BY <1>1, <2>4, <2>10, <2>11
<1> QED
  BY <1>2, <1>4, <1>5, <1>6

(* The return of a call.                                                   *)
LEMMA PoppedIs ==
  ASSUME walk.path \in Seq(PointerPlaces), walk.path # <<>>
  PROVE  /\ Popped \in Seq(PointerPlaces) /\ Len(Popped) = Len(walk.path) - 1
         /\ Len(walk.path) \in Nat \ {0}
         /\ \A k \in 1 .. Len(Popped) : Popped[k] = walk.path[k]
<1>1. Len(walk.path) \in Nat \ {0}
  OBVIOUS
<1> QED
  BY <1>1 DEF Popped

(* A walk that has not begun.                                              *)
LEMMA WalkBegins ==
  ASSUME NEW L, L \subseteq Nat, NEW rank, NEW func \in {"hash", "print"},
         NEW map, map = IF func = "hash" THEN "helper" ELSE "hm",
         walk' = Over(map, func), NEW m, m = IF map = "hm" THEN hm' ELSE helper', IsMap(m),
         \A j \in 0 .. m.mod - 1 : Chained(next', m.nodes[j], Part(L, m.mod, j), rank)
  PROVE  Walking(L, rank)'
<1>1. /\ walk' = [func |-> func, map |-> map, i |-> 0, path |-> <<<<map, 0>>>>, down |-> TRUE]
      /\ walk'.func = func /\ walk'.map = map /\ walk'.i = 0 /\ walk'.down = TRUE
      /\ walk'.path = <<<<map, 0>>>>
  BY DEF Over
<1>2. Map' = m
  BY <1>1 DEF Map
<1>3. m.mod \in Nat \ {0}
  BY DEF IsMap
<1>4. \A v \in L : 0 <= v % m.mod
  BY <1>3
<1>5. Len(walk'.path) = 1 /\ walk'.path[1] = <<map, 0>> /\ Calls' = 0 /\ walk'.path # <<>>
  BY <1>1 DEF Calls
<1>6. walk'.path \in Seq(PointerPlaces)
  <2>1. <<map, 0>> \in PointerPlaces
    BY DEF PointerPlaces
  <2> QED
    BY <1>1, <2>1
<1>7. /\ 0 \in 0 .. m.mod - 1 /\ \A j \in 0 + 1 .. m.mod - 1 : j \in 0 .. m.mod - 1
  BY <1>3
<1>8. /\ \A k \in 2 .. Len(walk'.path) : FALSE
      /\ \A k \in 1 .. Calls' : FALSE
  <2>1. Len(walk'.path) = 1 /\ Calls' = 0
    BY <1>5
  <2>2. 2 .. 1 = {} /\ 1 .. 0 = {}
    OBVIOUS
  <2> QED
    BY <2>1, <2>2
<1>9. /\ \A k \in 2 .. Len(walk'.path) : walk'.path[k] = <<"next", At(walk.path[k - 1])'>>
      /\ \A k \in 1 .. Calls' : At(walk.path[k])' \in Part(L, m.mod, 0)
      /\ \A j, k \in 1 .. Calls' : j < k => rank[At(walk.path[j])'] < rank[At(walk.path[k])']
  BY <1>8
<1>10. walk'.func \in {"hash", "print"} /\ walk'.map = IF walk'.func = "hash" THEN "helper" ELSE "hm"
  BY <1>1
<1>11. walk' = [func |-> walk'.func, map |-> walk'.map, i |-> walk'.i,
                path |-> walk'.path, down |-> walk'.down]
  BY <1>1
<1> QED
  BY <1>1, <1>2, <1>4, <1>5, <1>6, <1>7, <1>9, <1>10, <1>11 DEF Walking

(* The next bucket: no element is left in the one before.                  *)
LEMMA NextBucketKeeps ==
  ASSUME NEW L, L \subseteq Values, NEW rank, Walking(L, rank), NextBucket
  PROVE  IF walk.i + 1 < Map.mod THEN Walking(L, rank)' ELSE L = {} /\ walk' = Idle
<1>1. /\ Map.mod \in Nat \ {0} /\ walk.i \in 0 .. Map.mod - 1 /\ walk.i \in Nat
      /\ walk # Idle /\ Walked = Map.mod /\ walk.path = <<>>
  BY WalkIs DEF NextBucket
<1>2. walk.down = FALSE /\ Calls = 0
  BY <1>1 DEF Walking, Calls
<1>3. \A v \in L : walk.i < v % Map.mod /\ v % Map.mod \in 0 .. Map.mod - 1
  <2>1. ASSUME NEW v \in L PROVE walk.i < v % Map.mod /\ v % Map.mod \in 0 .. Map.mod - 1
    <3>1. v \in Nat
      BY <2>1, HashmapAssumption
    <3>2. walk.i <= v % Map.mod /\ v % Map.mod \in 0 .. Map.mod - 1
      BY <1>1, <3>1 DEF Walking
    <3>3. v \notin Part(L, Map.mod, walk.i)
      BY <1>2 DEF Walking
    <3>4. v % Map.mod # walk.i
      BY <3>3 DEF Part
    <3> QED
      BY <1>1, <3>2, <3>4
  <2> QED
    BY <2>1
<1>4. CASE ~(walk.i + 1 < Map.mod)
  <2>1. L = {}
    BY <1>1, <1>3, <1>4
  <2> QED
    BY <1>1, <1>4, <2>1 DEF NextBucket
<1>5. CASE walk.i + 1 < Map.mod
  <2>1. PICK i : i = walk.i + 1
    OBVIOUS
  <2>2. i \in 0 .. Map.mod - 1 /\ i \in walk.i + 1 .. Map.mod - 1 /\ i \in Nat
    BY <1>1, <1>5, <2>1
  <2>3. /\ walk = [func |-> walk.func, map |-> walk.map, i |-> walk.i,
                   path |-> walk.path, down |-> walk.down]
        /\ walk.func \in {"hash", "print"} /\ walk.map = IF walk.func = "hash" THEN "helper" ELSE "hm"
        /\ IsMap(Map)
        /\ \A j \in walk.i + 1 .. Map.mod - 1 : Chained(next, Map.nodes[j], Part(L, Map.mod, j), rank)
    BY DEF Walking
  <2>4. /\ walk' = [walk EXCEPT !.i = i, !.path = <<<<walk.map, i>>>>, !.down = TRUE]
        /\ next' = next /\ hm' = hm /\ helper' = helper
    BY <1>1, <1>5, <2>1 DEF NextBucket
  <2>5. /\ walk' = [func |-> walk'.func, map |-> walk'.map, i |-> walk'.i,
                    path |-> walk'.path, down |-> walk'.down]
        /\ walk'.func = walk.func /\ walk'.map = walk.map /\ walk'.i = i
        /\ walk'.path = <<<<walk.map, i>>>> /\ walk'.down = TRUE
    BY <2>3, <2>4
  <2>6. Map' = Map
    BY <2>4, <2>5 DEF Map
  <2>7. /\ Len(walk'.path) = 1 /\ walk'.path[1] = <<walk.map, i>> /\ Calls' = 0
        /\ walk'.path # <<>>
    BY <2>5 DEF Calls
  <2>8. walk'.path \in Seq(PointerPlaces)
    <3>1. <<walk.map, i>> \in PointerPlaces
      BY <2>2, <2>3 DEF PointerPlaces
    <3> QED
      BY <2>5, <3>1
  <2>9. /\ \A k \in 2 .. Len(walk'.path) : FALSE
        /\ \A k \in 1 .. Calls' : FALSE
    <3>1. Len(walk'.path) = 1 /\ Calls' = 0
      BY <2>7
    <3> QED
      BY <3>1
  <2>10. /\ \A k \in 2 .. Len(walk'.path) : walk'.path[k] = <<"next", At(walk.path[k - 1])'>>
         /\ \A k \in 1 .. Calls' : At(walk.path[k])' \in Part(L, Map.mod, i)
         /\ \A j, k \in 1 .. Calls' : j < k => rank[At(walk.path[j])'] < rank[At(walk.path[k])']
    BY <2>9
  <2>11. \A v \in L : i <= v % Map.mod
    BY <1>1, <1>3, <2>1
  <2>12. /\ \A j \in i + 1 .. Map.mod - 1 : j \in walk.i + 1 .. Map.mod - 1
    BY <1>1, <2>1
  <2>13. Walking(L, rank)'
    BY <2>2, <2>3, <2>4, <2>5, <2>6, <2>7, <2>8, <2>10, <2>11, <2>12 DEF Walking
  <2> QED
    BY <1>5, <2>13
<1> QED
  BY <1>4, <1>5

(* recurse_apply goes to the next link, or returns from a null pointer.    *)
LEMMA RecurseKeeps ==
  ASSUME NEW L, L \subseteq Values, NEW rank \in [Values -> Nat],
         next \in [Values -> Values \cup {NULL}], Walking(L, rank), Recurse
  PROVE  Walking(L, rank)'
<1> DEFINE S == Part(L, Map.mod, walk.i)
<1>1. /\ walk = [func |-> walk.func, map |-> walk.map, i |-> walk.i,
                 path |-> walk.path, down |-> walk.down]
      /\ walk.func \in {"hash", "print"} /\ walk.map = IF walk.func = "hash" THEN "helper" ELSE "hm"
      /\ walk.down = TRUE /\ walk.path # <<>> /\ walk.path \in Seq(PointerPlaces)
      /\ IsMap(Map) /\ walk.i \in 0 .. Map.mod - 1
      /\ \A v \in L : walk.i <= v % Map.mod
      /\ \A j \in walk.i + 1 .. Map.mod - 1 : Chained(next, Map.nodes[j], Part(L, Map.mod, j), rank)
      /\ Chained(next, Map.nodes[walk.i], S, rank)
      /\ next' = next /\ hm' = hm /\ helper' = helper
  BY DEF Walking, Recurse
<1>2. PICK n : n = Len(walk.path)
  OBVIOUS
<1>3. n \in Nat \ {0} /\ Calls = n - 1 /\ Top = walk.path[n]
  BY <1>1, <1>2, PoppedIs DEF Calls, Top
<1>4. walk.path[1] = <<walk.map, walk.i>>
  BY <1>2, <1>3 DEF Walking
<1>5. \A k \in 2 .. n : walk.path[k] = <<"next", At(walk.path[k - 1])>>
  BY <1>2 DEF Walking
<1>6. \A k \in 1 .. n - 1 : At(walk.path[k]) \in S
  BY <1>3 DEF Walking
<1>7. \A j, k \in 1 .. n - 1 : j < k => rank[At(walk.path[j])] < rank[At(walk.path[k])]
  BY <1>3 DEF Walking
<1>9. ASSUME walk'.map = walk.map PROVE Map' = Map
  BY <1>1, <1>9 DEF Map
<1>10. CASE At(Top) = NULL
  <2>1. walk' = [walk EXCEPT !.path = Popped, !.down = FALSE]
    BY <1>10 DEF Recurse
  <2>2. /\ walk' = [func |-> walk'.func, map |-> walk'.map, i |-> walk'.i,
                    path |-> walk'.path, down |-> walk'.down]
        /\ walk'.func = walk.func /\ walk'.map = walk.map /\ walk'.i = walk.i
        /\ walk'.path = Popped /\ walk'.down = FALSE /\ Map' = Map
    BY <1>1, <1>9, <2>1
  <2>3. /\ Popped \in Seq(PointerPlaces) /\ Len(Popped) = n - 1
        /\ \A k \in 1 .. n - 1 : Popped[k] = walk.path[k]
    BY <1>1, <1>2, PoppedIs
  <2>4. Calls' = n - 1
    BY <2>2, <2>3 DEF Calls
  <2>5. \A k \in 1 .. n - 1 : (At(walk.path[k]))' = At(walk.path[k])
    BY <1>1, <2>2, <2>3 DEF At
  <2>6. \A k \in 2 .. n - 1 : Popped[k] = <<"next", (At(walk.path[k - 1]))'>>
    <3>1. \A k \in 2 .. n - 1 : k \in 2 .. n /\ k \in 1 .. n - 1 /\ k - 1 \in 1 .. n - 1
      BY <1>3
    <3> QED
      BY <1>5, <2>3, <2>5, <3>1
  <2>7. n - 1 > 0 => Popped[1] = <<walk.map, walk.i>>
    BY <1>3, <1>4, <2>3
  <2>8. \A v \in S : \E k \in 1 .. n - 1 : v = (At(walk.path[k]))'
    <3>1. \A v \in S : v \in Members(Top) \/ \E k \in 1 .. n - 1 : v = At(walk.path[k])
      BY <1>1, <1>3, CallsHaveAll
    <3>2. Members(Top) = {}
      <4>1. At(Top) \in {} \cup {NULL} /\ Linked({})
        BY <1>10 DEF Linked
      <4> QED
        BY <4>1 DEF Members
    <3> QED
      BY <2>5, <3>1, <3>2
  <2>9. \A k \in 1 .. n - 1 : (At(walk.path[k]))' \in S
    BY <1>6, <2>5
  <2>10. \A j, k \in 1 .. n - 1 : j < k => rank[(At(walk.path[j]))'] < rank[(At(walk.path[k]))']
    BY <1>7, <2>5
  <2> QED
    BY <1>1, <2>2, <2>3, <2>4, <2>6, <2>7, <2>8, <2>9, <2>10 DEF Walking
<1>11. CASE At(Top) # NULL
  <2>1. PICK v : v = At(Top)
    OBVIOUS
  <2>2. v \in S /\ v \in Values /\ v \in Nat /\ v \in L
    <3>1. At(Top) \in S \cup {NULL}
      BY <1>1, CallsHaveAll
    <3> QED
      BY <1>11, <2>1, <3>1, HashmapAssumption DEF Part
  <2>3. walk' = [walk EXCEPT !.path = Append(walk.path, <<"next", v>>)]
    BY <1>11, <2>1 DEF Recurse
  <2>4. /\ walk' = [func |-> walk'.func, map |-> walk'.map, i |-> walk'.i,
                    path |-> walk'.path, down |-> walk'.down]
        /\ walk'.func = walk.func /\ walk'.map = walk.map /\ walk'.i = walk.i
        /\ walk'.path = Append(walk.path, <<"next", v>>) /\ walk'.down = TRUE /\ Map' = Map
    BY <1>1, <1>9, <2>3
  <2>5. <<"next", v>> \in PointerPlaces
    BY <2>2 DEF PointerPlaces
  <2>6. PICK path : path = Append(walk.path, <<"next", v>>)
    OBVIOUS
  <2>7. /\ path \in Seq(PointerPlaces) /\ Len(path) = n + 1 /\ path # <<>>
        /\ \A k \in 1 .. n : path[k] = walk.path[k]
        /\ path[n + 1] = <<"next", v>>
    BY <1>1, <1>2, <1>3, <2>5, <2>6
  <2>8. Calls' = n
    BY <1>3, <2>4, <2>6, <2>7 DEF Calls
  <2>9. \A k \in 1 .. n : (At(walk.path[k]))' = At(walk.path[k])
    BY <1>1, <2>4, <2>6, <2>7 DEF At
  <2>10. \A k \in 2 .. n + 1 : path[k] = <<"next", (At(walk.path[k - 1]))'>>
    <3>1. ASSUME NEW k \in 2 .. n + 1 PROVE path[k] = <<"next", (At(walk.path[k - 1]))'>>
      <4>1. k - 1 \in 1 .. n /\ (k = n + 1 \/ (k \in 2 .. n /\ k \in 1 .. n))
        BY <1>3
      <4>2. (At(walk.path[k - 1]))' = At(walk.path[k - 1])
        BY <2>9, <4>1
      <4>3. CASE k = n + 1
        <5>1. k - 1 = n
          BY <1>3, <4>3
        <5> QED
          BY <1>3, <2>1, <2>7, <4>2, <4>3, <5>1
      <4>4. CASE k \in 2 .. n /\ k \in 1 .. n
        BY <1>5, <2>7, <4>2, <4>4
      <4> QED
        BY <4>1, <4>3, <4>4
    <3> QED
      BY <3>1
  <2>11. path[1] = <<walk.map, walk.i>>
    BY <1>3, <1>4, <2>7
  <2>12. \A k \in 1 .. n : k \in 1 .. n - 1 \/ k = n
    BY <1>3
  <2>13. \A k \in 1 .. n : (At(walk.path[k]))' \in S
    BY <1>3, <1>6, <2>1, <2>2, <2>9, <2>12
  <2>14. \A k \in 1 .. n - 1 : rank[At(walk.path[k])] < rank[v]
    <3>1. CASE n = 1
      BY <3>1
    <3>2. CASE n # 1
      <4>1. n \in 2 .. n /\ n - 1 \in 1 .. n - 1
        BY <1>3, <3>2
      <4>2. PICK u : u = At(walk.path[n - 1])
        OBVIOUS
      <4>3. u \in S /\ Top = <<"next", u>>
        BY <1>3, <1>5, <1>6, <4>1, <4>2
      <4>4. v = next[u] /\ v # NULL
        BY <1>11, <2>1, <4>3, WalkIs
      <4>5. rank[u] < rank[v] /\ u \in Values
        BY <1>1, <4>3, <4>4 DEF Chained, Part
      <4>6. ASSUME NEW k \in 1 .. n - 1 PROVE rank[At(walk.path[k])] < rank[v]
        <5>1. k = n - 1 \/ k < n - 1
          BY <1>3, <4>6
        <5>2. At(walk.path[k]) \in Values
          BY <1>6, <4>6 DEF Part
        <5>3. CASE k < n - 1
          <6>1. rank[At(walk.path[k])] < rank[u]
            BY <1>7, <4>1, <4>2, <4>6, <5>3
          <6>2. rank[At(walk.path[k])] \in Nat /\ rank[u] \in Nat /\ rank[v] \in Nat
            BY <2>2, <4>5, <5>2
          <6> QED
            BY <4>5, <6>1, <6>2
        <5> QED
          BY <4>2, <4>5, <5>1, <5>3
      <4> QED
        BY <4>6
    <3> QED
      BY <3>1, <3>2
  <2>15. \A j, k \in 1 .. n : j < k => rank[(At(walk.path[j]))'] < rank[(At(walk.path[k]))']
    <3>1. ASSUME NEW j \in 1 .. n, NEW k \in 1 .. n, j < k
          PROVE  rank[At(walk.path[j])] < rank[At(walk.path[k])]
      <4>1. j \in 1 .. n - 1
        BY <1>3, <3>1
      <4>2. CASE k = n
        BY <1>3, <2>1, <2>14, <4>1, <4>2
      <4>3. CASE k \in 1 .. n - 1
        BY <1>7, <3>1, <4>1, <4>3
      <4> QED
        BY <2>12, <4>2, <4>3
    <3> QED
      BY <2>9, <3>1
  <2> QED
    BY <1>1, <2>4, <2>6, <2>7, <2>8, <2>10, <2>11, <2>13, <2>15 DEF Walking
<1> QED
  BY <1>10, <1>11

(* func is applied to the element of the last call, and nobody but that    *)
(* element, of those the walk has still to do with, changes its link.      *)
LEMMA ApplyKeeps ==
  ASSUME NEW L, L \subseteq Values, NEW rank \in [Values -> Nat],
         NEW rank2 \in [Values -> Nat], Walking(L, rank),
         walk.down = FALSE, walk.path # <<>>, NEW v, v = At(Top), NEW L2, L2 = L \ {v},
         walk' = [walk EXCEPT !.path = Popped],
         IF Rehashing THEN helper' = helper ELSE hm' = hm,
         \A u \in L2 : next'[u] = next[u] /\ rank2[u] = rank[u]
  PROVE  v \in L /\ Walking(L2, rank2)'
<1> DEFINE S == Part(L, Map.mod, walk.i)
<1>1. /\ walk = [func |-> walk.func, map |-> walk.map, i |-> walk.i,
                 path |-> walk.path, down |-> walk.down]
      /\ walk.func \in {"hash", "print"} /\ walk.map = IF walk.func = "hash" THEN "helper" ELSE "hm"
      /\ walk.path \in Seq(PointerPlaces)
      /\ IsMap(Map) /\ walk.i \in 0 .. Map.mod - 1
      /\ \A u \in L : walk.i <= u % Map.mod
      /\ \A j \in walk.i + 1 .. Map.mod - 1 : Chained(next, Map.nodes[j], Part(L, Map.mod, j), rank)
  BY DEF Walking
<1>2. PICK n : n = Len(walk.path)
  OBVIOUS
<1>3. n \in Nat \ {0} /\ Calls = n /\ Top = walk.path[n]
  BY <1>1, <1>2, PoppedIs DEF Calls, Top
<1>4. walk.path[1] = <<walk.map, walk.i>>
  BY <1>2, <1>3 DEF Walking
<1>5. \A k \in 2 .. n : walk.path[k] = <<"next", At(walk.path[k - 1])>>
  BY <1>2 DEF Walking
<1>6. \A k \in 1 .. n : At(walk.path[k]) \in S
  BY <1>3 DEF Walking
<1>7. \A j, k \in 1 .. n : j < k => rank[At(walk.path[j])] < rank[At(walk.path[k])]
  BY <1>3 DEF Walking
<1>8. \A u \in S : \E k \in 1 .. n : u = At(walk.path[k])
  BY <1>3 DEF Walking
<1>9. v \in S /\ S \subseteq L /\ v \in Values
  <2>1. n \in 1 .. n
    BY <1>3
  <2> QED
    BY <1>3, <1>6, <2>1 DEF Part
<1>10. /\ walk' = [func |-> walk'.func, map |-> walk'.map, i |-> walk'.i,
                   path |-> walk'.path, down |-> walk'.down]
       /\ walk'.func = walk.func /\ walk'.map = walk.map /\ walk'.i = walk.i
       /\ walk'.path = Popped /\ walk'.down = FALSE
  BY <1>1
<1>11. Map' = Map
  BY <1>1, <1>10 DEF Map, Rehashing
<1>12. /\ Popped \in Seq(PointerPlaces) /\ Len(Popped) = n - 1
       /\ \A k \in 1 .. n - 1 : Popped[k] = walk.path[k]
  BY <1>1, <1>2, PoppedIs
<1>13. Calls' = n - 1
  BY <1>10, <1>12 DEF Calls
<1>14. \A k \in 1 .. n - 1 : At(walk.path[k]) \in S \ {v}
  <2>1. ASSUME NEW k \in 1 .. n - 1 PROVE At(walk.path[k]) \in S \ {v}
    <3>1. k \in 1 .. n /\ n \in 1 .. n /\ k < n
      BY <1>3, <2>1
    <3>2. rank[At(walk.path[k])] < rank[v] /\ At(walk.path[k]) \in S
      BY <1>3, <1>6, <1>7, <3>1
    <3>3. rank[v] \in Nat
      BY <1>9
    <3> QED
      BY <3>2, <3>3
  <2> QED
    BY <2>1
<1>15. \A k \in 1 .. n - 1 : (At(walk.path[k]))' = At(walk.path[k])
  <2>1. ASSUME NEW k \in 1 .. n - 1 PROVE (At(walk.path[k]))' = At(walk.path[k])
    <3>1. walk'.path[k] = Popped[k]
      BY <1>10
    <3>2. CASE k = 1
      <4>1. Popped[k] = <<walk.map, walk.i>> /\ walk.path[k] = <<walk.map, walk.i>>
        BY <1>4, <1>12, <2>1, <3>2
      <4> QED
        BY <1>1, <1>10, <3>1, <4>1 DEF At, Rehashing
    <3>3. CASE k # 1
      <4>1. k \in 2 .. n /\ k - 1 \in 1 .. n - 1
        BY <1>3, <2>1, <3>3
      <4>2. PICK u : u = At(walk.path[k - 1])
        OBVIOUS
      <4>3. u \in L \ {v}
        BY <1>9, <1>14, <4>1, <4>2
      <4>4. Popped[k] = <<"next", u>> /\ walk.path[k] = <<"next", u>>
        BY <1>5, <1>12, <2>1, <4>1, <4>2
      <4>5. next'[u] = next[u]
        BY <4>3
      <4> QED
        BY <3>1, <4>4, <4>5 DEF At
    <3> QED
      BY <3>2, <3>3
  <2> QED
    BY <2>1
<1>16. \A k \in 2 .. n - 1 : Popped[k] = <<"next", (At(walk.path[k - 1]))'>>
  <2>1. \A k \in 2 .. n - 1 : k \in 2 .. n /\ k \in 1 .. n - 1 /\ k - 1 \in 1 .. n - 1
    BY <1>3
  <2> QED
    BY <1>5, <1>12, <1>15, <2>1
<1>17. ASSUME n - 1 > 0 PROVE Popped[1] = <<walk.map, walk.i>>
  <2>1. 1 \in 1 .. n - 1
    BY <1>3, <1>17
  <2>2. Popped[1] = walk.path[1]
    BY <1>12, <2>1
  <2> QED
    BY <1>4, <2>2
<1>18. Part(L2, Map.mod, walk.i) = S \ {v}
  BY DEF Part
<1>19. \A k \in 1 .. n - 1 : (At(walk.path[k]))' \in Part(L2, Map.mod, walk.i)
  BY <1>14, <1>15, <1>18
<1>20. \A u \in Part(L2, Map.mod, walk.i) : \E k \in 1 .. n - 1 : u = (At(walk.path[k]))'
  <2>1. ASSUME NEW u \in S, u # v PROVE \E k \in 1 .. n - 1 : u = (At(walk.path[k]))'
    <3>1. PICK k \in 1 .. n : u = At(walk.path[k])
      BY <1>8, <2>1
    <3>2. k # n
      BY <1>3, <2>1, <3>1
    <3>3. k \in 1 .. n - 1
      BY <1>3, <3>1, <3>2
    <3> QED
      BY <1>15, <3>1, <3>3
  <2> QED
    BY <1>18, <2>1
<1>21. \A j, k \in 1 .. n - 1 : j < k => rank2[(At(walk.path[j]))'] < rank2[(At(walk.path[k]))']
  <2>1. \A j \in 1 .. n - 1 : rank2[(At(walk.path[j]))'] = rank[At(walk.path[j])] /\ j \in 1 .. n
    BY <1>3, <1>9, <1>14, <1>15
  <2> QED
    BY <1>7, <2>1
<1>22. ASSUME NEW j \in walk.i + 1 .. Map.mod - 1
       PROVE  Chained(next', Map.nodes[j], Part(L2, Map.mod, j), rank2)
  <2>1. Part(L2, Map.mod, j) = Part(L, Map.mod, j) /\ Part(L, Map.mod, j) \subseteq L2
    <3>1. walk.i # j
      BY <1>1, <1>22
    <3> QED
      BY <1>9, <3>1 DEF Part
  <2>2. Chained(next, Map.nodes[j], Part(L, Map.mod, j), rank)
    BY <1>1, <1>22
  <2>3. PICK P : P = Part(L, Map.mod, j)
    OBVIOUS
  <2>4. /\ Map.nodes[j] \in P \cup {NULL}
        /\ \A u \in P : next[u] \in P \cup {NULL} /\ (next[u] # NULL => rank[u] < rank[next[u]])
        /\ \A w \in P : w = Map.nodes[j] \/ \E u \in P : next[u] = w
    BY <2>2, <2>3 DEF Chained
  <2>5. \A u \in P : next'[u] = next[u] /\ rank2[u] = rank[u]
    BY <2>1, <2>3
  <2>6. \A u \in P : next[u] # NULL => rank2[u] < rank2[next[u]]
    BY <2>4, <2>5
  <2>7. \A u \in P : next'[u] \in P \cup {NULL} /\ (next'[u] # NULL => rank2[u] < rank2[next'[u]])
    BY <2>4, <2>5, <2>6
  <2>8. \A w \in P : w = Map.nodes[j] \/ \E u \in P : next'[u] = w
    BY <2>4, <2>5
  <2>9. Chained(next', Map.nodes[j], P, rank2)
    BY <2>4, <2>7, <2>8 DEF Chained
  <2> QED
    BY <2>1, <2>3, <2>9
<1>23. \A u \in L2 : walk.i <= u % Map.mod
  BY <1>1
<1>24. Walking(L2, rank2)'
  BY <1>1, <1>10, <1>11, <1>12, <1>13, <1>16, <1>17, <1>19, <1>20, <1>21, <1>22, <1>23, ZenonT(60)
     DEF Walking
<1> QED
  BY <1>9, <1>24
-------------------------------------------------------------------------------
(* A new map holds nothing.                                                *)
LEMMA EmptyHolds ==
  ASSUME NEW n \in Nat \ {0}, NEW links, NEW rank \in [Values -> Nat]
  PROVE  Holds(links, Empty(n), {}, rank) /\ ~Crowded(Empty(n)) /\ Empty(n).mod = n
<1> DEFINE m == Empty(n)
<1>1. /\ IsMap(m) /\ m.mod = n /\ m.nb_elment = 0 /\ \A j \in 0 .. n - 1 : m.nodes[j] = NULL
  BY DEF Empty, IsMap
<1>2. Cardinality({}) = 0
  BY FS_EmptySet
<1>3. \A j : Part({}, n, j) = {}
  BY DEF Part
<1>4. Chained(links, NULL, {}, rank)
  BY DEF Chained
<1>5. ~Crowded(m)
  BY <1>1 DEF Crowded
<1> HIDE DEF m
<1> QED
  BY <1>1, <1>2, <1>3, <1>4, <1>5 DEF Holds, m

(* has_elmt looks in the only bucket where the value can be.               *)
LEMMA HasIs ==
  ASSUME next \in [Values -> Values \cup {NULL}],
         NEW M, NEW rank, Holds(next, hm, M, rank), NEW v \in Values
  PROVE  has_elmt(v) <=> v \in M
<1>1. v % hm.mod \in 0 .. hm.mod - 1
  BY HashmapAssumption DEF Holds, IsMap
<1>2. At(Bucket(v)) = hm.nodes[v % hm.mod]
  BY DEF Bucket, At
<1>3. PICK S : S = Part(M, hm.mod, v % hm.mod)
  OBVIOUS
<1>4. /\ Chained(next, At(Bucket(v)), S, rank) /\ S \subseteq Values /\ rank \in [Values -> Nat]
  BY <1>1, <1>2, <1>3 DEF Holds, Part
<1>5. Members(Bucket(v)) = S
  BY <1>4, MembersAre
<1> QED
  BY <1>3, <1>5 DEF has_elmt, Part

(* The elements of a bucket are those met from it.                         *)
LEMMA BucketHolds ==
  ASSUME next \in [Values -> Values \cup {NULL}],
         NEW L, L \subseteq Values, NEW rank \in [Values -> Nat], NEW name \in {"hm", "helper"},
         NEW m, m = IF name = "hm" THEN hm ELSE helper, NEW j,
         Chained(next, m.nodes[j], Part(L, m.mod, j), rank)
  PROVE  Members(<<name, j>>) = Part(L, m.mod, j)
<1>1. At(<<name, j>>) = m.nodes[j]
  BY DEF At
<1>2. Part(L, m.mod, j) \subseteq Values
  BY DEF Part
<1>3. PICK S, loc : S = Part(L, m.mod, j) /\ loc = <<name, j>>
  OBVIOUS
<1>4. Chained(next, At(loc), S, rank) /\ S \subseteq Values
  BY <1>1, <1>2, <1>3
<1>5. Members(loc) = S
  BY <1>4, MembersAre
<1> QED
  BY <1>3, <1>5

(* Before the first insertion.                                             *)
LEMMA HashBegins == ASSUME HashInit PROVE HashInv
<1>1. PICK rank : rank = [v \in Values |-> 0]
  OBVIOUS
<1>2. rank \in [Values -> Nat] /\ InitialMod \in Nat \ {0}
  BY <1>1, HashmapAssumption
<1>3. /\ next \in [Values -> Values \cup {NULL}] /\ hm = Empty(InitialMod) /\ helper = Empty(InitialMod)
      /\ walk = Idle /\ inserted = {} /\ buf = [text |-> <<>>, cursor |-> 0, top |-> 0]
  BY DEF HashInit, new_hashmap
<1>4. Holds(next, hm, {}, rank) /\ ~Crowded(hm) /\ IsMap(helper)
  BY <1>2, <1>3, EmptyHolds DEF Holds
<1>5. walk.func = "none" /\ Settled({}) = inserted
  BY <1>3 DEF Idle, Settled
<1>6. HashState({}, rank)
  BY <1>2, <1>3, <1>4, <1>5 DEF HashState, Rehashing
<1>7. BufferKept
  BY <1>3 DEF BufferKept
<1> QED
  BY <1>6, <1>7 DEF HashInv

(* An insertion, with the beginning of a rehash when the map is crowded.   *)
LEMMA InsertStep ==
  ASSUME NEW L, NEW rank, HashState(L, rank), NEW v \in Values, Insert(v)
  PROVE  \E L2, r2 : HashState(L2, r2)'
<1>1. /\ walk = Idle /\ inserted' = inserted \cup {v}
      /\ next \in [Values -> Values \cup {NULL}] /\ inserted \subseteq Values
      /\ rank \in [Values -> Nat] /\ IsMap(helper) /\ ~Crowded(hm) /\ L = {}
  BY DEF Insert, HashState
<1>2. walk.func = "none"
  BY <1>1 DEF Idle
<1>3. Holds(next, hm, inserted, rank)
  <2>1. Settled(L) = inserted
    BY <1>2 DEF Settled, Rehashing
  <2> QED
    BY <2>1 DEF HashState
<1>4. CASE has_elmt(v) /\ UNCHANGED <<next, hm, helper, walk>>
  <2>1. inserted' = inserted
    BY <1>1, <1>3, <1>4, HasIs
  <2>2. HashState(L, rank)'
    BY <1>1, <1>2, <1>3, <1>4, <2>1 DEF HashState, Settled, Rehashing
  <2> QED
    BY <2>2
<1>5. CASE ~has_elmt(v)
  <2>1. v \notin inserted
    BY <1>1, <1>3, <1>5, HasIs
  <2>2. PICK m : m = NewMap(End(Bucket(v)), v)
    OBVIOUS
  <2>3. PICK rank2 : rank2 = [rank EXCEPT ![v] = hm.nb_elment]
    OBVIOUS
  <2>4. next' = NewLinks(End(Bucket(v)), v)
    BY <1>5 DEF Insert
  <2>5. /\ next' \in [Values -> Values \cup {NULL}]
        /\ Holds(next', m, inserted', rank2) /\ m.mod = hm.mod /\ m.nb_elment = hm.nb_elment + 1
    BY <1>1, <1>3, <2>1, <2>2, <2>3, <2>4, Linking
  <2>6. /\ IsMap(m) /\ inserted' \subseteq Values /\ rank2 \in [Values -> Nat]
        /\ m.nb_elment = Cardinality(inserted') /\ m.mod \in Nat \ {0} /\ m.nb_elment \in Nat
        /\ \A j \in 0 .. m.mod - 1 : Chained(next', m.nodes[j], Part(inserted', m.mod, j), rank2)
    BY <2>5 DEF Holds, IsMap
  <2>7. CASE ~Crowded(m)
    <3>1. hm' = m /\ helper' = helper /\ walk' = walk
      BY <1>5, <2>2, <2>7 DEF Insert
    <3>2. HashState({}, rank2)'
      BY <1>1, <1>2, <2>5, <2>6, <2>7, <3>1 DEF HashState, Settled, Rehashing
    <3> QED
      BY <3>2
  <2>8. CASE Crowded(m)
    <3>1. helper' = m /\ hm' = Empty(2 * m.mod) /\ walk' = Over("helper", "hash")
      BY <1>5, <2>2, <2>8 DEF Insert
    <3>2. 2 * m.mod \in Nat \ {0}
      BY <2>6
    <3>3. Holds(next', hm', {}, rank2) /\ ~Crowded(hm') /\ hm'.mod = 2 * m.mod
      BY <2>6, <3>1, <3>2, EmptyHolds
    <3>4. Cardinality(inserted') <= 2 * m.mod + 1
      <4>1. hm.nb_elment \in Nat /\ hm.nb_elment <= 2 * hm.mod
        BY <1>1, <1>3 DEF Crowded, Holds, IsMap
      <4> QED
        BY <2>5, <2>6, <4>1
    <3>5. inserted' \subseteq Nat
      BY <2>6, HashmapAssumption
    <3>6. Walking(inserted, rank2)'
      <4>1. PICK S : S = inserted'
        OBVIOUS
      <4>2. PICK func, map : func = "hash" /\ map = "helper"
        OBVIOUS
      <4>3. /\ S \subseteq Nat /\ func \in {"hash", "print"} /\ walk' = Over(map, func)
            /\ map = IF func = "hash" THEN "helper" ELSE "hm"
            /\ m = IF map = "hm" THEN hm' ELSE helper'
            /\ \A j \in 0 .. m.mod - 1 : Chained(next', m.nodes[j], Part(S, m.mod, j), rank2)
        BY <2>6, <3>1, <3>5, <4>1, <4>2
      <4>4. Walking(S, rank2)'
        BY <2>6, <4>3, WalkBegins
      <4> QED
        BY <4>1, <4>4 DEF Walking
    <3>7. walk'.func = "hash" /\ walk' # Idle
      BY <3>1 DEF Over, Idle
    <3>8. PICK S : S = inserted'
      OBVIOUS
    <3>9. HashState(S, rank2)'
      BY <2>5, <2>6, <3>1, <3>3, <3>4, <3>6, <3>7, <3>8 DEF HashState, Settled, Rehashing
    <3> QED
      BY <3>9
  <2> QED
    BY <2>7, <2>8
<1> QED
  BY <1>4, <1>5 DEF Insert

(* hashmap_to_string begins with every element to print.                   *)
LEMMA HashmapToStringStep ==
  ASSUME NEW L, NEW rank, HashState(L, rank), hashmap_to_string
  PROVE  \E L2, r2 : HashState(L2, r2)'
<1>1. /\ walk = Idle /\ walk' = Over("hm", "print")
      /\ buf' = [text |-> <<>>, cursor |-> 0, top |-> 0]
      /\ next' = next /\ hm' = hm /\ helper' = helper /\ inserted' = inserted
      /\ next \in [Values -> Values \cup {NULL}] /\ inserted \subseteq Values
      /\ rank \in [Values -> Nat] /\ IsMap(helper) /\ ~Crowded(hm) /\ L = {}
  BY DEF hashmap_to_string, HashState
<1>2. walk.func = "none" /\ walk'.func = "print" /\ walk' # Idle
  BY <1>1 DEF Idle, Over
<1>3. Holds(next, hm, inserted, rank)
  <2>1. Settled(L) = inserted
    BY <1>2 DEF Settled, Rehashing
  <2> QED
    BY <2>1 DEF HashState
<1>4. PICK S, m, func, map : S = inserted /\ m = hm' /\ func = "print" /\ map = "hm"
  OBVIOUS
<1>5. /\ S \subseteq Nat /\ func \in {"hash", "print"} /\ walk' = Over(map, func)
      /\ map = IF func = "hash" THEN "helper" ELSE "hm"
      /\ m = IF map = "hm" THEN hm' ELSE helper'
      /\ IsMap(m)
      /\ \A j \in 0 .. m.mod - 1 : Chained(next', m.nodes[j], Part(S, m.mod, j), rank)
  BY <1>1, <1>3, <1>4, HashmapAssumption DEF Holds
<1>6. Walking(S, rank)'
  BY <1>5, WalkBegins
<1>7. Texts' = {}
  BY <1>1 DEF Texts
<1>8. HashState(S, rank)'
  BY <1>1, <1>2, <1>3, <1>4, <1>6, <1>7 DEF HashState, Settled, Rehashing
<1> QED
  BY <1>8

(* recurse_apply changes no link.                                          *)
LEMMA RecurseStep ==
  ASSUME NEW L, NEW rank, HashState(L, rank), Recurse
  PROVE  HashState(L, rank)'
<1>1. /\ walk # Idle /\ L \subseteq Values /\ Walking(L, rank) /\ rank \in [Values -> Nat]
      /\ next \in [Values -> Values \cup {NULL}]
      /\ next' = next /\ hm' = hm /\ helper' = helper /\ inserted' = inserted /\ buf' = buf
  BY DEF HashState, Recurse
<1>2. Walking(L, rank)'
  BY <1>1, RecurseKeeps
<1>3. walk' # Idle
  BY <1>2, WalkIs DEF Walking, Idle
<1>4. walk'.func = walk.func
  BY <1>1 DEF Walking, Recurse
<1> QED
  BY <1>1, <1>2, <1>3, <1>4 DEF HashState, Settled, Rehashing, Texts

(* The next bucket, or the end of the walk.                                *)
LEMMA NextBucketStep ==
  ASSUME NEW L, NEW rank, HashState(L, rank), NextBucket
  PROVE  HashState(L, rank)'
<1>1. /\ walk # Idle /\ L \subseteq Values /\ Walking(L, rank) /\ rank \in [Values -> Nat]
      /\ next' = next /\ hm' = hm /\ helper' = helper /\ inserted' = inserted /\ buf' = buf
  BY DEF HashState, NextBucket
<1>2. IF walk.i + 1 < Map.mod THEN Walking(L, rank)' ELSE L = {} /\ walk' = Idle
  BY <1>1, NextBucketKeeps
<1>3. CASE walk.i + 1 < Map.mod
  <2>1. Walking(L, rank)'
    BY <1>2, <1>3
  <2>2. walk' # Idle
    BY <2>1 DEF Walking, Idle
  <2>3. walk'.func = walk.func
    BY <1>1, <1>3, WalkIs DEF Walking, NextBucket
  <2> QED
    BY <1>1, <2>1, <2>2, <2>3 DEF HashState, Settled, Rehashing, Texts
<1>4. CASE ~(walk.i + 1 < Map.mod)
  <2>1. L = {} /\ walk' = Idle /\ walk'.func = "none"
    BY <1>2, <1>4 DEF Idle
  <2>2. Settled(L) = inserted /\ Settled(L)' = inserted'
    BY <2>1 DEF Settled, Rehashing
  <2> QED
    BY <1>1, <2>1, <2>2 DEF HashState, Rehashing
<1> QED
  BY <1>3, <1>4

(* The element func is applied to is one the walk has still to do with.    *)
LEMMA TopIs ==
  ASSUME NEW L, NEW rank, Walking(L, rank), walk.down = FALSE, walk.path # <<>>
  PROVE  At(Top) \in L
<1>1. walk.path \in Seq(PointerPlaces)
  BY DEF Walking
<1>2. PICK n : n = Len(walk.path)
  OBVIOUS
<1>3. n \in Nat \ {0} /\ Calls = n /\ Top = walk.path[n]
  BY <1>1, <1>2, PoppedIs DEF Calls, Top
<1>4. n \in 1 .. n
  BY <1>3
<1>5. At(walk.path[n]) \in Part(L, Map.mod, walk.i)
  BY <1>3, <1>4 DEF Walking
<1> QED
  BY <1>3, <1>5 DEF Part

(* The rehash moves an element: it was not in the map, and its link is the *)
(* only one of those still to be followed that changes.                    *)
LEMMA ApplyHashStep ==
  ASSUME NEW L, NEW rank, HashState(L, rank), ApplyHash
  PROVE  \E L2, r2 : HashState(L2, r2)'
<1>1. /\ walk # Idle /\ walk.down = FALSE /\ walk.path # <<>> /\ walk.func = "hash"
      /\ walk' = [walk EXCEPT !.path = Popped]
      /\ helper' = helper /\ inserted' = inserted /\ buf' = buf
      /\ next \in [Values -> Values \cup {NULL}] /\ inserted \subseteq Values
      /\ L \subseteq inserted /\ rank \in [Values -> Nat] /\ IsMap(helper)
      /\ Walking(L, rank) /\ hm.mod = 2 * helper.mod
      /\ Cardinality(inserted) <= 2 * helper.mod + 1
  BY DEF HashState, ApplyHash, Rehashing, Walking
<1>2. PICK M : M = inserted \ L
  OBVIOUS
<1>3. Holds(next, hm, M, rank)
  BY <1>1, <1>2 DEF HashState, Settled, Rehashing
<1>4. PICK v : v = At(Top)
  OBVIOUS
<1>5. v \in L /\ v \notin M /\ v \in Values
  BY <1>1, <1>2, <1>4, TopIs
<1>6. PICK m : m = NewMap(End(Bucket(v)), v)
  OBVIOUS
<1>7. PICK rank2 : rank2 = [rank EXCEPT ![v] = hm.nb_elment]
  OBVIOUS
<1>8. ~has_elmt(v)
  BY <1>1, <1>3, <1>5, HasIs
<1>9. next' = NewLinks(End(Bucket(v)), v) /\ hm' = m
  BY <1>4, <1>6, <1>8 DEF ApplyHash
<1>10. /\ next' \in [Values -> Values \cup {NULL}]
       /\ \A u \in Values \ (M \cup {v}) : next'[u] = next[u]
       /\ Holds(next', m, M \cup {v}, rank2) /\ m.mod = hm.mod
  BY <1>1, <1>3, <1>5, <1>6, <1>7, <1>9, Linking
<1>11. \A u \in L \ {v} : next'[u] = next[u] /\ rank2[u] = rank[u]
  BY <1>1, <1>2, <1>7, <1>10
<1>12. PICK L2 : L2 = L \ {v}
  OBVIOUS
<1>13. rank2 \in [Values -> Nat]
  BY <1>10 DEF Holds
<1>14. Walking(L2, rank2)'
  <2>1. IF Rehashing THEN helper' = helper ELSE hm' = hm
    BY <1>1 DEF Rehashing
  <2>2. /\ L \subseteq Values /\ Walking(L, rank) /\ walk.down = FALSE /\ walk.path # <<>>
        /\ rank \in [Values -> Nat] /\ walk' = [walk EXCEPT !.path = Popped]
    BY <1>1
  <2>3. \A u \in L2 : next'[u] = next[u] /\ rank2[u] = rank[u]
    BY <1>11, <1>12
  <2> QED
    BY <1>4, <1>12, <1>13, <2>1, <2>2, <2>3, ApplyKeeps
<1>15. walk'.func = "hash" /\ walk' # Idle
  BY <1>1 DEF Walking, Idle
<1>16. M \cup {v} = inserted \ L2
  BY <1>1, <1>2, <1>5, <1>12
<1>17. ~Crowded(m)
  <2>1. IsFiniteSet(inserted)
    BY <1>1, HashmapAssumption, FS_Subset
  <2>2. Cardinality(M \cup {v}) <= Cardinality(inserted)
    BY <1>16, <2>1, FS_Subset
  <2>3. m.nb_elment = Cardinality(M \cup {v}) /\ m.nb_elment \in Nat
    BY <1>10 DEF Holds, IsMap
  <2>4. Cardinality(inserted) \in Nat
    BY <2>1, FS_CardinalityType
  <2>5. helper.mod \in Nat \ {0}
    BY <1>1 DEF IsMap
  <2> QED
    BY <1>1, <1>10, <2>2, <2>3, <2>4, <2>5 DEF Crowded
<1>18. HashState(L2, rank2)'
  BY <1>1, <1>9, <1>10, <1>12, <1>14, <1>15, <1>16, <1>17, <1>13 DEF HashState, Settled, Rehashing
<1> QED
  BY <1>18

(* hashmap_to_string prints an element that was not printed.               *)
LEMMA ApplyPrintStep ==
  ASSUME NEW L, NEW rank, HashState(L, rank), BufferKept, ApplyPrint
  PROVE  BufferKept' /\ \E L2, r2 : HashState(L2, r2)'
<1>1. /\ walk # Idle /\ walk.down = FALSE /\ walk.path # <<>> /\ walk.func = "print"
      /\ walk' = [walk EXCEPT !.path = Popped]
      /\ next' = next /\ hm' = hm /\ helper' = helper /\ inserted' = inserted
      /\ inserted \subseteq Values /\ L \subseteq inserted /\ rank \in [Values -> Nat]
      /\ Walking(L, rank) /\ Texts \cup L = inserted /\ Texts \cap L = {}
  BY DEF HashState, ApplyPrint, Walking
<1>2. PICK v : v = At(Top)
  OBVIOUS
<1>3. v \in L /\ v \in Values
  BY <1>1, <1>2, TopIs
<1>4. PICK L2 : L2 = L \ {v}
  OBVIOUS
<1>5. Walking(L2, rank)'
  <2>1. IF Rehashing THEN helper' = helper ELSE hm' = hm
    BY <1>1
  <2>2. \A u \in L2 : next'[u] = next[u] /\ rank[u] = rank[u]
    BY <1>1
  <2> QED
    BY <1>1, <1>2, <1>4, <2>1, <2>2, ApplyKeeps
<1>6. walk'.func = "print" /\ walk' # Idle
  BY <1>1 DEF Walking, Idle
<1>7. PICK n : n = Len(buf.text)
  OBVIOUS
<1>8. /\ buf' = [text |-> Append(buf.text, v), cursor |-> buf.cursor + Printed(v), top |-> Grown(buf)]
      /\ buf'.text = Append(buf.text, v) /\ buf'.cursor = buf.cursor + Printed(v)
      /\ buf'.top = Grown(buf)
  BY <1>2 DEF ApplyPrint
<1>9. /\ buf.text \in Seq(Values) /\ buf.cursor \in Nat /\ buf.top \in Nat /\ n \in Nat
      /\ \A i, j \in 1 .. n : i # j => buf.text[i] # buf.text[j]
      /\ \/ buf.top = 0 /\ buf.cursor = 0
         \/ buf.top >= Slack /\ buf.cursor + 1 <= buf.top
  BY <1>7 DEF BufferKept
<1>10. /\ buf'.text \in Seq(Values) /\ Len(buf'.text) = n + 1 /\ buf'.text[n + 1] = v
       /\ \A i \in 1 .. n : buf'.text[i] = buf.text[i]
  BY <1>3, <1>7, <1>8, <1>9
<1>11. \A i \in 1 .. n + 1 : i \in 1 .. n \/ i = n + 1
  BY <1>9
<1>12. \A i \in 1 .. n : buf.text[i] \in Texts
  BY <1>7 DEF Texts
<1>13. Texts' = Texts \cup {v}
  <2>1. Texts' = {buf'.text[i] : i \in 1 .. n + 1}
    BY <1>10 DEF Texts
  <2>2. Texts = {buf.text[i] : i \in 1 .. n}
    BY <1>7 DEF Texts
  <2>3. \A i \in 1 .. n : buf.text[i] = buf'.text[i] /\ i \in 1 .. n + 1
    BY <1>9, <1>10
  <2>4. n + 1 \in 1 .. n + 1 /\ buf'.text[n + 1] = v
    BY <1>9, <1>10
  <2> QED
    BY <1>11, <2>1, <2>2, <2>3, <2>4
<1>14. \A i, j \in 1 .. n + 1 : i # j => buf'.text[i] # buf'.text[j]
  <2>1. \A i \in 1 .. n : buf.text[i] # v
    BY <1>1, <1>3, <1>12
  <2> QED
    BY <1>9, <1>10, <1>11, <2>1
<1>15. buf'.cursor \in Nat /\ buf'.top \in Nat /\ buf'.top >= Slack /\ buf'.cursor + 1 <= buf'.top
  <2>1. PICK p : p = Printed(v)
    OBVIOUS
  <2>2. p \in 1 .. Slack - 1 /\ Slack \in Nat \ {0}
    BY <1>3, <2>1, HashmapAssumption
  <2>3. buf'.cursor = buf.cursor + p
    BY <1>8, <2>1
  <2>4. buf'.top = IF buf.cursor + Slack <= buf.top THEN buf.top
                   ELSE IF buf.top = 0 THEN Slack ELSE 2 * buf.top
    BY <1>8 DEF Grown
  <2>5. PICK c, t : c = buf.cursor /\ t = buf.top
    OBVIOUS
  <2>6. c \in Nat /\ t \in Nat /\ ((t = 0 /\ c = 0) \/ (t >= Slack /\ c + 1 <= t))
    BY <1>9, <2>5
  <2>7. c + p \in Nat /\ c + p < c + Slack
    BY <2>2, <2>6
  <2>8. CASE c + Slack <= t
    BY <2>2, <2>3, <2>4, <2>5, <2>6, <2>7, <2>8
  <2>9. CASE ~(c + Slack <= t) /\ t = 0
    BY <2>2, <2>3, <2>4, <2>5, <2>6, <2>7, <2>9
  <2>10. CASE ~(c + Slack <= t) /\ t # 0
    <3>1. buf'.top = 2 * t
      BY <2>4, <2>5, <2>10
    <3>2. t >= Slack /\ c + 1 <= t
      BY <2>6, <2>10
    <3>3. buf'.cursor = c + p
      BY <2>3, <2>5
    <3>4. 2 * t \in Nat /\ 2 * t >= Slack /\ c + p + 1 <= 2 * t
      BY <2>2, <2>6, <2>7, <3>2
    <3> QED
      BY <2>7, <3>1, <3>3, <3>4
  <2> QED
    BY <2>8, <2>9, <2>10
<1>16. BufferKept'
  BY <1>8, <1>10, <1>14, <1>15 DEF BufferKept
<1>17. Texts' \cup L2 = inserted' /\ Texts' \cap L2 = {} /\ L2 \subseteq inserted'
  BY <1>1, <1>3, <1>4, <1>13
<1>18. Settled(L2)' = inserted' /\ Settled(L) = inserted
  BY <1>1, <1>6 DEF Settled, Rehashing
<1>19. HashState(L2, rank)'
  BY <1>1, <1>5, <1>6, <1>17, <1>18 DEF HashState, Rehashing
<1> QED
  BY <1>16, <1>19
-------------------------------------------------------------------------------
(* Every step of the test program keeps the invariant.                     *)
LEMMA HashKeeps == ASSUME HashInv, [HashNext]_hashVars PROVE HashInv'
<1>1. BufferKept /\ \E L, rank : HashState(L, rank)
  BY DEF HashInv
<1>2. PICK L, rank : HashState(L, rank)
  BY <1>1
<1>3. ASSUME UNCHANGED buf PROVE BufferKept'
  BY <1>1, <1>3 DEF BufferKept
<1>4. ASSUME NEW v \in Values, Insert(v) PROVE HashInv'
  BY <1>2, <1>3, <1>4, InsertStep DEF HashInv, Insert
<1>5. CASE hashmap_to_string
  <2>1. BufferKept'
    <3>1. buf' = [text |-> <<>>, cursor |-> 0, top |-> 0]
      BY <1>5 DEF hashmap_to_string
    <3> QED
      BY <3>1 DEF BufferKept
  <2> QED
    BY <1>2, <1>5, <2>1, HashmapToStringStep DEF HashInv
<1>6. CASE Recurse
  BY <1>2, <1>3, <1>6, RecurseStep DEF HashInv, Recurse
<1>7. CASE ApplyHash
  BY <1>2, <1>3, <1>7, ApplyHashStep DEF HashInv, ApplyHash
<1>8. CASE ApplyPrint
  BY <1>1, <1>2, <1>8, ApplyPrintStep DEF HashInv
<1>9. CASE NextBucket
  BY <1>2, <1>3, <1>9, NextBucketStep DEF HashInv, NextBucket
<1>10. CASE UNCHANGED hashVars
  <2>1. next' = next /\ hm' = hm /\ helper' = helper /\ walk' = walk /\ buf' = buf /\ inserted' = inserted
    BY <1>10 DEF hashVars
  <2>2. Walking(L, rank)' <=> Walking(L, rank)
    BY <2>1 DEF Walking, Map, Calls, At
  <2>3. HashState(L, rank)'
    BY <1>2, <2>1, <2>2 DEF HashState, Settled, Rehashing, Texts
  <2> QED
    BY <1>3, <2>1, <2>3 DEF HashInv
<1> QED
  BY <1>4, <1>5, <1>6, <1>7, <1>8, <1>9, <1>10 DEF HashNext

(* The elements still to be moved are those the walk has still to do with. *)
LEMMA UnmovedAre ==
  ASSUME NEW L, L \subseteq Values, NEW rank \in [Values -> Nat],
         next \in [Values -> Values \cup {NULL}], Walking(L, rank), Rehashing
  PROVE  Unmoved = L
<1> DEFINE S == Part(L, helper.mod, walk.i)
           Met == {At(walk.path[k]) : k \in 1 .. Len(walk.path)} \ {NULL}
           Below == IF walk.down /\ walk.path # <<>> THEN Members(Top) ELSE {}
           After == UNION {Members(<<"helper", i>>) : i \in walk.i + 1 .. helper.mod - 1}
<1>1. /\ Map = helper /\ walk # Idle /\ walk.func # "print" /\ walk.down \in BOOLEAN
      /\ helper.mod \in Nat \ {0} /\ walk.i \in 0 .. helper.mod - 1 /\ Len(walk.path) \in Nat
  BY WalkIs DEF Walking, Rehashing
<1>2. Unmoved = Met \cup Below \cup After
  BY <1>1 DEF Unmoved
<1>3. After = {v \in L : v % helper.mod \in walk.i + 1 .. helper.mod - 1}
  <2>1. ASSUME NEW j \in walk.i + 1 .. helper.mod - 1
        PROVE  Members(<<"helper", j>>) = Part(L, helper.mod, j)
    <3>1. Chained(next, helper.nodes[j], Part(L, helper.mod, j), rank)
      BY <1>1, <2>1 DEF Walking
    <3>2. PICK m, name : m = helper /\ name = "helper"
      OBVIOUS
    <3>3. /\ name \in {"hm", "helper"} /\ m = IF name = "hm" THEN hm ELSE helper
          /\ Chained(next, m.nodes[j], Part(L, m.mod, j), rank)
      BY <3>1, <3>2
    <3>4. Members(<<name, j>>) = Part(L, m.mod, j)
      BY <3>3, BucketHolds
    <3> QED
      BY <3>2, <3>4
  <2>2. PICK J : J = walk.i + 1 .. helper.mod - 1
    OBVIOUS
  <2>3. After = UNION {Part(L, helper.mod, j) : j \in J}
    BY <2>1, <2>2
  <2>4. \A v : v \in UNION {Part(L, helper.mod, j) : j \in J} <=> v \in L /\ v % helper.mod \in J
    BY DEF Part
  <2> QED
    BY <2>2, <2>3, <2>4
<1>4. \A v \in L : v % helper.mod = walk.i \/ v % helper.mod \in walk.i + 1 .. helper.mod - 1
  <2>1. ASSUME NEW v \in L
        PROVE  v % helper.mod = walk.i \/ v % helper.mod \in walk.i + 1 .. helper.mod - 1
    <3>1. walk.i <= v % helper.mod
      BY <1>1, <2>1 DEF Walking
    <3>2. v \in Nat
      BY <2>1, HashmapAssumption
    <3>3. v % helper.mod \in 0 .. helper.mod - 1
      BY <1>1, <3>2
    <3> QED
      BY <1>1, <3>1, <3>3
  <2> QED
    BY <2>1
<1>5. /\ \A k \in 1 .. Calls : At(walk.path[k]) \in S
      /\ \A v \in S : v # NULL
      /\ S \subseteq L
  BY <1>1, HashmapAssumption DEF Walking, Part, NULL
<1>6. PICK n : n = Len(walk.path)
  OBVIOUS
<1> HIDE DEF S, After
<1>7. CASE walk.down = FALSE
  <2>1. Below = {} /\ Calls = n
    BY <1>6, <1>7 DEF Calls
  <2>2. \A v \in S : \E k \in 1 .. n : v = At(walk.path[k])
    BY <1>1, <1>7, <2>1 DEF Walking, S
  <2>3. Met = S
    BY <1>5, <1>6, <2>1, <2>2
  <2> QED
    BY <1>2, <1>3, <1>4, <1>5, <2>1, <2>3 DEF S, Part
<1>8. CASE walk.down = TRUE
  <2>1. /\ At(Top) \in S \cup {NULL} /\ Members(Top) \subseteq L
        /\ \A v \in S : v \in Members(Top) \/ \E k \in 1 .. Calls : v = At(walk.path[k])
    BY <1>1, <1>8, CallsHaveAll DEF S
  <2>2. Below = Members(Top) /\ Calls = n - 1 /\ Top = walk.path[n] /\ n \in Nat
    BY <1>1, <1>6, <1>8 DEF Walking, Calls, Top
  <2>3. \A k \in 1 .. n : k \in 1 .. n - 1 \/ k = n
    BY <2>2
  <2>4. Met \subseteq S
    BY <1>5, <1>6, <2>1, <2>2, <2>3
  <2>5. \A k \in 1 .. n - 1 : k \in 1 .. n
    BY <2>2
  <2>6. S \subseteq Met \cup Members(Top)
    BY <1>5, <1>6, <2>1, <2>2, <2>5
  <2> QED
    BY <1>2, <1>3, <1>4, <1>5, <2>1, <2>2, <2>4, <2>6 DEF S, Part
<1> QED
  BY <1>1, <1>7, <1>8

(* For any values, inserted in any order, and any number of rehashes: each *)
(* element inserted is found in its bucket or still to be moved, exactly   *)
(* one of the two, the count is right and no rehash begins inside another  *)
(* (main.c:101-134).                                                       *)
THEOREM RehashLosesNothing == HashSpec => []NoElementLost
<1>1. ASSUME HashInv PROVE NoElementLost
  <2>1. PICK L, rank : HashState(L, rank)
    BY <1>1 DEF HashInv
  <2>2. PICK M : M = Settled(L)
    OBVIOUS
  <2>3. /\ next \in [Values -> Values \cup {NULL}] /\ inserted \subseteq Values
        /\ L \subseteq inserted /\ rank \in [Values -> Nat] /\ ~Crowded(hm)
        /\ Holds(next, hm, M, rank) /\ (walk = Idle \/ Walking(L, rank))
    BY <2>1, <2>2 DEF HashState
  <2>4. /\ IsMap(hm) /\ M \subseteq Values /\ DOMAIN hm.nodes = 0 .. hm.mod - 1
        /\ hm.mod \in Nat \ {0} /\ hm.nb_elment = Cardinality(M)
        /\ \A j \in 0 .. hm.mod - 1 : Chained(next, hm.nodes[j], Part(M, hm.mod, j), rank)
    BY <2>3 DEF Holds, IsMap
  <2>5. Moved = M
    <3>1. ASSUME NEW j \in 0 .. hm.mod - 1
          PROVE  Members(<<"hm", j>>) = Part(M, hm.mod, j)
      <4>1. PICK m, name : m = hm /\ name = "hm"
        OBVIOUS
      <4>2. /\ name \in {"hm", "helper"} /\ m = IF name = "hm" THEN hm ELSE helper
            /\ Chained(next, m.nodes[j], Part(M, m.mod, j), rank)
        BY <2>4, <3>1, <4>1
      <4>3. Members(<<name, j>>) = Part(M, m.mod, j)
        BY <2>3, <2>4, <4>2, BucketHolds
      <4> QED
        BY <4>1, <4>3
    <3>2. \A v \in M : v % hm.mod \in 0 .. hm.mod - 1
      <4>1. \A v \in M : v \in Nat
        BY <2>4, HashmapAssumption
      <4> QED
        BY <2>4, <4>1
    <3>3. Moved = UNION {Part(M, hm.mod, j) : j \in 0 .. hm.mod - 1}
      BY <2>4, <3>1 DEF Moved
    <3> QED
      BY <3>2, <3>3 DEF Part
  <2>6. Unmoved = IF Rehashing THEN L ELSE {}
    <3>1. CASE Rehashing
      <4>1. Walking(L, rank)
        BY <2>3, <3>1 DEF Rehashing, Idle
      <4> QED
        BY <2>3, <3>1, <4>1, UnmovedAre
    <3>2. CASE ~Rehashing
      <4>1. walk = Idle \/ walk.func = "print"
        BY <2>3, <3>2 DEF Rehashing, Walking
      <4> QED
        BY <3>2, <4>1 DEF Unmoved
    <3> QED
      BY <3>1, <3>2
  <2>7. Moved \cup Unmoved = inserted /\ Moved \cap Unmoved = {}
    BY <2>2, <2>3, <2>5, <2>6 DEF Settled
  <2>8. \A v \in Moved : has_elmt(v)
    BY <2>3, <2>4, <2>5, HasIs
  <2> QED
    BY <2>3, <2>4, <2>5, <2>7, <2>8 DEF NoElementLost
<1>2. HashInit => HashInv
  BY HashBegins
<1>3. HashInv /\ [HashNext]_hashVars => HashInv'
  BY HashKeeps
<1> QED
  BY <1>1, <1>2, <1>3, PTL DEF HashSpec

(* For any values whose decimals fit in the room kept: no append of        *)
(* hashmap_to_string goes past the buffer, whose size doubles at most once *)
(* for each, and the string has every element once (main.c:29-43).         *)
THEOREM StringsFit == HashSpec => []AppendFits
<1>1. ASSUME HashInv PROVE AppendFits
  <2>1. PICK L, rank : HashState(L, rank)
    BY <1>1 DEF HashInv
  <2>2. BufferKept
    BY <1>1 DEF HashInv
  <2>3. buf.cursor > 0 => buf.cursor + 1 <= buf.top
    BY <2>2 DEF BufferKept
  <2>4. \A i, j \in 1 .. Len(buf.text) : i # j => buf.text[i] # buf.text[j]
    BY <2>2 DEF BufferKept
  <2>5. ASSUME walk # Idle, walk.func = "print", walk.path = <<>>, walk.i + 1 = hm.mod
        PROVE  Texts = inserted
    <3>1. /\ Walking(L, rank) /\ Texts \cup L = inserted /\ L \subseteq inserted
          /\ inserted \subseteq Values
      BY <2>1, <2>5 DEF HashState
    <3>2. /\ Map = hm /\ hm.mod \in Nat \ {0} /\ walk.i \in Nat
      BY <2>5, <3>1, WalkIs DEF Rehashing
    <3>3. walk.down = FALSE /\ Calls = 0
      BY <2>5, <3>1 DEF Walking, Calls
    <3>4. \A v \in Part(L, hm.mod, walk.i) : FALSE
      <4>1. \A v \in Part(L, hm.mod, walk.i) : \E k \in 1 .. 0 : v = At(walk.path[k])
        BY <3>1, <3>2, <3>3 DEF Walking
      <4>2. 1 .. 0 = {}
        OBVIOUS
      <4> QED
        BY <4>1, <4>2
    <3>5. ASSUME NEW v \in L PROVE v \in Part(L, hm.mod, walk.i)
      <4>1. v \in Nat
        BY <3>1, <3>5, HashmapAssumption
      <4>2. walk.i <= v % hm.mod
        BY <3>1, <3>2, <3>5 DEF Walking
      <4>3. v % hm.mod = walk.i
        BY <2>5, <3>2, <4>1, <4>2
      <4> QED
        BY <3>5, <4>3 DEF Part
    <3> QED
      BY <3>1, <3>4, <3>5
  <2> QED
    BY <2>3, <2>4, <2>5 DEF AppendFits, Texts
<1>2. HashInit => HashInv
  BY HashBegins
<1>3. HashInv /\ [HashNext]_hashVars => HashInv'
  BY HashKeeps
<1> QED
  BY <1>1, <1>2, <1>3, PTL DEF HashSpec
===============================================================================
