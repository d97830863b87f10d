------------------------------- MODULE GcProofs -------------------------------
(***************************************************************************)
(* Theorems about Gc, for every number of threads and of pages, and every  *)
(* size of the pages and of the zones.  Those about the heap need sizes of *)
(* objects whose elements divide the high half of the addresses            *)
(* (HighDivides) and which their classes serve (SizesServed).              *)
(*                                                                         *)
(* The argument has three parts, one for each piece of state: the circular *)
(* list has an order (a function from 0 .. n to the descriptors), no       *)
(* thread holds a statistic from the future, and the heap is cut in zones  *)
(* whose elements the live, returned and freed objects are.                *)
(***************************************************************************)
EXTENDS Gc, FiniteSetTheorems, WellFoundedInduction, TLAPS

(* A non-empty set of natural numbers has a least element. *)
LEMMA Lowest ==
  ASSUME NEW S \in SUBSET Nat, S # {}
  PROVE  \E p \in S : \A q \in S : p <= q
<1> DEFINE Less == {ss \in Nat \X Nat : ss[1] < ss[2]}
<1>1. IsWellFoundedOn(Less, Nat)
  <2>1. OpToRel(<, Nat) = Less
    BY DEF OpToRel
  <2> QED
    BY <2>1, NatLessThanWellFounded
<1>2. PICK p \in S : \A q \in S : ~(<<q, p>> \in Less)
  <2> HIDE DEF Less
  <2> QED
    BY <1>1, WFMin
<1>3. ASSUME NEW q \in S PROVE p <= q
  <2>1. ~(q < p)
    BY <1>2
  <2> QED
    BY <2>1
<1> QED
  BY <1>3

(* What follows a chain of n links from x.                                 *)
Follows(f, n, x, link) ==
  f = [k \in 0 .. n |-> IF k = 0 THEN x ELSE link[f[k - 1]]]

(* Links between the elements of a set can be followed as long as wanted.  *)
LEMMA FollowsExists ==
  ASSUME NEW D, NEW link \in [D -> D], NEW x \in D, NEW n \in Nat
  PROVE  \E f \in [0 .. n -> D] : Follows(f, n, x, link)
<1> DEFINE S == {j \in Nat : ~ \E f \in [0 .. j -> D] : Follows(f, j, x, link)}
<1>1. S = {}
  <2> SUFFICES ASSUME S # {} PROVE FALSE
    OBVIOUS
  <2>1. PICK p \in S : \A q \in S : p <= q
    <3>1. S \in SUBSET Nat
      OBVIOUS
    <3> HIDE DEF S
    <3> QED
      BY <3>1, Lowest
  <2>2. CASE p = 0
    <3> DEFINE f == [k \in 0 .. 0 |-> x]
    <3>1. f \in [0 .. 0 -> D] /\ Follows(f, 0, x, link)
      BY DEF Follows
    <3> QED
      BY <2>2, <3>1
  <2>3. CASE p # 0
    <3>1. PICK g \in [0 .. p - 1 -> D] : Follows(g, p - 1, x, link)
      <4>1. p - 1 \in Nat /\ ~(p <= p - 1)
        BY <2>3
      <4> QED
        BY <2>1, <4>1
    <3> DEFINE f == [k \in 0 .. p |-> IF k = p THEN link[g[p - 1]] ELSE g[k]]
    <3>2. /\ \A k \in 0 .. p - 1 : g[k] \in D
          /\ \A k \in 0 .. p - 1 : g[k] = IF k = 0 THEN x ELSE link[g[k - 1]]
      BY <3>1 DEF Follows
    <3>3. f \in [0 .. p -> D]
      BY <2>3, <3>2
    <3>4. \A k \in 0 .. p : f[k] = IF k = 0 THEN x ELSE link[f[k - 1]]
      <4> TAKE k \in 0 .. p
      <4>1. CASE k = p
        BY <4>1, <2>3
      <4>2. CASE k # p /\ k = 0
        BY <4>2, <3>2
      <4>3. CASE k # p /\ k # 0
        <5>1. k \in 0 .. p - 1 /\ k - 1 \in 0 .. p - 1 /\ k - 1 # p /\ k - 1 \in 0 .. p
          BY <4>3
        <5>2. f[k] = g[k] /\ f[k - 1] = g[k - 1]
          BY <4>3, <5>1
        <5> QED
          BY <3>2, <4>3, <5>1, <5>2
      <4> QED
        BY <4>1, <4>2, <4>3
    <3>5. Follows(f, p, x, link)
      <4>1. DOMAIN f = 0 .. p
        OBVIOUS
      <4> HIDE DEF f
      <4> QED
        BY <3>3, <3>4, <4>1 DEF Follows
    <3> QED
      BY <3>3, <3>5
  <2> QED
    BY <2>2, <2>3
<1> QED
  BY <1>1
-------------------------------------------------------------------------------
(* The descriptors of A in the order of the list l, after the head.        *)
Ring(l, A, n, s) ==
  /\ n \in Nat /\ s \in [0 .. n -> Descriptors]
  /\ s[0] = all_threads
  /\ \A i, j \in 0 .. n : s[i] = s[j] => i = j
  /\ {s[i] : i \in 0 .. n} = A \cup {all_threads}
  /\ \A i \in 0 .. n : l.next[s[i]] = s[IF i = n THEN 0 ELSE i + 1]
  /\ \A i \in 0 .. n : l.prev[s[i]] = s[IF i = 0 THEN n ELSE i - 1]

Listed(l, A) == l \in Lists /\ \E n, s : Ring(l, A, n, s)

(* initialise_gc (gc.c:11): the head alone.                                *)
LEMMA InitiallyListed == Listed(initialise_gc, {})
<1> DEFINE s == [i \in 0 .. 0 |-> all_threads]
<1>1. Ring(initialise_gc, {}, 0, s)
  BY DEF Ring, initialise_gc, Descriptors
<1>2. initialise_gc \in Lists
  BY DEF initialise_gc, Lists
<1> QED
  BY <1>1, <1>2 DEF Listed

(* A new thread comes last, before the head.                               *)
LEMMA AttachListed ==
  ASSUME NEW l, NEW A \in SUBSET Threads, NEW t \in Threads \ A, Listed(l, A)
  PROVE  Listed(attach_thread(l, t), A \cup {t})
<1>1. PICK n, s : Ring(l, A, n, s)
  BY DEF Listed
<1> DEFINE m == attach_thread(l, t)
           r == [i \in 0 .. n + 1 |-> IF i = n + 1 THEN t ELSE s[i]]
<1>2. t # all_threads /\ t \in Descriptors /\ all_threads \in Descriptors
  BY ThreadListAssumption DEF Descriptors
<1>3. /\ l.next \in [Descriptors -> Descriptors] /\ l.prev \in [Descriptors -> Descriptors]
      /\ l.prev[all_threads] = s[n] /\ s[n] \in Descriptors /\ n \in Nat
  BY <1>1 DEF Listed, Lists, Ring
<1>4. /\ m.next = [l.next EXCEPT ![s[n]] = t, ![t] = all_threads]
      /\ m.prev = [l.prev EXCEPT ![t] = s[n], ![all_threads] = t]
      /\ m \in Lists
  BY <1>2, <1>3 DEF attach_thread, Lists
<1>5. \A i \in 0 .. n : s[i] # t /\ s[i] \in Descriptors
  BY <1>1, <1>2 DEF Ring
<1> HIDE DEF m
<1>6. /\ r[n + 1] = t /\ \A i \in 0 .. n : r[i] = s[i]
      /\ r \in [0 .. n + 1 -> Descriptors] /\ n + 1 \in Nat
  BY <1>2, <1>3, <1>5
<1> HIDE DEF r
<1>7. r[0] = all_threads
  BY <1>1, <1>3, <1>6 DEF Ring
<1>8. \A i, j \in 0 .. n + 1 : r[i] = r[j] => i = j
  <2> SUFFICES ASSUME NEW i \in 0 .. n + 1, NEW j \in 0 .. n + 1, r[i] = r[j] PROVE i = j
    OBVIOUS
  <2>1. (i = n + 1 \/ i \in 0 .. n) /\ (j = n + 1 \/ j \in 0 .. n)
    BY <1>3
  <2> QED
    BY <1>1, <1>5, <1>6, <2>1 DEF Ring
<1>9. {r[i] : i \in 0 .. n + 1} = (A \cup {t}) \cup {all_threads}
  <2>1. 0 .. n + 1 = (0 .. n) \cup {n + 1}
    BY <1>3
  <2>2. {s[i] : i \in 0 .. n} = A \cup {all_threads}
    BY <1>1 DEF Ring
  <2>3. {r[i] : i \in 0 .. n + 1} = {s[i] : i \in 0 .. n} \cup {t}
    BY <1>6, <2>1
  <2> QED
    BY <2>2, <2>3
<1>10. \A i \in 0 .. n + 1 : m.next[r[i]] = r[IF i = n + 1 THEN 0 ELSE i + 1]
  <2> TAKE i \in 0 .. n + 1
  <2>1. CASE i = n + 1
    BY <2>1, <1>2, <1>3, <1>4, <1>6, <1>7
  <2>2. CASE i = n
    BY <2>2, <1>2, <1>3, <1>4, <1>5, <1>6
  <2>3. CASE i \in 0 .. n - 1
    <3>1. i \in 0 .. n /\ i + 1 \in 0 .. n /\ i # n /\ i # n + 1 /\ n \in 0 .. n
      BY <2>3, <1>3
    <3>2. l.next[s[i]] = s[i + 1] /\ s[i] # s[n]
      BY <1>1, <3>1 DEF Ring
    <3> QED
      BY <1>3, <1>4, <1>5, <1>6, <3>1, <3>2
  <2> QED
    BY <1>3, <2>1, <2>2, <2>3
<1>11. \A i \in 0 .. n + 1 : m.prev[r[i]] = r[IF i = 0 THEN n + 1 ELSE i - 1]
  <2> TAKE i \in 0 .. n + 1
  <2>1. CASE i = 0
    BY <2>1, <1>2, <1>3, <1>4, <1>6, <1>7
  <2>2. CASE i = n + 1
    BY <2>2, <1>2, <1>3, <1>4, <1>6
  <2>3. CASE i \in 1 .. n
    <3>1. i \in 0 .. n /\ i - 1 \in 0 .. n /\ 0 \in 0 .. n /\ i # 0
      BY <2>3, <1>3
    <3>2. l.prev[s[i]] = s[i - 1] /\ s[i] # s[0] /\ s[0] = all_threads
      BY <1>1, <3>1 DEF Ring
    <3> QED
      BY <1>2, <1>3, <1>4, <1>5, <1>6, <3>1, <3>2
  <2> QED
    BY <1>3, <2>1, <2>2, <2>3
<1>12. Ring(m, A \cup {t}, n + 1, r)
  BY <1>6, <1>7, <1>8, <1>9, <1>10, <1>11 DEF Ring
<1> QED
  BY <1>4, <1>12 DEF Listed, m

(* A thread that leaves is skipped in both directions.                     *)
LEMMA DetachListed ==
  ASSUME NEW l, NEW A \in SUBSET Threads, NEW t \in A, Listed(l, A)
  PROVE  Listed(detach_thread(l, t), A \ {t})
<1>1. PICK n, s : Ring(l, A, n, s)
  BY DEF Listed
<1>2. PICK j \in 1 .. n : s[j] = t
  <2>1. t \in {s[i] : i \in 0 .. n} /\ s[0] # t
    BY <1>1, ThreadListAssumption DEF Ring
  <2>2. PICK i \in 0 .. n : s[i] = t
    BY <2>1
  <2> QED
    BY <2>1, <2>2
<1> DEFINE m == detach_thread(l, t)
           r == [i \in 0 .. n - 1 |-> IF i < j THEN s[i] ELSE s[i + 1]]
           after == IF j = n THEN 0 ELSE j + 1
<1>3. /\ n \in Nat /\ j \in 0 .. n /\ j - 1 \in 0 .. n /\ after \in 0 .. n /\ n - 1 \in Nat
      /\ j - 1 # j /\ after # j
  BY <1>1, <1>2 DEF Ring
<1>4. /\ l.next \in [Descriptors -> Descriptors] /\ l.prev \in [Descriptors -> Descriptors]
      /\ l.prev[t] = s[j - 1] /\ l.next[t] = s[after]
      /\ \A i \in 0 .. n : s[i] \in Descriptors
      /\ \A i, k \in 0 .. n : s[i] = s[k] => i = k
      /\ \A i \in 0 .. n : i # j => s[i] # t
  BY <1>1, <1>2, <1>3 DEF Listed, Lists, Ring
<1>5. /\ m.next = [l.next EXCEPT ![s[j - 1]] = s[after], ![t] = t]
      /\ m.prev = [l.prev EXCEPT ![s[after]] = s[j - 1], ![t] = t]
      /\ m \in Lists
  <2>1. t \in Descriptors
    BY <1>2, <1>3, <1>4
  <2> QED
    BY <2>1, <1>3, <1>4 DEF detach_thread, Lists
<1> HIDE DEF m
<1>6. \A i \in 0 .. n : i # j =>
        /\ m.next[s[i]] = IF i = j - 1 THEN s[after] ELSE l.next[s[i]]
        /\ m.prev[s[i]] = IF i = after THEN s[j - 1] ELSE l.prev[s[i]]
  BY <1>3, <1>4, <1>5
<1> DEFINE at(i) == IF i < j THEN i ELSE i + 1
<1>7. /\ \A i \in 0 .. n - 1 : at(i) \in 0 .. n /\ at(i) # j /\ r[i] = s[at(i)]
      /\ \A i, k \in 0 .. n - 1 : at(i) = at(k) => i = k
      /\ at(0) = 0
  BY <1>2, <1>3
<1>8. r \in [0 .. n - 1 -> Descriptors]
  BY <1>4, <1>7
<1> HIDE DEF r
<1>9. r[0] = all_threads
  <2>1. 0 \in 0 .. n - 1
    BY <1>2, <1>3
  <2> QED
    BY <1>1, <1>7, <2>1 DEF Ring
<1>10. \A i, k \in 0 .. n - 1 : r[i] = r[k] => i = k
  BY <1>4, <1>7
<1>11. {r[i] : i \in 0 .. n - 1} = (A \ {t}) \cup {all_threads}
  <2>1. {s[i] : i \in 0 .. n} = A \cup {all_threads} /\ t # all_threads
    BY <1>1, ThreadListAssumption DEF Ring
  <2>2. ASSUME NEW i \in 0 .. n, i # j PROVE \E k \in 0 .. n - 1 : r[k] = s[i]
    <3> DEFINE k == IF i < j THEN i ELSE i - 1
    <3>1. k \in 0 .. n - 1 /\ at(k) = i
      BY <2>2, <1>2, <1>3
    <3> QED
      BY <3>1, <1>7
  <2>3. {r[i] : i \in 0 .. n - 1} = {s[i] : i \in 0 .. n} \ {t}
    <3>1. ASSUME NEW i \in 0 .. n - 1 PROVE r[i] \in {s[k] : k \in 0 .. n} \ {t}
      BY <1>4, <1>7
    <3>2. ASSUME NEW x \in {s[k] : k \in 0 .. n} \ {t} PROVE x \in {r[i] : i \in 0 .. n - 1}
      <4>1. PICK i \in 0 .. n : x = s[i]
        BY <3>2
      <4>2. i # j
        BY <3>2, <4>1, <1>2
      <4>3. PICK k \in 0 .. n - 1 : r[k] = s[i]
        BY <2>2, <4>2
      <4> QED
        BY <4>1, <4>3
    <3> QED
      BY <3>1, <3>2
  <2> QED
    BY <2>1, <2>3
<1>12. \A i \in 0 .. n - 1 : m.next[r[i]] = r[IF i = n - 1 THEN 0 ELSE i + 1]
  <2> TAKE i \in 0 .. n - 1
  <2>1. m.next[r[i]] = IF at(i) = j - 1 THEN s[after]
                       ELSE s[IF at(i) = n THEN 0 ELSE at(i) + 1]
    BY <1>1, <1>3, <1>6, <1>7 DEF Ring
  <2> DEFINE k == IF i = n - 1 THEN 0 ELSE i + 1
  <2>2. k \in 0 .. n - 1
    BY <1>3
  <2>3. CASE at(i) = j - 1
    <3>1. at(k) = after
      BY <2>3, <1>2, <1>3
    <3> QED
      BY <2>1, <2>2, <2>3, <3>1, <1>7
  <2>4. CASE at(i) # j - 1
    <3>1. at(k) = IF at(i) = n THEN 0 ELSE at(i) + 1
      BY <2>4, <1>2, <1>3
    <3> QED
      BY <2>1, <2>2, <2>4, <3>1, <1>7
  <2> QED
    BY <2>3, <2>4
<1>13. \A i \in 0 .. n - 1 : m.prev[r[i]] = r[IF i = 0 THEN n - 1 ELSE i - 1]
  <2> TAKE i \in 0 .. n - 1
  <2>1. m.prev[r[i]] = IF at(i) = after THEN s[j - 1]
                       ELSE s[IF at(i) = 0 THEN n ELSE at(i) - 1]
    <3>1. \A p \in 0 .. n : p # j =>
            m.prev[s[p]] = IF p = after THEN s[j - 1] ELSE s[IF p = 0 THEN n ELSE p - 1]
      <4> HIDE DEF after
      <4> QED
        BY <1>1, <1>6 DEF Ring
    <3> QED
      BY <1>7, <3>1
  <2> DEFINE k == IF i = 0 THEN n - 1 ELSE i - 1
  <2>2. k \in 0 .. n - 1
    BY <1>3
  <2>3. CASE at(i) = after
    <3>1. at(k) = j - 1
      BY <2>3, <1>2, <1>3
    <3> QED
      BY <2>1, <2>2, <2>3, <3>1, <1>7
  <2>4. CASE at(i) # after
    <3>1. at(k) = IF at(i) = 0 THEN n ELSE at(i) - 1
      BY <2>4, <1>2, <1>3
    <3> QED
      BY <2>1, <2>2, <2>4, <3>1, <1>7
  <2> QED
    BY <2>3, <2>4
<1>14. Ring(m, A \ {t}, n - 1, r)
  BY <1>3, <1>8, <1>9, <1>10, <1>11, <1>12, <1>13 DEF Ring
<1> QED
  BY <1>5, <1>14 DEF Listed, m

(* Following the links from the head meets the threads of the list.        *)
LEMMA WalkListed ==
  ASSUME NEW l, NEW A \in SUBSET Threads, Listed(l, A)
  PROVE  {Walk(l.next)[k] : k \in DOMAIN Walk(l.next)} = A \cup {all_threads}
<1>1. PICK n, s : Ring(l, A, n, s)
  BY DEF Listed
<1> DEFINE c == Cardinality(Descriptors)
           f0 == CHOOSE f : Follows(f, c, all_threads, l.next)
<1>2. IsFiniteSet(Descriptors) /\ c \in Nat
  BY ThreadListAssumption, FS_AddElement, FS_CardinalityType DEF Descriptors
<1>3. n <= c
  <2>1. s \in Injection(0 .. n, Descriptors)
    BY <1>1 DEF Ring, Injection, IsInjective
  <2>2. Cardinality(0 .. n) <= c /\ Cardinality(0 .. n) = n + 1
    BY <1>1, <1>2, <2>1, FS_Injection, FS_Interval DEF Ring
  <2> QED
    BY <1>1, <1>2, <2>2 DEF Ring
<1>4. Walk(l.next) = [k \in 0 .. c |-> f0[k]]
  BY DEF Walk, Follows
<1>5. f0[0] = all_threads /\ \A k \in 1 .. c : f0[k] = l.next[f0[k - 1]]
  <2>1. l.next \in [Descriptors -> Descriptors] /\ all_threads \in Descriptors
    BY DEF Listed, Lists, Descriptors
  <2>2. \E f : Follows(f, c, all_threads, l.next)
    <3> HIDE DEF c
    <3> QED
      BY <1>2, <2>1, FollowsExists
  <2>3. Follows(f0, c, all_threads, l.next)
    BY <2>2
  <2> HIDE DEF f0, c
  <2> QED
    BY <1>2, <2>3 DEF Follows
<1> HIDE DEF f0, c
<1>6. \A k \in 0 .. n : f0[k] = s[k]
  <2> DEFINE S == {k \in 0 .. n : f0[k] # s[k]}
  <2>1. S = {}
    <3> SUFFICES ASSUME S # {} PROVE FALSE
      OBVIOUS
    <3>1. PICK p \in S : \A q \in S : p <= q
      <4>1. S \in SUBSET Nat
        BY <1>1 DEF Ring
      <4> HIDE DEF S
      <4> QED
        BY <4>1, Lowest
    <3>2. n \in Nat /\ s[0] = all_threads
      BY <1>1 DEF Ring
    <3>3. p \in 1 .. n /\ p - 1 \in 0 .. n /\ ~(p <= p - 1)
      BY <1>5, <3>1, <3>2
    <3>4. f0[p - 1] = s[p - 1]
      BY <3>1, <3>3
    <3>5. l.next[s[p - 1]] = s[p]
      <4>1. p - 1 # n /\ (p - 1) + 1 = p
        BY <3>2, <3>3
      <4> QED
        BY <1>1, <3>3, <4>1 DEF Ring
    <3>6. p \in 1 .. c
      BY <1>2, <1>3, <3>2, <3>3
    <3> QED
      BY <1>5, <3>4, <3>5, <3>6
  <2> QED
    BY <2>1
<1>7. \A k \in 0 .. c : f0[k] \in {s[i] : i \in 0 .. n}
  <2> DEFINE S == {k \in 0 .. c : f0[k] \notin {s[i] : i \in 0 .. n}}
  <2>1. S = {}
    <3> SUFFICES ASSUME S # {} PROVE FALSE
      OBVIOUS
    <3>1. PICK p \in S : \A q \in S : p <= q
      <4>1. S \in SUBSET Nat
        BY <1>2
      <4> HIDE DEF S
      <4> QED
        BY <4>1, Lowest
    <3>2. n \in Nat /\ s[0] = all_threads
      BY <1>1 DEF Ring
    <3>3. p \in 1 .. c /\ p - 1 \in 0 .. c /\ ~(p <= p - 1)
      BY <1>2, <1>5, <3>1, <3>2
    <3>4. PICK i \in 0 .. n : f0[p - 1] = s[i]
      BY <3>1, <3>3
    <3>5. l.next[s[i]] = s[IF i = n THEN 0 ELSE i + 1]
      BY <1>1 DEF Ring
    <3>6. (IF i = n THEN 0 ELSE i + 1) \in 0 .. n
      BY <3>2
    <3> QED
      BY <1>5, <3>1, <3>3, <3>4, <3>5, <3>6
  <2> QED
    BY <2>1
<1>8. {s[i] : i \in 0 .. n} = A \cup {all_threads} /\ 0 .. n \subseteq 0 .. c
  BY <1>1, <1>2, <1>3 DEF Ring
<1>9. DOMAIN Walk(l.next) = 0 .. c /\ \A k \in 0 .. c : Walk(l.next)[k] = f0[k]
  BY <1>4
<1> QED
  BY <1>6, <1>7, <1>8, <1>9

(* The link back and the link on are inverses.                             *)
LEMMA BothDirections ==
  ASSUME NEW l, NEW A, Listed(l, A)
  PROVE  \A d \in A \cup {all_threads} : l.prev[l.next[d]] = d
<1>1. PICK n, s : Ring(l, A, n, s)
  BY DEF Listed
<1> SUFFICES ASSUME NEW i \in 0 .. n PROVE l.prev[l.next[s[i]]] = s[i]
  BY <1>1 DEF Ring
<1> DEFINE j == IF i = n THEN 0 ELSE i + 1
<1>2. j \in 0 .. n /\ i = (IF j = 0 THEN n ELSE j - 1)
  BY <1>1 DEF Ring
<1> QED
  BY <1>1, <1>2 DEF Ring
-------------------------------------------------------------------------------
(* The threads between an unlock and the return of pre_malloc, those the   *)
(* list has, and those whose object is not counted yet.                    *)
Inside == {"unlocked", "loaded", "counted"}
Attached == {t \in Threads : pc[t] \notin {"new", "gone"}}
Uncounted == {t \in Threads : pc[t] \in {"unlocked", "loaded"}}

PcTyped == pc \in [Threads -> {"new", "mutator", "gone"} \cup Inside]

(* What a thread read before it adds one is at most what was counted then, *)
(* and it is itself still among those to be counted.                       *)
Counted ==
  /\ calls \in 0 .. MaxAllocated /\ nb_allocated \in Nat /\ loaded \in [Threads -> Nat]
  /\ nb_allocated + Cardinality(Uncounted) <= calls
  /\ \A t \in Threads : loaded[t] # 0 => pc[t] = "loaded"
  /\ \A t \in Threads : pc[t] = "loaded" => loaded[t] + Cardinality(Uncounted) <= calls

ThreadsInv == PcTyped /\ Listed(list, Attached) /\ Counted

(* The number of threads to be counted, when one comes or goes.            *)
LEMMA UncountedSize ==
  ASSUME NEW t \in Threads
  PROVE  /\ Cardinality(Uncounted) \in Nat
         /\ Cardinality(Uncounted \cup {t}) =
              IF t \in Uncounted THEN Cardinality(Uncounted) ELSE Cardinality(Uncounted) + 1
         /\ Cardinality(Uncounted \ {t}) =
              IF t \in Uncounted THEN Cardinality(Uncounted) - 1 ELSE Cardinality(Uncounted)
         /\ t \in Uncounted => Cardinality(Uncounted) > 0
<1>1. IsFiniteSet(Uncounted)
  <2>1. Uncounted \in SUBSET Threads
    BY DEF Uncounted
  <2> HIDE DEF Uncounted
  <2> QED
    BY <2>1, ThreadListAssumption, FS_Subset
<1> HIDE DEF Uncounted
<1>2. Cardinality(Uncounted) \in Nat
  BY <1>1, FS_CardinalityType
<1>3. t \in Uncounted => Cardinality(Uncounted) # 0
  BY <1>1, FS_EmptySet
<1>4. Cardinality(Uncounted \cup {t}) =
        IF t \in Uncounted THEN Cardinality(Uncounted) ELSE Cardinality(Uncounted) + 1
  BY <1>1, FS_AddElement
<1>5. Cardinality(Uncounted \ {t}) =
        IF t \in Uncounted THEN Cardinality(Uncounted) - 1 ELSE Cardinality(Uncounted)
  BY <1>1, FS_RemoveElement
<1> QED
  BY <1>2, <1>3, <1>4, <1>5

(* Before the threads start, none is listed and nothing is counted.        *)
LEMMA InitThreads == Init => ThreadsInv
<1> SUFFICES ASSUME Init PROVE ThreadsInv
  OBVIOUS
<1>1. PcTyped /\ Attached = {} /\ Uncounted = {}
  BY DEF Init, PcTyped, Attached, Uncounted
<1>2. Listed(list, Attached)
  BY <1>1, InitiallyListed DEF Init
<1>3. Counted
  <2>1. Cardinality(Uncounted) = 0
    BY <1>1, FS_EmptySet
  <2> QED
    BY <1>1, <2>1, GcAssumption DEF Init, Counted
<1> QED
  BY <1>1, <1>2, <1>3 DEF ThreadsInv

(* A thread attaches, detaches or allocates, and the statistics follow.    *)
LEMMA NextThreads == ThreadsInv /\ [Next]_vars => ThreadsInv'
<1> SUFFICES ASSUME ThreadsInv, [Next]_vars PROVE ThreadsInv'
  OBVIOUS
<1> USE DEF ThreadsInv
<1>1. CASE UNCHANGED <<list, pc, loaded, nb_allocated, calls>>
  <2>1. PcTyped' /\ Attached' = Attached /\ Uncounted' = Uncounted
    BY <1>1 DEF PcTyped, Attached, Uncounted
  <2>2. Counted'
    BY <1>1, <2>1 DEF Counted
  <2> QED
    BY <1>1, <2>1, <2>2
<1>2. ASSUME NEW t \in Threads, Attach(t) PROVE ThreadsInv'
  <2>1. pc' = [pc EXCEPT ![t] = "mutator"] /\ pc[t] = "new" /\ list' = attach_thread(list, t)
    BY <1>2 DEF Attach, Goto
  <2>2. PcTyped' /\ Attached' = Attached \cup {t} /\ Uncounted' = Uncounted /\ t \notin Attached
    BY <2>1 DEF PcTyped, Attached, Uncounted
  <2>3. Listed(list', Attached')
    <3>1. Attached \in SUBSET Threads /\ t \in Threads \ Attached
      BY <2>2 DEF Attached
    <3> QED
      BY <2>1, <2>2, <3>1, AttachListed
  <2>4. Counted'
    BY <1>2, <2>1, <2>2 DEF Counted, Attach, PcTyped
  <2> QED
    BY <2>2, <2>3, <2>4
<1>3. ASSUME NEW t \in Threads, Detach(t) PROVE ThreadsInv'
  <2>1. pc' = [pc EXCEPT ![t] = "gone"] /\ pc[t] = "mutator" /\ list' = detach_thread(list, t)
    BY <1>3 DEF Detach, Goto
  <2>2. PcTyped' /\ Attached' = Attached \ {t} /\ Uncounted' = Uncounted /\ t \in Attached
    BY <2>1 DEF PcTyped, Attached, Uncounted
  <2>3. Listed(list', Attached')
    <3>1. Attached \in SUBSET Threads
      BY DEF Attached
    <3> QED
      BY <2>1, <2>2, <3>1, DetachListed
  <2>4. Counted'
    BY <1>3, <2>1, <2>2 DEF Counted, Detach, PcTyped
  <2> QED
    BY <2>2, <2>3, <2>4
<1>4. ASSUME NEW t \in Threads, Allocate(t) PROVE ThreadsInv'
  <2>1. /\ pc' = [pc EXCEPT ![t] = "unlocked"] /\ pc[t] = "mutator"
        /\ calls < MaxAllocated /\ calls' = calls + 1
        /\ UNCHANGED <<list, loaded, nb_allocated>>
    BY <1>4 DEF Allocate, Goto
  <2>2. /\ PcTyped' /\ Attached' = Attached /\ Uncounted' = Uncounted \cup {t}
        /\ t \notin Uncounted
    BY <2>1 DEF PcTyped, Attached, Uncounted, Inside
  <2>3. Counted'
    BY <2>1, <2>2, UncountedSize, GcAssumption DEF Counted, PcTyped
  <2> QED
    BY <2>1, <2>2, <2>3
<1>5. ASSUME NEW t \in Threads, LoadStatistics(t) PROVE ThreadsInv'
  <2>1. /\ pc' = [pc EXCEPT ![t] = "loaded"] /\ pc[t] = "unlocked"
        /\ loaded' = [loaded EXCEPT ![t] = nb_allocated]
        /\ UNCHANGED <<list, calls, nb_allocated>>
    BY <1>5 DEF LoadStatistics, Goto
  <2>2. PcTyped' /\ Attached' = Attached /\ Uncounted' = Uncounted
    BY <2>1 DEF PcTyped, Attached, Uncounted, Inside
  <2>3. Counted'
    BY <2>1, <2>2 DEF Counted, PcTyped
  <2> QED
    BY <2>1, <2>2, <2>3
<1>6. ASSUME NEW t \in Threads, StoreStatistics(t) PROVE ThreadsInv'
  <2>1. /\ pc' = [pc EXCEPT ![t] = "counted"] /\ pc[t] = "loaded"
        /\ nb_allocated' = loaded[t] + 1 /\ loaded' = [loaded EXCEPT ![t] = 0]
        /\ UNCHANGED <<list, calls>>
    BY <1>6 DEF StoreStatistics, Goto
  <2>2. /\ PcTyped' /\ Attached' = Attached /\ Uncounted' = Uncounted \ {t}
        /\ t \in Uncounted
    BY <2>1 DEF PcTyped, Attached, Uncounted, Inside
  <2>3. /\ Cardinality(Uncounted') = Cardinality(Uncounted) - 1
        /\ Cardinality(Uncounted) \in Nat /\ Cardinality(Uncounted) > 0
    BY <2>2, UncountedSize
  <2>4. Counted'
    <3>1. /\ loaded[t] + Cardinality(Uncounted) <= calls
          /\ calls \in 0 .. MaxAllocated /\ loaded \in [Threads -> Nat]
      BY <2>1 DEF Counted
    <3>2. nb_allocated' + Cardinality(Uncounted') <= calls' /\ nb_allocated' \in Nat
      BY <2>1, <2>3, <3>1
    <3>3. ASSUME NEW u \in Threads
          PROVE  /\ loaded'[u] # 0 => pc'[u] = "loaded"
                 /\ pc'[u] = "loaded" => loaded'[u] + Cardinality(Uncounted') <= calls'
      <4>1. CASE u = t
        BY <4>1, <2>1, <3>1 DEF PcTyped
      <4>2. CASE u # t
        <5>1. pc'[u] = pc[u] /\ loaded'[u] = loaded[u] /\ loaded[u] \in Nat
          BY <4>2, <2>1, <3>1 DEF PcTyped
        <5>2. /\ loaded[u] # 0 => pc[u] = "loaded"
              /\ pc[u] = "loaded" => loaded[u] + Cardinality(Uncounted) <= calls
          BY DEF Counted
        <5> QED
          BY <2>1, <2>3, <3>1, <5>1, <5>2
      <4> QED
        BY <4>1, <4>2
    <3>4. calls' \in 0 .. MaxAllocated /\ loaded' \in [Threads -> Nat]
      BY <2>1, <3>1
    <3> QED
      BY <3>2, <3>3, <3>4 DEF Counted
  <2> QED
    BY <2>1, <2>2, <2>4
<1>7. ASSUME NEW t \in Threads, Return(t) PROVE ThreadsInv'
  <2>1. /\ pc' = [pc EXCEPT ![t] = "mutator"] /\ pc[t] = "counted"
        /\ UNCHANGED <<list, calls, loaded, nb_allocated>>
    BY <1>7 DEF Return, Goto
  <2>2. PcTyped' /\ Attached' = Attached /\ Uncounted' = Uncounted
    BY <2>1 DEF PcTyped, Attached, Uncounted
  <2>3. Counted'
    BY <2>1, <2>2 DEF Counted, PcTyped
  <2> QED
    BY <2>1, <2>2, <2>3
<1>8. ASSUME NEW t \in Threads, DoWriteRef(t) PROVE ThreadsInv'
  BY <1>1, <1>8 DEF DoWriteRef
<1>9. CASE Free
  BY <1>1, <1>9 DEF Free
<1>10. CASE UNCHANGED vars
  BY <1>1, <1>10 DEF vars
<1> QED
  BY <1>2, <1>3, <1>4, <1>5, <1>6, <1>7, <1>8, <1>9, <1>10 DEF Next, Step

(* The list and the statistics, whatever the heap does.                    *)
LEMMA ThreadsInvariance == Spec => []ThreadsInv
BY InitThreads, NextThreads, PTL DEF Spec

(* alloc.c:211: the unlocked increments lose objects, they never invent    *)
(* one.                                                                    *)
THEOREM OvercountedNever == Spec => []NeverOvercounted
<1>1. ThreadsInv => NeverOvercounted
  <2> SUFFICES ASSUME ThreadsInv PROVE NeverOvercounted
    OBVIOUS
  <2>1. IsFiniteSet(Uncounted)
    <3>1. Uncounted \in SUBSET Threads
      BY DEF Uncounted
    <3> HIDE DEF Uncounted
    <3> QED
      BY <3>1, ThreadListAssumption, FS_Subset
  <2>2. Cardinality(Uncounted) \in Nat
    BY <2>1, FS_CardinalityType
  <2>3. nb_allocated + Cardinality(Uncounted) <= calls /\ nb_allocated \in Nat /\ calls \in Nat
    BY DEF ThreadsInv, Counted
  <2>4. nb_allocated <= calls - Cardinality(Uncounted)
    <3> HIDE DEF Uncounted
    <3> QED
      BY <2>2, <2>3
  <2> QED
    BY <2>4 DEF NeverOvercounted, Uncounted
<1> QED
  BY <1>1, ThreadsInvariance, PTL

(* gc.c:99-131: in whatever order threads attach and detach, the circular  *)
(* list meets every attached one, and goes back the way it came.           *)
THEOREM ListWhole == Spec => []ThreadsListed
<1>1. ThreadsInv => ThreadsListed
  <2> SUFFICES ASSUME Listed(list, Attached) PROVE ThreadsListed
    BY DEF ThreadsInv
  <2>1. Attached \in SUBSET Threads
    BY DEF Attached
  <2>2. {Walk(list.next)[k] : k \in DOMAIN Walk(list.next)} = Attached \cup {all_threads}
    BY <2>1, WalkListed
  <2>3. \A d \in Attached \cup {all_threads} : list.prev[list.next[d]] = d
    BY BothDirections
  <2> QED
    BY <2>2, <2>3 DEF ThreadsListed, Attached
<1> QED
  BY <1>1, ThreadsInvariance, PTL
-------------------------------------------------------------------------------
(* The division of b q + r is q, the rest r.                               *)
LEMMA Quotient ==
  ASSUME NEW b \in Nat \ {0}, NEW q \in Int, NEW r \in 0 .. b - 1
  PROVE  (b * q + r) \div b = q /\ (b * q + r) % b = r
OBVIOUS

(* A division always has a quotient and a rest.                            *)
LEMMA Parts ==
  ASSUME NEW a \in Nat, NEW b \in Nat \ {0}
  PROVE  /\ a \div b \in Nat /\ a % b \in 0 .. b - 1
         /\ a = b * (a \div b) + (a % b)
OBVIOUS

(* align rounds up to a multiple.                                          *)
LEMMA Aligned ==
  ASSUME NEW n \in Nat, NEW a \in Nat \ {0}
  PROVE  /\ align(n, a) = a * (align(n, a) \div a) /\ align(n, a) \div a \in Nat
         /\ align(n, a) >= n
<1> DEFINE k == (n + a - 1) \div a
           r == (n + a - 1) % a
<1>1. k \in Nat /\ r \in 0 .. a - 1 /\ n + a - 1 = a * k + r
  <2>1. n + a - 1 \in Nat
    OBVIOUS
  <2> QED
    BY <2>1, Parts
<1>2. align(n, a) = k * a
  BY DEF align
<1> HIDE DEF k, r
<1>3. k * a = a * k + 0 /\ 0 \in 0 .. a - 1 /\ a * k \in Nat
  BY <1>1
<1>4. (a * k + 0) \div a = k
  BY <1>1, <1>3, Quotient
<1> QED
  BY <1>1, <1>2, <1>3, <1>4

(* The zone of a size: its words, and its pages.                           *)
RoomOf(s) == align(total_size(s) * (IF Small(s) THEN ZONE_OBJECTS ELSE 1), PAGE_SIZE)
PageCount(s) == RoomOf(s) \div PAGE_SIZE

(* The constants are natural numbers.                                      *)
LEMMA Constants ==
  /\ PAGE_SIZE \in Nat \ {0} /\ NbPages \in Nat \ {0} /\ WIDTH \in Nat \ {0}
  /\ High \in Nat \ {0} /\ ZONE_OBJECTS \in Nat \ {0} /\ NB_ZONES \in Nat \ {0}
BY GcHeapAssumption

(* An object and its header fit in an element, an element in a zone.       *)
LEMMA SizeFacts ==
  ASSUME NEW s \in Sizes
  PROVE  /\ s \in Nat /\ Words(s) \in Nat /\ (s # 0 => Words(s) >= 1)
         /\ total_size(s) \in Nat /\ total_size(s) >= Words(s) + 1
         /\ (s \notin 1 .. 4 => total_size(s) >= 4)
         /\ PageCount(s) \in Nat \ {0} /\ RoomOf(s) = PAGE_SIZE * PageCount(s)
         /\ RoomOf(s) \in Nat /\ total_size(s) <= RoomOf(s)
<1>1. s \in Nat /\ Words(s) \in Nat /\ 4 * Words(s) <= s + 3 /\ (s # 0 => Words(s) >= 1)
  BY GcHeapAssumption DEF Words
<1> DEFINE n == (IF s = 0 THEN 8 ELSE s) + 4
           k == align(n, 8) \div 8
<1>2. /\ total_size(s) \in Nat /\ total_size(s) >= Words(s) + 1
      /\ (s \notin 1 .. 4 => total_size(s) >= 4)
  <2>1. n \in Nat /\ n >= s + 4 /\ n >= 5 /\ (s \notin 1 .. 4 => n >= 9)
    BY <1>1
  <2> HIDE DEF n
  <2>2. align(n, 8) = 8 * k /\ k \in Nat /\ align(n, 8) >= n
    <3>1. 8 \in Nat \ {0}
      OBVIOUS
    <3> QED
      BY <2>1, <3>1, Aligned
  <2> HIDE DEF k
  <2>3. total_size(s) = align(n, 8) \div 4
    BY DEF total_size, OBJECT_ALIGN, n
  <2>4. total_size(s) = 2 * k
    BY <2>2, <2>3
  <2> QED
    BY <1>1, <2>1, <2>2, <2>4
<1> DEFINE c == IF Small(s) THEN ZONE_OBJECTS ELSE 1
           w == total_size(s) * c
<1>3. c \in Nat /\ c >= 1
  BY Constants
<1>4. w \in Nat /\ w >= total_size(s)
  <2> HIDE DEF c
  <2>1. \A a, b \in Nat : b >= 1 => a * b \in Nat /\ a * b >= a
    OBVIOUS
  <2> QED
    BY <1>2, <1>3, <2>1
<1>5. /\ RoomOf(s) = PAGE_SIZE * PageCount(s) /\ PageCount(s) \in Nat
      /\ RoomOf(s) >= w
  <2> HIDE DEF w
  <2>1. RoomOf(s) = align(w, PAGE_SIZE)
    BY DEF RoomOf, w
  <2> QED
    BY <1>4, <2>1, Constants, Aligned DEF PageCount
<1> HIDE DEF w, c
<1>6. RoomOf(s) \in Nat
  BY <1>5, Constants
<1>7. PageCount(s) # 0
  BY <1>1, <1>2, <1>4, <1>5, Constants
<1> QED
  BY <1>1, <1>2, <1>4, <1>5, <1>6, <1>7

(* The page number of an address, from the low half of the pointer.        *)
LEMMA PageOfWord ==
  ASSUME NEW n \in PageNumbers, NEW r \in 0 .. PAGE_SIZE - 1
  PROVE  High + PAGE_SIZE * n + r \in Addresses /\ PageNumber(High + PAGE_SIZE * n + r) = n
<1> DEFINE off == PAGE_SIZE * n + r
           k == High \div WIDTH
<1>1. off \in Nat /\ off < NbPages * PAGE_SIZE /\ n \in Nat
  <2>1. \A p, c, m, x \in Nat : m + 1 <= c /\ x < p => p * m + x \in Nat /\ p * m + x < c * p
    <3>1. \A p, c, m \in Nat : m + 1 <= c => p * m + p <= c * p
      <4>1. \A p, d \in Nat : p * d >= 0
        OBVIOUS
      <4>2. \A p, c, m \in Nat : m + 1 <= c => p * (c - (m + 1)) >= 0
        BY <4>1
      <4> QED
        BY <4>2
    <3> QED
      BY <3>1
  <2>2. n \in Nat /\ n + 1 <= NbPages /\ r \in Nat /\ r < PAGE_SIZE
    BY Constants DEF PageNumbers
  <2> QED
    BY <2>1, <2>2, Constants
<1>2. High = WIDTH * k /\ k \in Nat
  <2>1. High % WIDTH = 0
    BY GcHeapAssumption
  <2> QED
    BY <2>1, Constants, Parts
<1> HIDE DEF k
<1>3. off \in 0 .. WIDTH - 1
  BY <1>1, Constants, GcHeapAssumption
<1>4. (WIDTH * k + off) % WIDTH = off
  <2> HIDE DEF off
  <2> QED
    BY <1>2, <1>3, Constants, Quotient
<1>5. off \div PAGE_SIZE = n
  BY <1>1, Constants, Quotient
<1>6. High + PAGE_SIZE * n + r = WIDTH * k + off
  BY <1>1, <1>2, Constants
<1>7. PageNumber(High + PAGE_SIZE * n + r) = n
  <2> HIDE DEF off
  <2> QED
    BY <1>4, <1>5, <1>6 DEF PageNumber
<1>8. High + off \in Addresses
  <2> HIDE DEF off
  <2> QED
    BY <1>1, Constants DEF Addresses
<1> QED
  BY <1>1, <1>6, <1>7, <1>8, Constants

(* Every address is a word of a page.                                      *)
LEMMA WordOfPage ==
  ASSUME NEW a \in Addresses
  PROVE  \E n \in PageNumbers : \E r \in 0 .. PAGE_SIZE - 1 :
           a = High + PAGE_SIZE * n + r /\ PageNumber(a) = n
<1> DEFINE d == a - High
           n == d \div PAGE_SIZE
           r == d % PAGE_SIZE
<1>1. d \in Nat /\ d < NbPages * PAGE_SIZE /\ a = High + d
  BY Constants DEF Addresses
<1>2. n \in Nat /\ r \in 0 .. PAGE_SIZE - 1 /\ d = PAGE_SIZE * n + r
  <2> HIDE DEF d
  <2> QED
    BY <1>1, Constants, Parts
<1> HIDE DEF d, n, r
<1>3. n < NbPages
  <2>1. \A p, c, m, x \in Nat : m >= c /\ p * m + x < c * p => FALSE
    <3>1. \A p, c \in Nat : p * c >= 0
      OBVIOUS
    <3>2. \A p, c, m \in Nat : m >= c => p * (m - c) >= 0
      BY <3>1
    <3> QED
      BY <3>2
  <2> QED
    BY <1>1, <1>2, <2>1, Constants
<1>4. n \in PageNumbers
  BY <1>2, <1>3, Constants DEF PageNumbers
<1>5. a = High + PAGE_SIZE * n + r
  BY <1>1, <1>2, Constants
<1> QED
  BY <1>2, <1>4, <1>5, PageOfWord
-------------------------------------------------------------------------------
(* A zone is a place and the size of its objects.                          *)
ZoneSet == [page : PageNumbers, size : Sizes]
Start(z) == High + PAGE_SIZE * z.page
End(z) == Start(z) + RoomOf(z.size)
PagesOf(z) == z.page .. z.page + PageCount(z.size) - 1

(* heap_desc describes the zones, and no two of them share a page.         *)
ZonesMade(h, Z) ==
  /\ h \in Heaps
  /\ Z \subseteq ZoneSet
  /\ \A z \in Z : PagesOf(z) \subseteq PageNumbers
  /\ \A y, z \in Z : y # z => PagesOf(y) \cap PagesOf(z) = {}
  /\ h.mapped = UNION {PagesOf(z) : z \in Z}
  /\ \A z \in Z : \A n \in PagesOf(z) :
       h.desc[n] = IF n = z.page THEN total_size(z.size) ELSE z.page - n
  /\ \A n \in PageNumbers \ h.mapped : h.desc[n] = 0

(* Sizes served by the same zones: small ones of one class, or the same.   *)
Kin(s, t) ==
  \/ s = t
  \/ s \in SmallSizes /\ t \in SmallSizes /\ Class(s) = Class(t)

(* o is an element of the zone z, the only one of a zone for large objects; *)
(* an element has room for a header and a pointer.                         *)
InZone(o, z) ==
  /\ o \in [at : Addresses, size : Sizes] /\ Kin(o.size, z.size)
  /\ total_size(o.size) = total_size(z.size) /\ total_size(z.size) >= 4
  /\ o.at + total_size(z.size) <= End(z)
  /\ \E i \in Nat : /\ o.at = Start(z) + total_size(z.size) * i
                    /\ Small(z.size) \/ i = 0

Placed(O, Z) ==
  /\ \A o \in O : \E z \in Z : InZone(o, z)
  /\ \A o, q \in O : o.at = q.at => o = q

(* What the class of z has not given yet: the end of the zone, still zero. *)
Open(h, O, z) ==
  LET c == Class(z.size)
      rest == h.current_zone[c] .. End(z) - 1
  IN /\ \E i \in Nat : h.current_zone[c] = Start(z) + total_size(z.size) * i
     /\ h.current_zone[c] <= End(z) /\ h.end_zone[c] = End(z)
     /\ \A a \in rest : h.ram[a] = 0
     /\ \A o \in O : Chunk(o) \cap rest = {}

Rest(h, O, Z) ==
  \A c \in Classes :
    \/ h.current_zone[c] = NULL /\ h.end_zone[c] = NULL
    \/ \E z \in Z : z.size \in SmallSizes /\ Class(z.size) = c /\ Open(h, O, z)

(* The free lists: each freed object has at most one before it.            *)
Links(h, F) ==
  /\ \A o \in F : o.size \in SmallSizes /\ o.size = SizeOf(Class(o.size))
  /\ \A c \in Classes : h.first[c] # NULL => [at |-> h.first[c], size |-> SizeOf(c)] \in F
  /\ \A o \in F : Chain(h, o.at) # NULL =>
       /\ [at |-> Chain(h, o.at), size |-> o.size] \in F
       /\ Chain(h, o.at) # h.first[Class(o.size)]
       /\ \A q \in F : Chain(h, q.at) = Chain(h, o.at) => q = o

(* L: objects in use, T: taken by a thread and not returned, F: freed.     *)
Contents(h, L, T, F) ==
  /\ \A a \in Addresses : PageNumber(a) \notin h.mapped => h.ram[a] = 0
  /\ \A o \in L : h.ram[o.at] = o.size
  /\ \A o \in T : \A a \in Object(o) : h.ram[a] = 0
  /\ \A o \in F : h.ram[o.at] = 0

Apart(L, T, F) == L \cap T = {} /\ L \cap F = {} /\ T \cap F = {}

(* The object of size s at a.                                              *)
Cell(a, s) == [at |-> a, size |-> s]

(* The inductive invariant of the heap.                                    *)
HeapInv(h, L, T, F, Z) ==
  /\ ZonesMade(h, Z)
  /\ Placed(L \cup T \cup F, Z) /\ Apart(L, T, F)
  /\ Rest(h, L \cup T \cup F, Z)
  /\ Links(h, F)
  /\ Contents(h, L, T, F)

-------------------------------------------------------------------------------
(* The words of a zone are those of its pages.                             *)
LEMMA ZoneWords ==
  ASSUME NEW z \in ZoneSet, PagesOf(z) \subseteq PageNumbers, NEW a \in Start(z) .. End(z) - 1
  PROVE  a \in Addresses /\ PageNumber(a) \in PagesOf(z)
<1> DEFINE d == a - Start(z)
           k == d \div PAGE_SIZE
           r == d % PAGE_SIZE
<1>1. /\ z.page \in Nat /\ z.size \in Sizes
      /\ PageCount(z.size) \in Nat \ {0} /\ RoomOf(z.size) = PAGE_SIZE * PageCount(z.size)
  BY SizeFacts DEF ZoneSet, PageNumbers
<1>2. Start(z) \in Nat /\ End(z) = Start(z) + PAGE_SIZE * PageCount(z.size)
  BY <1>1, Constants DEF Start, End
<1>3. d \in Nat /\ d < PAGE_SIZE * PageCount(z.size) /\ a = Start(z) + d
  BY <1>1, <1>2, Constants
<1>4. k \in Nat /\ r \in 0 .. PAGE_SIZE - 1 /\ d = PAGE_SIZE * k + r
  <2> HIDE DEF d
  <2> QED
    BY <1>3, Constants, Parts
<1> HIDE DEF d, k, r
<1>5. k < PageCount(z.size)
  <2>1. \A p, c, m, x \in Nat : m >= c /\ p * m + x < p * c => FALSE
    <3>1. \A p, c \in Nat : p * c >= 0
      OBVIOUS
    <3>2. \A p, c, m \in Nat : m >= c => p * (m - c) >= 0
      BY <3>1
    <3> QED
      BY <3>2
  <2> QED
    BY <1>1, <1>3, <1>4, <2>1, Constants
<1>6. z.page + k \in PagesOf(z)
  BY <1>1, <1>4, <1>5 DEF PagesOf
<1>7. a = High + PAGE_SIZE * (z.page + k) + r
  BY <1>1, <1>3, <1>4, Constants DEF Start
<1> QED
  BY <1>4, <1>6, <1>7, PageOfWord

(* A zone lies in the RAM.                                                 *)
LEMMA ZoneTypes ==
  ASSUME NEW h, NEW Z, ZonesMade(h, Z), NEW z \in Z
  PROVE  /\ z.page \in PageNumbers /\ z.page \in Nat /\ z.size \in Sizes
         /\ z = [page |-> z.page, size |-> z.size]
         /\ Start(z) \in Nat /\ End(z) \in Nat /\ Start(z) > 0
         /\ End(z) = Start(z) + RoomOf(z.size)
         /\ Start(z) .. End(z) - 1 \subseteq Addresses
         /\ \A a \in Start(z) .. End(z) - 1 : PageNumber(a) \in PagesOf(z)
<1>1. z \in ZoneSet /\ PagesOf(z) \subseteq PageNumbers
  BY DEF ZonesMade
<1>2. z.page \in PageNumbers /\ z.page \in Nat /\ z.size \in Sizes
      /\ z = [page |-> z.page, size |-> z.size]
  BY <1>1 DEF ZoneSet, PageNumbers
<1>3. Start(z) \in Nat /\ End(z) \in Nat /\ Start(z) > 0
  BY <1>2, SizeFacts, Constants DEF Start, End
<1>4. \A a \in Start(z) .. End(z) - 1 : a \in Addresses /\ PageNumber(a) \in PagesOf(z)
  BY <1>1, ZoneWords
<1> QED
  BY <1>2, <1>3, <1>4 DEF End

(* The words of two zones are apart.                                       *)
LEMMA ZonesApart ==
  ASSUME NEW h, NEW Z, ZonesMade(h, Z), NEW y \in Z, NEW z \in Z, y # z
  PROVE  (Start(y) .. End(y) - 1) \cap (Start(z) .. End(z) - 1) = {}
<1>1. PagesOf(y) \cap PagesOf(z) = {}
  BY DEF ZonesMade
<1> QED
  BY <1>1, ZoneTypes

(* An element is made of words of its zone.                                *)
LEMMA ChunkInZone ==
  ASSUME NEW h, NEW Z, ZonesMade(h, Z), NEW z \in Z, NEW o, InZone(o, z)
  PROVE  /\ o.at \in Nat /\ o.at > 0 /\ o.size \in Sizes /\ o.size \in Nat
         /\ o = [at |-> o.at, size |-> o.size]
         /\ Chunk(o) = o.at .. o.at + total_size(z.size) - 1
         /\ Chunk(o) \subseteq Start(z) .. End(z) - 1
         /\ Chunk(o) \subseteq Addresses
         /\ o.at \in Chunk(o) /\ o.at + 1 \in Chunk(o) /\ o.at + 2 \in Chunk(o)
         /\ Object(o) \subseteq Chunk(o) /\ o.at \notin Object(o)
         /\ \A a \in Chunk(o) : PageNumber(a) \in h.mapped
<1>1. /\ o.at \in Addresses /\ o.size \in Sizes /\ total_size(o.size) = total_size(z.size)
      /\ o.at + total_size(z.size) <= End(z) /\ o = [at |-> o.at, size |-> o.size]
      /\ total_size(z.size) >= 4
  BY DEF InZone
<1>2. o.at \in Nat /\ o.at > 0
  <2> DEFINE w == NbPages * PAGE_SIZE
  <2>1. w \in Nat /\ o.at \in High .. High + w - 1
    BY <1>1, Constants DEF Addresses
  <2> HIDE DEF w
  <2> QED
    BY <2>1, Constants
<1>3. /\ o.size \in Nat /\ total_size(o.size) \in Nat /\ Words(o.size) \in Nat
      /\ total_size(o.size) >= Words(o.size) + 1
  BY <1>1, SizeFacts
<1>4. Start(z) <= o.at
  <2>1. PICK i \in Nat : o.at = Start(z) + total_size(z.size) * i
    BY DEF InZone
  <2>2. total_size(z.size) * i >= 0 /\ total_size(z.size) * i \in Nat
    BY <1>1, <1>3
  <2> QED
    BY <2>1, <2>2, ZoneTypes
<1>5. Chunk(o) = o.at .. o.at + total_size(z.size) - 1
  BY <1>1 DEF Chunk
<1>6. Chunk(o) \subseteq Start(z) .. End(z) - 1
  BY <1>1, <1>2, <1>3, <1>4, <1>5, ZoneTypes
<1>7. /\ o.at \in Chunk(o) /\ o.at + 1 \in Chunk(o) /\ o.at + 2 \in Chunk(o)
      /\ Object(o) \subseteq Chunk(o)
  BY <1>1, <1>2, <1>3, <1>5 DEF Object
<1>8. \A a \in Chunk(o) : a \in Addresses /\ PageNumber(a) \in PagesOf(z)
  BY <1>6, ZoneTypes
<1>9. PagesOf(z) \subseteq h.mapped
  BY DEF ZonesMade
<1>10. o.at \notin Object(o)
  BY <1>2, <1>3 DEF Object
<1> QED
  BY <1>1, <1>2, <1>3, <1>5, <1>6, <1>7, <1>8, <1>9, <1>10

(* Two objects share no word.                                              *)
LEMMA ChunksApart ==
  ASSUME NEW h, NEW Z, ZonesMade(h, Z), NEW O, Placed(O, Z),
         NEW o \in O, NEW q \in O, o # q
  PROVE  Chunk(o) \cap Chunk(q) = {}
<1>1. PICK y \in Z : InZone(o, y)
  BY DEF Placed
<1>2. PICK z \in Z : InZone(q, z)
  BY DEF Placed
<1>3. Chunk(o) \subseteq Start(y) .. End(y) - 1 /\ Chunk(q) \subseteq Start(z) .. End(z) - 1
  BY <1>1, <1>2, ChunkInZone
<1>4. CASE y # z
  BY <1>3, <1>4, ZonesApart
<1>5. CASE y = z
  <2> DEFINE e == total_size(z.size)
  <2>1. PICK i \in Nat : o.at = Start(z) + e * i
    BY <1>1, <1>5 DEF InZone
  <2>2. PICK j \in Nat : q.at = Start(z) + e * j
    BY <1>2 DEF InZone
  <2>3. e \in Nat /\ Start(z) \in Nat
    BY ZoneTypes, SizeFacts
  <2>4. /\ Chunk(o) = o.at .. o.at + e - 1 /\ Chunk(q) = q.at .. q.at + e - 1
        /\ o.at \in Nat /\ q.at \in Nat
    BY <1>1, <1>2, <1>5, ChunkInZone
  <2> HIDE DEF e
  <2>5. i # j
    BY <2>1, <2>2 DEF Placed
  <2>6. \A a, m, n \in Nat : m < n => a * m + a <= a * n
    <3>1. \A a, b \in Nat : a * b >= 0
      OBVIOUS
    <3>2. \A a, m, n \in Nat : m < n => a * (n - (m + 1)) >= 0
      BY <3>1
    <3> QED
      BY <3>2
  <2>7. o.at + e <= q.at \/ q.at + e <= o.at
    <3>1. e * i + e <= e * j \/ e * j + e <= e * i
      BY <2>3, <2>5, <2>6
    <3>2. e * i \in Nat /\ e * j \in Nat
      BY <2>3
    <3> QED
      BY <2>1, <2>2, <2>3, <3>1, <3>2
  <2> QED
    BY <2>3, <2>4, <2>7
<1> QED
  BY <1>4, <1>5


(* What the theorems about pointers assume: the high half of the addresses *)
(* divides by the size of every element.                                   *)
HighDivides == \A s \in Sizes : High % total_size(s) = 0

(* And what they assume of the program: it asks for no object of 1 to 4    *)
(* bytes, whose element of 8 bytes has no room for the header and the      *)
(* chain pointer, and two small sizes of the same class (alloc.c:169) take *)
(* the same room.  16 and 19 do, 20 and 21 do not.                         *)
SizesServed ==
  /\ \A s \in Sizes : s \notin 1 .. 4
  /\ \A s, t \in SmallSizes : Class(s) = Class(t) => total_size(s) = total_size(t)

(* The size that stands for those of a class is one of them.               *)
LEMMA Representative ==
  ASSUME NEW c \in Classes
  PROVE  SizeOf(c) \in SmallSizes /\ Class(SizeOf(c)) = c
BY DEF Classes, SizeOf

(* alloc.c:262-295: from any word of an object the page table and the      *)
(* division lead to its header, whose size says whether it is in use.      *)
LEMMA HeaderFound ==
  ASSUME HighDivides, NEW h, NEW Z, ZonesMade(h, Z), NEW z \in Z, NEW o, InZone(o, z),
         NEW p \in Chunk(o) \ {o.at}
  PROVE  toHeader(h, p) = IF p - toObject(o.at) \in 0 .. Words(h.ram[o.at]) - 1
                            THEN o.at ELSE NULL
<1> DEFINE e == total_size(z.size)
           r == p - o.at
           n == PageNumber(p)
           k == High \div e
<1>1. /\ z.page \in Nat /\ z.size \in Sizes /\ Start(z) \in Nat
      /\ z.page \in PageNumbers
  BY ZoneTypes
<1>2. e \in Nat \ {0}
  BY <1>1, SizeFacts DEF InZone
<1>3. /\ o.at \in Nat /\ Chunk(o) = o.at .. o.at + e - 1 /\ p \in Addresses /\ o.at \in Addresses
      /\ p \in Start(z) .. End(z) - 1
  BY ChunkInZone DEF InZone
<1>4. r \in 1 .. e - 1 /\ p = o.at + r
  BY <1>2, <1>3
<1>5. n \in PagesOf(z)
  BY <1>3, ZoneTypes
<1>6. /\ h.desc[n] = IF n = z.page THEN e ELSE z.page - n
      /\ h.desc[z.page] = e
      /\ n \in Nat /\ n >= z.page
  <2>1. z.page \in PagesOf(z)
    BY <1>1, SizeFacts DEF PagesOf
  <2> QED
    BY <1>1, <1>5, <2>1 DEF ZonesMade, PagesOf
<1>7. PICK i \in Nat : o.at = Start(z) + e * i
  BY DEF InZone
<1>8. High = e * k /\ k \in Nat
  <2>1. High % e = 0
    BY <1>1 DEF HighDivides
  <2>2. k \in Nat /\ High = e * k + (High % e)
    <3> HIDE DEF e
    <3> QED
      BY <1>2, Constants, Parts
  <2> HIDE DEF e, k
  <2> QED
    BY <1>2, <2>1, <2>2
<1> DEFINE first == IF h.desc[n] < 0 THEN n + h.desc[n] ELSE n
           page_addr == z.page * PAGE_SIZE
<1>9. first = z.page
  <2> HIDE DEF e
  <2> QED
    BY <1>1, <1>2, <1>6
<1> HIDE DEF e, k, r
<1>10. page_addr \in Nat /\ Start(z) = page_addr + High
  BY <1>1, Constants DEF Start
<1>11. p - page_addr = e * (k + i) + r
  BY <1>2, <1>4, <1>7, <1>8, <1>10, Constants
<1>12. (p - page_addr) \div e = k + i
  <2>1. k + i \in Int /\ r \in 0 .. e - 1
    BY <1>2, <1>4, <1>7, <1>8
  <2> HIDE DEF page_addr
  <2> QED
    BY <1>2, <1>11, <2>1, Quotient
<1>13. page_addr + e * ((p - page_addr) \div e) = o.at
  <2>1. e * (k + i) = e * k + e * i
    BY <1>2, <1>7, <1>8
  <2> HIDE DEF page_addr
  <2> QED
    BY <1>2, <1>7, <1>8, <1>10, <1>12, <2>1
<1>14. toHeader(h, p) = IF h.desc[first] = 0 THEN NULL
         ELSE IF p - toObject(page_addr + h.desc[first] * ((p - page_addr) \div h.desc[first]))
                   \in 0 .. Words(Word(h, page_addr + h.desc[first]
                                             * ((p - page_addr) \div h.desc[first]))) - 1
                THEN page_addr + h.desc[first] * ((p - page_addr) \div h.desc[first])
                ELSE NULL
  BY <1>9 DEF toHeader
<1>15. h.desc[first] = e /\ e # 0
  BY <1>2, <1>6, <1>9
<1>16. Word(h, o.at) = h.ram[o.at]
  BY <1>3 DEF Word
<1> HIDE DEF page_addr, first
<1> QED
  BY <1>13, <1>14, <1>15, <1>16

(* A pointer outside the zones has no header.                              *)
LEMMA NoHeaderOutside ==
  ASSUME NEW h, NEW Z, ZonesMade(h, Z), NEW a \in Addresses, PageNumber(a) \notin h.mapped
  PROVE  toHeader(h, a) = NULL
<1>1. PageNumber(a) \in PageNumbers
  BY WordOfPage
<1>2. h.desc[PageNumber(a)] = 0
  BY <1>1 DEF ZonesMade
<1> QED
  BY <1>2 DEF toHeader

(* The heap h2 differs from h in words of the chunk o, and in list heads.  *)
Written(h, h2, o) ==
  /\ h2 \in Heaps /\ h2.desc = h.desc /\ h2.mapped = h.mapped
  /\ h2.current_zone = h.current_zone /\ h2.end_zone = h.end_zone
  /\ \A a \in Addresses : a \notin Chunk(o) => h2.ram[a] = h.ram[a]

(* Such a write leaves the zones and every other object as they were.      *)
LEMMA WriteKeeps ==
  ASSUME NEW h, NEW h2, NEW L, NEW T, NEW F, NEW Z, HeapInv(h, L, T, F, Z),
         NEW o \in L \cup T \cup F, Written(h, h2, o)
  PROVE  /\ ZonesMade(h2, Z) /\ Rest(h2, L \cup T \cup F, Z)
         /\ \A q \in L \cup T \cup F : q # o => \A a \in Chunk(q) : h2.ram[a] = h.ram[a]
         /\ \A a \in Addresses : PageNumber(a) \notin h2.mapped => h2.ram[a] = 0
<1> DEFINE O == L \cup T \cup F
<1>1. ZonesMade(h, Z) /\ Placed(O, Z) /\ Rest(h, O, Z)
  BY DEF HeapInv
<1>2. ZonesMade(h2, Z)
  BY <1>1 DEF ZonesMade, Written
<1>3. \A q \in O : /\ Chunk(q) \subseteq Addresses
                   /\ \A a \in Chunk(q) : PageNumber(a) \in h.mapped
  BY <1>1, ChunkInZone DEF Placed
<1>4. \A q \in O : q # o => \A a \in Chunk(q) : h2.ram[a] = h.ram[a]
  BY <1>1, <1>3, ChunksApart DEF Written
<1>5. \A a \in Addresses : PageNumber(a) \notin h2.mapped => h2.ram[a] = 0
  BY <1>3 DEF HeapInv, Contents, Written
<1>6. ASSUME NEW z \in Z, Open(h, O, z), z.size \in SmallSizes PROVE Open(h2, O, z)
  <2>1. h2.current_zone = h.current_zone /\ h2.end_zone = h.end_zone
    BY DEF Written
  <2>2. h.current_zone[Class(z.size)] .. End(z) - 1 \subseteq Addresses
    <3>1. PICK i \in Nat : h.current_zone[Class(z.size)] = Start(z) + total_size(z.size) * i
      BY <1>6 DEF Open
    <3>2. /\ Start(z) \in Nat /\ Start(z) .. End(z) - 1 \subseteq Addresses
          /\ total_size(z.size) \in Nat
      BY <1>1, ZoneTypes, SizeFacts
    <3>3. total_size(z.size) * i \in Nat
      BY <3>2
    <3>4. End(z) \in Nat
      BY <1>1, ZoneTypes
    <3> QED
      BY <3>1, <3>2, <3>3, <3>4
  <2>3. \A a \in h.current_zone[Class(z.size)] .. End(z) - 1 : h2.ram[a] = h.ram[a]
    <3>1. Chunk(o) \cap (h.current_zone[Class(z.size)] .. End(z) - 1) = {}
      BY <1>6 DEF Open
    <3> QED
      BY <2>2, <3>1 DEF Written
  <2> QED
    BY <1>6, <2>1, <2>3 DEF Open
<1>7. Rest(h2, O, Z)
  <2>1. h2.current_zone = h.current_zone /\ h2.end_zone = h.end_zone
    BY DEF Written
  <2> HIDE DEF O
  <2> QED
    BY <1>1, <1>6, <2>1 DEF Rest
<1> QED
  BY <1>2, <1>4, <1>5, <1>7

(* The heap after one store.                                               *)
Stored(h, a, v) == [h EXCEPT !.ram[a] = v]

(* The words of the objects of L are in h2 what they are in h.             *)
Kept(h, h2, L) == \A q \in L : \A a \in Chunk(q) : h2.ram[a] = h.ram[a]

(* The header that allocate_internal writes (alloc.c:216).                 *)
LEMMA HeaderWritten ==
  ASSUME NEW h, NEW L, NEW T, NEW F, NEW Z, HeapInv(h, L, T, F, Z), NEW o \in T,
         NEW k, k = Stored(h, o.at, o.size)
  PROVE  HeapInv(k, L \cup {o}, T \ {o}, F, Z) /\ Kept(h, k, L)
<1> DEFINE h2 == [h EXCEPT !.ram[o.at] = o.size]
           O == L \cup T \cup F
<1>1. ZonesMade(h, Z) /\ Placed(O, Z) /\ Apart(L, T, F) /\ h \in Heaps
  BY DEF HeapInv, ZonesMade
<1>2. \A q \in O : /\ Chunk(q) \subseteq Addresses /\ q.at \in Chunk(q)
                   /\ Object(q) \subseteq Chunk(q)
                   /\ q.at + 1 \in Chunk(q) /\ q.at + 2 \in Chunk(q)
                   /\ q.at \notin Object(q) /\ q.size \in Nat
  BY <1>1, ChunkInZone DEF Placed
<1>3. /\ h2 \in Heaps /\ h2.desc = h.desc /\ h2.mapped = h.mapped
      /\ h2.current_zone = h.current_zone /\ h2.end_zone = h.end_zone /\ h2.first = h.first
      /\ h2.ram = [h.ram EXCEPT ![o.at] = o.size]
  <2>1. h.ram \in [Addresses -> Int] /\ o.at \in Addresses /\ o.size \in Int
    BY <1>1, <1>2 DEF Heaps
  <2> QED
    BY <1>1, <2>1 DEF Heaps
<1>4. /\ h2.ram[o.at] = o.size
      /\ \A a \in Addresses : a # o.at => h2.ram[a] = h.ram[a]
  BY <1>1, <1>2, <1>3 DEF Heaps
<1> HIDE DEF h2
<1>5. Written(h, h2, o)
  BY <1>2, <1>3, <1>4 DEF Written
<1>6. /\ ZonesMade(h2, Z) /\ Rest(h2, O, Z)
      /\ \A q \in O : q # o => \A a \in Chunk(q) : h2.ram[a] = h.ram[a]
      /\ \A a \in Addresses : PageNumber(a) \notin h2.mapped => h2.ram[a] = 0
  BY <1>5, WriteKeeps
<1>7. (L \cup {o}) \cup (T \ {o}) \cup F = O
  OBVIOUS
<1>8. Apart(L \cup {o}, T \ {o}, F) /\ o \notin F /\ o \notin L
  BY <1>1 DEF Apart
<1>9. \A q \in F : h2.ram[q.at] = h.ram[q.at] /\ Chain(h2, q.at) = Chain(h, q.at)
  BY <1>2, <1>6, <1>8 DEF Chain, Word
<1>10. Links(h2, F)
  BY <1>3, <1>9 DEF HeapInv, Links
<1>11. Contents(h2, L \cup {o}, T \ {o}, F)
  <2>1. \A q \in L : h2.ram[q.at] = q.size
    BY <1>2, <1>6, <1>8 DEF HeapInv, Contents
  <2>2. \A q \in T \ {o} : \A a \in Object(q) : h2.ram[a] = 0
    BY <1>2, <1>6 DEF HeapInv, Contents
  <2>3. \A q \in F : h2.ram[q.at] = 0
    BY <1>9 DEF HeapInv, Contents
  <2> QED
    BY <1>4, <1>6, <2>1, <2>2, <2>3 DEF Contents
<1>12. HeapInv(h2, L \cup {o}, T \ {o}, F, Z)
  BY <1>1, <1>6, <1>7, <1>8, <1>10, <1>11 DEF HeapInv
<1>13. Kept(h, h2, L)
  BY <1>6, <1>8 DEF Kept
<1> QED
  BY <1>12, <1>13 DEF h2, Stored

(* A word of a pointer stored in an object in use (gc.c:71-80).            *)
LEMMA ReferenceWritten ==
  ASSUME NEW h, NEW L, NEW T, NEW F, NEW Z, HeapInv(h, L, T, F, Z), NEW o \in L,
         NEW d \in Object(o), NEW k, k = Stored(h, d, 1)
  PROVE  HeapInv(k, L, T, F, Z)
<1> DEFINE h2 == [h EXCEPT !.ram[d] = 1]
           O == L \cup T \cup F
<1>1. ZonesMade(h, Z) /\ Placed(O, Z) /\ Apart(L, T, F) /\ h \in Heaps
  BY DEF HeapInv, ZonesMade
<1>2. \A q \in O : /\ Chunk(q) \subseteq Addresses /\ q.at \in Chunk(q)
                   /\ Object(q) \subseteq Chunk(q)
                   /\ q.at + 1 \in Chunk(q) /\ q.at + 2 \in Chunk(q) /\ q.at \notin Object(q)
                   /\ q.at \in Nat
  BY <1>1, ChunkInZone DEF Placed
<1>3. d \in Addresses /\ d # o.at /\ d \in Chunk(o)
  BY <1>2
<1>4. /\ h2 \in Heaps /\ h2.desc = h.desc /\ h2.mapped = h.mapped
      /\ h2.current_zone = h.current_zone /\ h2.end_zone = h.end_zone /\ h2.first = h.first
      /\ h2.ram = [h.ram EXCEPT ![d] = 1]
  BY <1>1, <1>3 DEF Heaps
<1>5. \A a \in Addresses : a # d => h2.ram[a] = h.ram[a]
  BY <1>1, <1>3, <1>4 DEF Heaps
<1> HIDE DEF h2
<1>6. Written(h, h2, o)
  BY <1>3, <1>4, <1>5 DEF Written
<1>7. /\ ZonesMade(h2, Z) /\ Rest(h2, O, Z)
      /\ \A q \in O : q # o => \A a \in Chunk(q) : h2.ram[a] = h.ram[a]
      /\ \A a \in Addresses : PageNumber(a) \notin h2.mapped => h2.ram[a] = 0
  BY <1>6, WriteKeeps
<1>8. \A q \in F \cup T : q # o /\ \A a \in Chunk(q) : h2.ram[a] = h.ram[a]
  BY <1>1, <1>7 DEF Apart
<1>9. Links(h2, F)
  <2>1. \A q \in F : Chain(h2, q.at) = Chain(h, q.at)
    BY <1>2, <1>8 DEF Chain, Word
  <2> QED
    BY <1>4, <2>1 DEF HeapInv, Links
<1>10. Contents(h2, L, T, F)
  <2>1. \A q \in L : h2.ram[q.at] = q.size
    <3>1. \A q \in L : q.at # d
      <4>1. \A q \in L : q # o => q.at \notin Chunk(o)
        BY <1>1, <1>2, ChunksApart
      <4> QED
        BY <1>3, <4>1
    <3> QED
      BY <1>2, <1>5, <3>1 DEF HeapInv, Contents
  <2> QED
    BY <1>2, <1>7, <1>8, <2>1 DEF HeapInv, Contents
<1>11. HeapInv(h2, L, T, F, Z)
  BY <1>1, <1>7, <1>9, <1>10 DEF HeapInv
<1> QED
  BY <1>11 DEF h2, Stored

(* An element of the same zone may change of size, for one of its class.   *)
LEMMA Recut ==
  ASSUME NEW h, NEW O, NEW Z, Placed(O, Z), Rest(h, O, Z), NEW y \in O,
         NEW x \in [at : Addresses, size : Sizes], x.at = y.at, Kin(x.size, y.size),
         total_size(x.size) = total_size(y.size)
  PROVE  /\ Placed((O \ {y}) \cup {x}, Z) /\ Rest(h, (O \ {y}) \cup {x}, Z)
         /\ Chunk(x) = Chunk(y)
<1> DEFINE P == (O \ {y}) \cup {x}
<1>1. Chunk(x) = Chunk(y)
  BY DEF Chunk
<1>2. PICK z \in Z : InZone(y, z)
  BY DEF Placed
<1>3. InZone(x, z)
  BY <1>2 DEF InZone, Kin
<1>4. Placed(P, Z)
  BY <1>3 DEF Placed
<1>5. ASSUME NEW u \in Z, Open(h, O, u) PROVE Open(h, P, u)
  BY <1>1, <1>5 DEF Open
<1>6. Rest(h, P, Z)
  <2> HIDE DEF P
  <2> QED
    BY <1>5 DEF Rest
<1> QED
  BY <1>1, <1>4, <1>6
-------------------------------------------------------------------------------
(* The head of a free list is cleared and taken (alloc.c:179-184).         *)
LEMMA PopTaken ==
  ASSUME SizesServed, NEW h, NEW L, NEW T, NEW F, NEW Z, HeapInv(h, L, T, F, Z),
         NEW s \in SmallSizes, h.first[Class(s)] # NULL,
         NEW k, k = Pop(h, s), NEW x, x = Cell(k.res, s)
  PROVE  /\ x.at \in Addresses /\ x \notin L \cup T
         /\ \E F2 : HeapInv(k.h, L, T \cup {x}, F2, Z)
         /\ \A q \in L \cup T : \A a \in Chunk(q) : k.h.ram[a] = h.ram[a]
<1> DEFINE c == Class(s)
           r == h.first[c]
           y == [at |-> r, size |-> SizeOf(c)]
           o == [at |-> r, size |-> s]
           h2 == Pop(h, s).h
           O == L \cup T \cup F
<1>1. ZonesMade(h, Z) /\ Placed(O, Z) /\ Apart(L, T, F) /\ h \in Heaps /\ Links(h, F)
  BY DEF HeapInv, ZonesMade
<1>a. /\ c \in Classes /\ SizeOf(c) \in SmallSizes /\ Class(SizeOf(c)) = c
      /\ s \in Sizes /\ SizeOf(c) \in Sizes
  <2>1. c \in Classes
    BY DEF Classes
  <2> HIDE DEF c
  <2> QED
    BY <2>1, Representative DEF SmallSizes
<1>b. Kin(s, SizeOf(c)) /\ total_size(s) = total_size(SizeOf(c))
  BY <1>a DEF Kin, SizesServed
<1>2. y \in F
  BY <1>1, <1>a DEF Links
<1>3. \A q \in O : /\ Chunk(q) \subseteq Addresses /\ q.at \in Chunk(q)
                   /\ Object(q) \subseteq Chunk(q)
                   /\ q.at + 1 \in Chunk(q) /\ q.at + 2 \in Chunk(q)
                   /\ q.at \notin Object(q) /\ q.at \in Addresses
                   /\ q = [at |-> q.at, size |-> q.size]
  BY <1>1, ChunkInZone DEF Placed
<1>c. o.at = r /\ o.size = s /\ y.at = r /\ y.size = SizeOf(c)
  OBVIOUS
<1>4. /\ r \in Addresses /\ Object(o) = r + 1 .. r + Words(s)
      /\ Chain(h, r) \in Addresses \cup {NULL}
  <2>1. Chain(h, r) # NULL => [at |-> Chain(h, r), size |-> SizeOf(c)] \in F
    BY <1>1, <1>2, <1>c DEF Links
  <2>2. Chain(h, r) # NULL => Chain(h, r) \in Addresses
    BY <1>3, <2>1
  <2> QED
    BY <1>2, <1>3, <1>c, <2>2 DEF Object
<1>5. /\ h2.desc = h.desc /\ h2.mapped = h.mapped
      /\ h2.current_zone = h.current_zone /\ h2.end_zone = h.end_zone
      /\ h2.first = [h.first EXCEPT ![c] = Chain(h, r)]
      /\ h2.ram = [a \in Addresses |-> IF a \in Object(o) THEN 0 ELSE h.ram[a]]
      /\ h2 \in Heaps /\ Pop(h, s).res = r
  <2> DEFINE f == [h.first EXCEPT ![c] = Chain(h, r)]
             m == [a \in Addresses |-> IF a \in Object(o) THEN 0 ELSE h.ram[a]]
  <2>1. h2 = [h EXCEPT !.first = f, !.ram = m] /\ Pop(h, s).res = r
    <3> HIDE DEF o
    <3> QED
      BY <1>4 DEF Pop
  <2>2. f \in [Classes -> Addresses \cup {NULL}] /\ m \in [Addresses -> Int]
    <3>1. h.first \in [Classes -> Addresses \cup {NULL}] /\ h.ram \in [Addresses -> Int]
      BY <1>1 DEF Heaps
    <3> DEFINE v == Chain(h, r)
    <3> HIDE DEF o, r, c
    <3>2. v \in Addresses \cup {NULL}
      BY <1>4
    <3> HIDE DEF v
    <3>3. [h.first EXCEPT ![c] = v] \in [Classes -> Addresses \cup {NULL}]
      BY <3>1, <3>2
    <3>4. m \in [Addresses -> Int]
      BY <3>1
    <3> QED
      BY <3>3, <3>4 DEF v
  <2> HIDE DEF h2, f, m
  <2>3. /\ h2.desc = h.desc /\ h2.mapped = h.mapped
        /\ h2.current_zone = h.current_zone /\ h2.end_zone = h.end_zone
        /\ h2.first = f /\ h2.ram = m /\ h2 \in Heaps
    BY <1>1, <2>1, <2>2 DEF Heaps
  <2> QED
    BY <2>1, <2>3 DEF f, m
<1> HIDE DEF h2
<1>d. o \in [at : Addresses, size : Sizes]
  BY <1>4, <1>a
<1> HIDE DEF o, y
<1>6. Object(o) \subseteq Chunk(y) /\ Chunk(o) = Chunk(y)
  <2>1. PICK z \in Z : InZone(y, z)
    BY <1>1, <1>2 DEF Placed
  <2>2. Kin(o.size, z.size)
    <3>1. Kin(SizeOf(c), z.size)
      BY <1>c, <2>1 DEF InZone
    <3> QED
      BY <1>b, <1>c, <3>1 DEF Kin
  <2>3. InZone(o, z)
    BY <1>b, <1>c, <1>d, <2>1, <2>2 DEF InZone
  <2>4. /\ Chunk(y) = y.at .. y.at + total_size(z.size) - 1
        /\ Chunk(o) = o.at .. o.at + total_size(z.size) - 1 /\ Object(o) \subseteq Chunk(o)
    BY <1>1, <2>1, <2>3, ChunkInZone
  <2> QED
    BY <1>c, <2>4
<1>7. Written(h, h2, y)
  BY <1>5, <1>6 DEF Written
<1>8. /\ ZonesMade(h2, Z) /\ Rest(h2, O, Z)
      /\ \A q \in O : q # y => \A a \in Chunk(q) : h2.ram[a] = h.ram[a]
      /\ \A a \in Addresses : PageNumber(a) \notin h2.mapped => h2.ram[a] = 0
  BY <1>2, <1>7, WriteKeeps
<1>9. y \notin L /\ y \notin T /\ y \in O
  BY <1>1, <1>2 DEF Apart
<1> DEFINE G == F \ {y}
           P == L \cup (T \cup {o}) \cup G
<1>e. P = (O \ {y}) \cup {o}
  BY <1>9
<1>f. Placed(P, Z) /\ Rest(h2, P, Z)
  <2> HIDE DEF O, P
  <2> QED
    BY <1>1, <1>8, <1>9, <1>b, <1>c, <1>d, <1>e, Recut
<1>g. o \notin L /\ o \notin T /\ o \notin G
  BY <1>1, <1>9, <1>c DEF Placed
<1>h. Apart(L, T \cup {o}, G)
  BY <1>1, <1>g DEF Apart
<1>10. \A q \in G : h2.ram[q.at] = h.ram[q.at] /\ Chain(h2, q.at) = Chain(h, q.at)
  BY <1>3, <1>8 DEF Chain, Word
<1>11. Links(h2, G)
  <2>1. h.first[c] = y.at /\ h2.first[c] = Chain(h, y.at)
        /\ \A u \in Classes : u # c => h2.first[u] = h.first[u]
    BY <1>1, <1>5, <1>a, <1>c DEF Heaps
  <2> HIDE DEF c, r
  <2>2. ASSUME NEW u \in Classes, h2.first[u] # NULL
        PROVE  [at |-> h2.first[u], size |-> SizeOf(u)] \in G
    <3>1. CASE u = c
      BY <1>1, <1>2, <1>c, <1>a, <2>1, <2>2, <3>1 DEF Links
    <3>2. CASE u # c
      <4>1. [at |-> h.first[u], size |-> SizeOf(u)] \in F
        BY <1>1, <2>1, <2>2, <3>2 DEF Links
      <4>2. [at |-> h.first[u], size |-> SizeOf(u)].size = SizeOf(u) /\ SizeOf(u) # SizeOf(c)
        BY <1>a, <3>2, Representative
      <4> QED
        BY <1>c, <2>1, <3>2, <4>1, <4>2
    <3> QED
      BY <3>1, <3>2
  <2>3. ASSUME NEW q \in G, Chain(h2, q.at) # NULL
        PROVE  /\ [at |-> Chain(h2, q.at), size |-> q.size] \in G
               /\ Chain(h2, q.at) # h2.first[Class(q.size)]
               /\ \A b \in G : Chain(h2, b.at) = Chain(h2, q.at) => b = q
    <3>1. /\ Chain(h2, q.at) = Chain(h, q.at) /\ q.size \in SmallSizes
          /\ q.size = SizeOf(Class(q.size)) /\ Class(q.size) \in Classes
          /\ [at |-> Chain(h, q.at), size |-> q.size] \in F
          /\ Chain(h, q.at) # h.first[Class(q.size)]
          /\ \A b \in F : Chain(h, b.at) = Chain(h, q.at) => b = q
      BY <1>1, <1>10, <2>3 DEF Links, Classes
    <3>2. [at |-> Chain(h, q.at), size |-> q.size] # y
      <4>1. CASE q.size = SizeOf(c)
        BY <1>a, <1>c, <2>1, <3>1, <4>1
      <4>2. CASE q.size # SizeOf(c)
        BY <1>c, <4>2
      <4> QED
        BY <4>1, <4>2
    <3>3. Chain(h2, q.at) # h2.first[Class(q.size)]
      BY <1>2, <2>1, <3>1
    <3> QED
      BY <1>10, <3>1, <3>2, <3>3
  <2> QED
    BY <1>1, <2>2, <2>3 DEF Links
<1>12. Contents(h2, L, T \cup {o}, G)
  <2>1. \A q \in L : h2.ram[q.at] = q.size
    BY <1>3, <1>8, <1>9 DEF HeapInv, Contents
  <2>2. \A q \in T : \A a \in Object(q) : h2.ram[a] = 0
    BY <1>3, <1>8, <1>9 DEF HeapInv, Contents
  <2>3. \A a \in Object(o) : h2.ram[a] = 0
    BY <1>2, <1>3, <1>5, <1>6
  <2>4. \A q \in G : h2.ram[q.at] = 0
    BY <1>10 DEF HeapInv, Contents
  <2> QED
    BY <1>8, <2>1, <2>2, <2>3, <2>4 DEF Contents
<1>13. HeapInv(h2, L, T \cup {o}, G, Z)
  <2> HIDE DEF G
  <2> QED
    BY <1>8, <1>f, <1>h, <1>11, <1>12 DEF HeapInv
<1>14. \A q \in L \cup T : \A a \in Chunk(q) : h2.ram[a] = h.ram[a]
  BY <1>8, <1>9
<1>15. k.h = h2 /\ x = o
  BY <1>5 DEF h2, o, Cell
<1> QED
  BY <1>4, <1>c, <1>g, <1>13, <1>14, <1>15

(* A small object freed becomes the head of its list (alloc.c:236-244).    *)
LEMMA SmallFreed ==
  ASSUME HighDivides, SizesServed, NEW h, NEW L, NEW T, NEW F, NEW Z, HeapInv(h, L, T, F, Z),
         NEW o \in L, Small(o.size), toHeader(h, toObject(o.at)) # NULL,
         NEW k, k = pre_free(h, toObject(o.at))
  PROVE  \E F2 : HeapInv(k, L \ {o}, T, F2, Z) /\ Kept(h, k, L \ {o})
<1> DEFINE c == Class(o.size)
           r == h.first[c]
           y == [at |-> o.at, size |-> SizeOf(c)]
           h2 == [h EXCEPT !.ram[o.at] = 0, !.ram[o.at + 1] = r % WIDTH,
                           !.ram[o.at + 2] = r \div WIDTH, !.first[c] = o.at]
           O == L \cup T \cup F
           G == F \cup {y}
           P == (L \ {o}) \cup T \cup G
<1>1. ZonesMade(h, Z) /\ Placed(O, Z) /\ Apart(L, T, F) /\ h \in Heaps /\ Links(h, F)
  BY DEF HeapInv, ZonesMade
<1>2. \A q \in O : /\ Chunk(q) \subseteq Addresses /\ q.at \in Chunk(q)
                   /\ Object(q) \subseteq Chunk(q)
                   /\ q.at + 1 \in Chunk(q) /\ q.at + 2 \in Chunk(q)
                   /\ q.at \notin Object(q) /\ q.at \in Addresses
                   /\ q = [at |-> q.at, size |-> q.size] /\ q.at \in Nat /\ q.at > 0
                   /\ q.size \in Nat /\ q.size \in Sizes
  BY <1>1, ChunkInZone DEF Placed
<1>3. toHeader(h, toObject(o.at)) = o.at /\ Word(h, o.at) = o.size
  <2>1. PICK z \in Z : InZone(o, z)
    BY <1>1 DEF Placed
  <2>2. toObject(o.at) \in Chunk(o) \ {o.at}
    BY <1>2 DEF toObject
  <2> QED
    BY <1>1, <1>2, <2>1, <2>2, HeaderFound DEF Word, HeapInv, Contents
<1>4. pre_free(h, toObject(o.at)) = h2
  BY <1>3 DEF pre_free
<1>a. /\ o.size \in SmallSizes /\ c \in Classes /\ SizeOf(c) \in SmallSizes
      /\ Class(SizeOf(c)) = c /\ SizeOf(c) \in Sizes
  <2>1. o.size \in SmallSizes /\ c \in Classes
    BY <1>2 DEF SmallSizes, Classes
  <2> HIDE DEF c
  <2> QED
    BY <2>1, Representative DEF SmallSizes
<1>b. Kin(SizeOf(c), o.size) /\ total_size(SizeOf(c)) = total_size(o.size)
  BY <1>a DEF Kin, SizesServed
<1>c. y.at = o.at /\ y.size = SizeOf(c) /\ y \in [at : Addresses, size : Sizes]
  BY <1>2, <1>a
<1>5. /\ r \in Addresses \cup {NULL} /\ r \in Nat
      /\ o.at # o.at + 1 /\ o.at # o.at + 2 /\ o.at + 1 # o.at + 2
      /\ o.at \in Addresses /\ o.at + 1 \in Addresses /\ o.at + 2 \in Addresses
      /\ r % WIDTH \in Int /\ r \div WIDTH \in Int
      /\ (r % WIDTH) + WIDTH * (r \div WIDTH) = r
  <2>1. r \in Addresses \cup {NULL}
    BY <1>1, <1>a DEF Heaps
  <2> HIDE DEF r
  <2>2. r \in Nat
    BY <2>1, Constants DEF Addresses, NULL
  <2>3. r \div WIDTH \in Nat /\ r % WIDTH \in 0 .. WIDTH - 1
        /\ r = WIDTH * (r \div WIDTH) + (r % WIDTH)
    BY <2>2, Constants, Parts
  <2> DEFINE a == r \div WIDTH
             b == r % WIDTH
  <2>4. b + WIDTH * a = r /\ a \in Int /\ b \in Int
    <3> HIDE DEF a, b
    <3>1. a \in Nat /\ b \in 0 .. WIDTH - 1 /\ r = WIDTH * a + b
      BY <2>3 DEF a, b
    <3> QED
      BY <3>1, Constants
  <2> QED
    BY <1>2, <2>1, <2>2, <2>4
<1> DEFINE m == [[[h.ram EXCEPT ![o.at] = 0] EXCEPT ![o.at + 1] = r % WIDTH]
                   EXCEPT ![o.at + 2] = r \div WIDTH]
<1>6. /\ h2.desc = h.desc /\ h2.mapped = h.mapped
      /\ h2.current_zone = h.current_zone /\ h2.end_zone = h.end_zone
      /\ h2.first = [h.first EXCEPT ![c] = o.at]
      /\ h2.ram = m
      /\ h2 \in Heaps
  <2> DEFINE f == [h.first EXCEPT ![c] = o.at]
  <2>1. h2 = [h EXCEPT !.first = f, !.ram = m]
    <3> HIDE DEF r, c
    <3> QED
      BY <1>1 DEF Heaps
  <2>2. f \in [Classes -> Addresses \cup {NULL}] /\ m \in [Addresses -> Int]
    <3>1. h.first \in [Classes -> Addresses \cup {NULL}] /\ h.ram \in [Addresses -> Int]
      BY <1>1 DEF Heaps
    <3> DEFINE low == r % WIDTH
               high == r \div WIDTH
    <3> HIDE DEF r, c
    <3>2. low \in Int /\ high \in Int
      BY <1>5
    <3> HIDE DEF low, high
    <3>3. [h.first EXCEPT ![c] = o.at] \in [Classes -> Addresses \cup {NULL}]
      BY <1>5, <3>1
    <3>4. ASSUME NEW g \in [Addresses -> Int], NEW a, NEW v \in Int
          PROVE  [g EXCEPT ![a] = v] \in [Addresses -> Int]
      OBVIOUS
    <3> DEFINE g0 == [h.ram EXCEPT ![o.at] = 0]
               g1 == [g0 EXCEPT ![o.at + 1] = low]
    <3>5. g0 \in [Addresses -> Int]
      BY <3>1, <3>4
    <3> HIDE DEF g0
    <3>6. g1 \in [Addresses -> Int]
      BY <3>2, <3>4, <3>5
    <3> HIDE DEF g1
    <3>7. [g1 EXCEPT ![o.at + 2] = high] \in [Addresses -> Int]
      BY <3>2, <3>4, <3>6
    <3> QED
      BY <3>3, <3>7 DEF g1, g0, low, high
  <2> HIDE DEF h2, f, m
  <2>3. /\ h2.desc = h.desc /\ h2.mapped = h.mapped
        /\ h2.current_zone = h.current_zone /\ h2.end_zone = h.end_zone
        /\ h2.first = f /\ h2.ram = m /\ h2 \in Heaps
    BY <1>1, <2>1, <2>2 DEF Heaps
  <2> QED
    BY <2>3 DEF f
<1>7. /\ h2.ram[o.at] = 0 /\ Chain(h2, o.at) = r
      /\ \A a \in Addresses : a \notin Chunk(o) => h2.ram[a] = h.ram[a]
      /\ h2.first[c] = o.at
      /\ \A u \in Classes : u # c => h2.first[u] = h.first[u]
  <2> HIDE DEF h2, r, c
  <2>1. /\ h2.ram[o.at] = 0 /\ h2.ram[o.at + 1] = r % WIDTH /\ h2.ram[o.at + 2] = r \div WIDTH
        /\ \A a \in Addresses : a # o.at /\ a # o.at + 1 /\ a # o.at + 2 => h2.ram[a] = h.ram[a]
    BY <1>1, <1>5, <1>6 DEF Heaps
  <2>2. Chain(h2, o.at) = r
    BY <1>5, <2>1 DEF Chain, Word
  <2>3. h2.first[c] = o.at /\ \A u \in Classes : u # c => h2.first[u] = h.first[u]
    BY <1>1, <1>6, <1>a DEF Heaps
  <2> QED
    BY <1>2, <2>1, <2>2, <2>3
<1> HIDE DEF h2, m
<1>8. Written(h, h2, o)
  BY <1>2, <1>6, <1>7 DEF Written
<1>9. /\ ZonesMade(h2, Z) /\ Rest(h2, O, Z)
      /\ \A q \in O : q # o => \A a \in Chunk(q) : h2.ram[a] = h.ram[a]
      /\ \A a \in Addresses : PageNumber(a) \notin h2.mapped => h2.ram[a] = 0
  BY <1>8, WriteKeeps
<1> HIDE DEF y
<1>10. o \notin F /\ o \notin T /\ P = (O \ {o}) \cup {y}
  BY <1>1 DEF Apart
<1>d. Placed(P, Z) /\ Rest(h2, P, Z)
  <2>1. o \in O
    OBVIOUS
  <2> HIDE DEF O, P
  <2> QED
    BY <1>1, <1>9, <1>10, <1>b, <1>c, <2>1, Recut
<1>e. y \notin L \ {o} /\ y \notin T /\ y \notin F
  BY <1>1, <1>10, <1>c DEF Placed
<1>f. Apart(L \ {o}, T, G)
  BY <1>1, <1>e DEF Apart
<1>11. \A q \in F : h2.ram[q.at] = h.ram[q.at] /\ Chain(h2, q.at) = Chain(h, q.at)
  BY <1>2, <1>9, <1>10 DEF Chain, Word
<1>12. Links(h2, G)
  <2>0. Chain(h2, y.at) = r /\ y.size = SizeOf(Class(y.size)) /\ Class(y.size) = c
        /\ y \in G /\ y = [at |-> o.at, size |-> SizeOf(c)]
    BY <1>7, <1>a, <1>c DEF y
  <2> HIDE DEF G
  <2>g. \A q : q \in G <=> q \in F \/ q = y
    BY DEF G
  <2>1. \A q \in G : q.size \in SmallSizes /\ q.size = SizeOf(Class(q.size))
    BY <1>1, <1>a, <1>c, <2>0, <2>g DEF Links
  <2>3. r # NULL => [at |-> r, size |-> SizeOf(c)] \in F /\ r # o.at
    <3>1. r # NULL => [at |-> r, size |-> SizeOf(c)] \in F
      BY <1>1, <1>a DEF Links
    <3> QED
      BY <1>1, <1>10, <3>1 DEF Placed
  <2> HIDE DEF c, r
  <2>2. ASSUME NEW u \in Classes, h2.first[u] # NULL
        PROVE  [at |-> h2.first[u], size |-> SizeOf(u)] \in G
    <3>1. CASE u = c
      BY <1>7, <2>0, <3>1
    <3>2. CASE u # c
      BY <1>1, <1>7, <2>2, <2>g, <3>2 DEF Links
    <3> QED
      BY <3>1, <3>2
  <2>4. ASSUME NEW q \in F, Chain(h, q.at) # NULL
        PROVE  /\ [at |-> Chain(h, q.at), size |-> q.size] \in F
               /\ Chain(h, q.at) # h2.first[Class(q.size)]
               /\ \A x \in F : Chain(h, x.at) = Chain(h, q.at) => x = q
               /\ Chain(h, q.at) # r
    <3>1. /\ [at |-> Chain(h, q.at), size |-> q.size] \in F /\ q.size \in SmallSizes
          /\ q.size = SizeOf(Class(q.size)) /\ Class(q.size) \in Classes
          /\ Chain(h, q.at) # h.first[Class(q.size)]
          /\ \A x \in F : Chain(h, x.at) = Chain(h, q.at) => x = q
      BY <1>1, <2>4 DEF Links, Classes
    <3>2. Chain(h, q.at) # r
      <4> SUFFICES ASSUME Chain(h, q.at) = r PROVE FALSE
        OBVIOUS
      <4>1. [at |-> r, size |-> SizeOf(c)] \in F /\ [at |-> r, size |-> q.size] \in F
        BY <2>3, <2>4, <3>1
      <4>2. [at |-> r, size |-> SizeOf(c)] = [at |-> r, size |-> q.size]
        BY <1>1, <4>1 DEF Placed
      <4>3. SizeOf(c) = q.size
        BY <4>2
      <4> QED
        BY <1>a, <3>1, <4>3 DEF r
    <3>3. Chain(h, q.at) # h2.first[Class(q.size)]
      <4>1. CASE Class(q.size) = c
        <5>1. [at |-> Chain(h, q.at), size |-> q.size] # o
          BY <1>10, <3>1
        <5> QED
          BY <1>1, <1>7, <1>10, <3>1, <4>1 DEF Placed
      <4>2. CASE Class(q.size) # c
        BY <1>7, <3>1, <4>2
      <4> QED
        BY <4>1, <4>2
    <3> QED
      BY <3>1, <3>2, <3>3
  <2>5. ASSUME NEW q \in G, Chain(h2, q.at) # NULL
        PROVE  /\ [at |-> Chain(h2, q.at), size |-> q.size] \in G
               /\ Chain(h2, q.at) # h2.first[Class(q.size)]
               /\ \A x \in G : Chain(h2, x.at) = Chain(h2, q.at) => x = q
    <3>1. CASE q = y
      <4>1. /\ [at |-> Chain(h2, q.at), size |-> q.size] \in G
            /\ Chain(h2, q.at) # h2.first[Class(q.size)]
        BY <1>7, <1>c, <2>0, <2>3, <2>5, <2>g, <3>1
      <4>2. ASSUME NEW x \in F PROVE Chain(h2, x.at) # Chain(h2, q.at)
        BY <2>0, <1>11, <2>4, <2>5, <3>1
      <4> QED
        BY <2>g, <3>1, <4>1, <4>2
    <3>2. CASE q \in F
      BY <2>0, <1>11, <2>4, <2>5, <2>g, <3>2
    <3> QED
      BY <2>g, <3>1, <3>2
  <2> QED
    BY <2>1, <2>2, <2>5 DEF Links
<1>13. Contents(h2, L \ {o}, T, G)
  <2>1. \A q \in L \ {o} : h2.ram[q.at] = q.size
    BY <1>2, <1>9 DEF HeapInv, Contents
  <2>2. \A q \in T : \A a \in Object(q) : h2.ram[a] = 0
    BY <1>2, <1>9, <1>10 DEF HeapInv, Contents
  <2>3. \A q \in G : h2.ram[q.at] = 0
    BY <1>7, <1>11, <1>c DEF HeapInv, Contents
  <2> QED
    BY <1>9, <2>1, <2>2, <2>3 DEF Contents
<1>14. HeapInv(h2, L \ {o}, T, G, Z)
  <2> HIDE DEF G
  <2> QED
    BY <1>9, <1>12, <1>13, <1>d, <1>f DEF HeapInv
<1> QED
  BY <1>4, <1>9, <1>14 DEF Kept
-------------------------------------------------------------------------------
(* The page table after the entries of the zone y are set.                 *)
Rehash(h, y, elmt, depl) ==
  [h EXCEPT !.desc = [k \in PageNumbers |->
     IF k = y.page THEN elmt ELSE IF k \in PagesOf(y) THEN (k - y.page) * depl ELSE h.desc[k]]]

(* hash_zone writes the entries of the pages of a zone (alloc.c:121-138).  *)
LEMMA Hashed ==
  ASSUME NEW h, NEW y \in ZoneSet, PagesOf(y) \subseteq PageNumbers, NEW elmt, NEW depl
  PROVE  /\ hash_zone(h, Start(y), RoomOf(y.size), elmt, depl) = Rehash(h, y, elmt, depl)
         /\ PagesAt(y.page, RoomOf(y.size)) = PagesOf(y)
         /\ PageNumber(Start(y)) = y.page
<1> DEFINE n == y.page
           c == PageCount(y.size)
<1>1. /\ n \in PageNumbers /\ n \in Nat /\ c \in Nat \ {0}
      /\ RoomOf(y.size) = PAGE_SIZE * c
  BY SizeFacts DEF ZoneSet, PageNumbers
<1>2. PageNumber(Start(y)) = n
  <2>1. 0 \in 0 .. PAGE_SIZE - 1 /\ High + PAGE_SIZE * n + 0 = Start(y)
    BY <1>1, Constants DEF Start
  <2> QED
    BY <1>1, <2>1, PageOfWord
<1> HIDE DEF c
<1>3. (RoomOf(y.size) + PAGE_SIZE - 1) \div PAGE_SIZE = c
  <2>1. RoomOf(y.size) + PAGE_SIZE - 1 = PAGE_SIZE * c + (PAGE_SIZE - 1)
        /\ PAGE_SIZE - 1 \in 0 .. PAGE_SIZE - 1
    BY <1>1, Constants
  <2> QED
    BY <1>1, <2>1, Constants, Quotient
<1>4. PagesOf(y) = n .. n + c - 1
  BY DEF PagesOf, c
<1>5. PagesAt(n, RoomOf(y.size)) = PagesOf(y)
  <2>1. RoomOf(y.size) \div PAGE_SIZE = c
    BY DEF PageCount, c
  <2> QED
    BY <1>4, <2>1 DEF PagesAt
<1>6. \A k \in PageNumbers : k \in n + 1 .. n + c - 1 <=> k # n /\ k \in PagesOf(y)
  BY <1>1, <1>4 DEF PageNumbers
<1> QED
  BY <1>2, <1>3, <1>5, <1>6 DEF hash_zone, Rehash

(* Where mmap has room, a zone can be made (alloc.c:141-158).              *)
LEMMA ZoneMade ==
  ASSUME NEW h, NEW Z, ZonesMade(h, Z), NEW s \in Sizes, Room(h, RoomOf(s)) # {}
  PROVE  LET k == new_zone(h, RoomOf(s), total_size(s))
         IN \E y \in ZoneSet \ Z :
              /\ y.size = s /\ k.zone = Start(y)
              /\ ZonesMade(k.h, Z \cup {y}) /\ PagesOf(y) \cap h.mapped = {}
              /\ k.h.ram = h.ram /\ k.h.first = h.first
              /\ k.h.current_zone = h.current_zone /\ k.h.end_zone = h.end_zone
              /\ k.h.mapped = h.mapped \cup PagesOf(y)
<1> DEFINE R == Room(h, RoomOf(s))
           n == CHOOSE k \in R : \A j \in R : k <= j
           y == [page |-> n, size |-> s]
           k == new_zone(h, RoomOf(s), total_size(s))
<1>1. n \in R
  <2>1. R \in SUBSET Nat
    BY DEF Room, PageNumbers
  <2> HIDE DEF R
  <2>2. \E i \in R : \A j \in R : i <= j
    BY <2>1, Lowest DEF R
  <2> QED
    BY <2>2
<1>2. n \in PageNumbers /\ n \in Nat
  BY <1>1 DEF Room, PageNumbers
<1>3. PageCount(s) \in Nat \ {0} /\ RoomOf(s) \div PAGE_SIZE = PageCount(s)
  BY SizeFacts DEF PageCount
<1>4. n + PageCount(s) <= NbPages /\ PagesAt(n, RoomOf(s)) \cap h.mapped = {}
  BY <1>1, <1>3 DEF Room
<1> HIDE DEF n, R
<1>5. y \in ZoneSet /\ y.page = n /\ y.size = s
  BY <1>2 DEF ZoneSet
<1>6. PagesOf(y) \subseteq PageNumbers
  <2>1. PagesOf(y) = n .. n + PageCount(s) - 1
    BY <1>5 DEF PagesOf
  <2> HIDE DEF y
  <2> QED
    BY <1>2, <1>3, <1>4, <2>1, Constants DEF PageNumbers
<1>7. /\ PagesAt(n, RoomOf(s)) = PagesOf(y) /\ PageNumber(Start(y)) = n
  BY <1>5, <1>6, Hashed
<1>8. PagesOf(y) \cap h.mapped = {}
  BY <1>4, <1>7
<1>9. y.page \in PagesOf(y)
  BY <1>2, <1>3, <1>5 DEF PagesOf
<1>10. y \notin Z
  BY <1>8, <1>9 DEF ZonesMade
<1> DEFINE h1 == [h EXCEPT !.mapped = @ \cup PagesOf(y)]
           d == [i \in PageNumbers |->
                   IF i = n THEN total_size(s)
                   ELSE IF i \in PagesOf(y) THEN (i - n) * (-1) ELSE h.desc[i]]
<1>11. k.zone = Start(y) /\ k.h = hash_zone(h1, Start(y), RoomOf(s), total_size(s), -1)
  <2>1. High + n * PAGE_SIZE = Start(y)
    BY <1>2, <1>5, Constants DEF Start
  <2> HIDE DEF y
  <2> QED
    BY <1>7, <2>1 DEF new_zone, n, R
<1>12. k.h = [h1 EXCEPT !.desc = d]
  <2>1. h1.desc = h.desc
    BY DEF ZonesMade, Heaps
  <2> HIDE DEF y, h1, k
  <2>2. hash_zone(h1, Start(y), RoomOf(y.size), total_size(s), -1) =
          Rehash(h1, y, total_size(s), -1)
    BY <1>5, <1>6, Hashed
  <2> QED
    BY <1>5, <1>11, <2>1, <2>2 DEF Rehash
<1> HIDE DEF k, y
<1>13. d \in [PageNumbers -> Int] /\ h.mapped \cup PagesOf(y) \subseteq PageNumbers
  <2>1. total_size(s) \in Int /\ h \in Heaps
    BY SizeFacts DEF ZonesMade
  <2>2. \A i \in PageNumbers : (i - n) * (-1) \in Int
    BY <1>2 DEF PageNumbers
  <2> QED
    BY <1>6, <2>1, <2>2 DEF Heaps
<1>14. \A i \in PageNumbers : d[i] = IF i = n THEN total_size(s)
                                    ELSE IF i \in PagesOf(y) THEN n - i ELSE h.desc[i]
  <2>1. \A i \in PageNumbers : (i - n) * (-1) = n - i
    BY <1>2 DEF PageNumbers
  <2> QED
    BY <2>1
<1> HIDE DEF d
<1>15. /\ k.h.ram = h.ram /\ k.h.first = h.first /\ k.h.desc = d
       /\ k.h.current_zone = h.current_zone /\ k.h.end_zone = h.end_zone
       /\ k.h.mapped = h.mapped \cup PagesOf(y) /\ k.h \in Heaps
  BY <1>12, <1>13 DEF ZonesMade, Heaps
<1>16. ZonesMade(k.h, Z \cup {y})
  <2>1. \A z \in Z : PagesOf(z) \cap PagesOf(y) = {}
    BY <1>8 DEF ZonesMade
  <2>2. \A z \in Z \cup {y} : PagesOf(z) \subseteq PageNumbers
    BY <1>6 DEF ZonesMade
  <2>3. \A x, z \in Z \cup {y} : x # z => PagesOf(x) \cap PagesOf(z) = {}
    BY <2>1 DEF ZonesMade
  <2>4. k.h.mapped = UNION {PagesOf(z) : z \in Z \cup {y}}
    BY <1>15 DEF ZonesMade
  <2>5. ASSUME NEW z \in Z \cup {y}, NEW i \in PagesOf(z)
        PROVE  k.h.desc[i] = IF i = z.page THEN total_size(z.size) ELSE z.page - i
    <3>1. i \in PageNumbers
      BY <2>2
    <3>2. CASE z = y
      BY <1>5, <1>14, <1>15, <2>5, <3>1, <3>2
    <3>3. CASE z \in Z
      <4>1. i \notin PagesOf(y) /\ i # n
        BY <1>5, <1>9, <2>1, <3>3
      <4>2. k.h.desc[i] = h.desc[i]
        BY <1>14, <1>15, <3>1, <4>1
      <4> QED
        BY <3>3, <4>2 DEF ZonesMade
    <3> QED
      BY <3>2, <3>3
  <2>6. \A i \in PageNumbers \ k.h.mapped : k.h.desc[i] = 0
    BY <1>5, <1>9, <1>14, <1>15 DEF ZonesMade
  <2> QED
    BY <1>5, <1>15, <2>2, <2>3, <2>4, <2>5, <2>6 DEF ZonesMade
<1> QED
  BY <1>5, <1>8, <1>10, <1>11, <1>15, <1>16 DEF k

(* A new object in a chunk nobody has, whose words are zero, is taken.     *)
LEMMA AddTaken ==
  ASSUME NEW h, NEW L, NEW T, NEW F, NEW Z, NEW h2, NEW Y, NEW y \in Y, NEW o,
         HeapInv(h, L, T, F, Z), Z \subseteq Y, ZonesMade(h2, Y), InZone(o, y),
         h2.ram = h.ram, h2.first = h.first, h.mapped \subseteq h2.mapped,
         \A q \in L \cup T \cup F : o.at \notin Chunk(q),
         \A a \in Chunk(o) : h.ram[a] = 0,
         Rest(h2, L \cup T \cup F \cup {o}, Y)
  PROVE  HeapInv(h2, L, T \cup {o}, F, Y)
<1> DEFINE O == L \cup T \cup F
<1>1. ZonesMade(h, Z) /\ Placed(O, Z) /\ Apart(L, T, F) /\ Links(h, F) /\ Contents(h, L, T, F)
  BY DEF HeapInv
<1>2. \A q \in O : q.at \in Chunk(q)
  BY <1>1, ChunkInZone DEF Placed
<1>3. o \notin O /\ \A q \in O : q.at # o.at
  BY <1>2
<1>4. Object(o) \subseteq Chunk(o)
  BY ChunkInZone
<1>5. Placed(L \cup (T \cup {o}) \cup F, Y)
  BY <1>1, <1>3 DEF Placed
<1>6. Apart(L, T \cup {o}, F)
  BY <1>1, <1>3 DEF Apart
<1>7. Links(h2, F)
  BY <1>1 DEF Links, Chain, Word
<1>8. Contents(h2, L, T \cup {o}, F)
  BY <1>1, <1>4 DEF Contents
<1>9. L \cup (T \cup {o}) \cup F = O \cup {o}
  OBVIOUS
<1> QED
  BY <1>5, <1>6, <1>7, <1>8, <1>9 DEF HeapInv


(* What a class has left is words of its zone.                             *)
LEMMA RestInZone ==
  ASSUME NEW h, NEW Y, NEW O, NEW k, ZonesMade(k, Y), NEW z \in Y, Open(h, O, z)
  PROVE  /\ h.current_zone[Class(z.size)] \in Nat /\ h.current_zone[Class(z.size)] >= Start(z)
         /\ h.current_zone[Class(z.size)] .. End(z) - 1 \subseteq Start(z) .. End(z) - 1
<1>1. PICK i \in Nat : h.current_zone[Class(z.size)] = Start(z) + total_size(z.size) * i
  BY DEF Open
<1>2. Start(z) \in Nat /\ End(z) \in Nat /\ total_size(z.size) \in Nat
  BY ZoneTypes, SizeFacts
<1>3. total_size(z.size) * i \in Nat
  BY <1>2
<1> QED
  BY <1>1, <1>2, <1>3

(* An object given in another zone leaves what a class has left.           *)
LEMMA OpenKept ==
  ASSUME NEW h, NEW O, NEW h2, NEW Y, ZonesMade(h2, Y), NEW y \in Y, NEW z \in Y, y # z,
         NEW o, InZone(o, y), Open(h, O, z), h2.ram = h.ram,
         h2.current_zone[Class(z.size)] = h.current_zone[Class(z.size)],
         h2.end_zone[Class(z.size)] = h.end_zone[Class(z.size)]
  PROVE  Open(h2, O \cup {o}, z)
<1>1. h.current_zone[Class(z.size)] .. End(z) - 1 \subseteq Start(z) .. End(z) - 1
  BY RestInZone
<1>2. Chunk(o) \subseteq Start(y) .. End(y) - 1
  BY ChunkInZone
<1>3. Chunk(o) \cap (h.current_zone[Class(z.size)] .. End(z) - 1) = {}
  BY <1>1, <1>2, ZonesApart
<1> QED
  BY <1>3 DEF Open

(* The first element of a zone is an object of its size.                   *)
LEMMA FirstElement ==
  ASSUME SizesServed, NEW h, NEW Y, ZonesMade(h, Y), NEW y \in Y
  PROVE  InZone([at |-> Start(y), size |-> y.size], y)
<1>1. /\ Start(y) \in Nat /\ y.size \in Sizes /\ End(y) = Start(y) + RoomOf(y.size)
      /\ Start(y) .. End(y) - 1 \subseteq Addresses
  BY ZoneTypes
<1>2. /\ total_size(y.size) \in Nat /\ total_size(y.size) <= RoomOf(y.size)
      /\ RoomOf(y.size) \in Nat /\ RoomOf(y.size) > 0 /\ total_size(y.size) >= 4
  BY <1>1, SizeFacts DEF SizesServed
<1>3. Start(y) \in Addresses /\ Start(y) + total_size(y.size) <= End(y)
  BY <1>1, <1>2
<1>4. \E i \in Nat : /\ Start(y) = Start(y) + total_size(y.size) * i
                     /\ Small(y.size) \/ i = 0
  <2>1. 0 \in Nat /\ Start(y) = Start(y) + total_size(y.size) * 0
    BY <1>1, <1>2
  <2> QED
    BY <2>1
<1> DEFINE o == [at |-> Start(y), size |-> y.size]
<1>5. o.at = Start(y) /\ o.size = y.size /\ o \in [at : Addresses, size : Sizes]
  BY <1>1, <1>3
<1> HIDE DEF o
<1>6. InZone(o, y)
  BY <1>2, <1>3, <1>4, <1>5 DEF InZone, Kin
<1> QED
  BY <1>6 DEF o

(* The class of a new zone of small objects goes on after the first one.   *)
Opened(k, y) ==
  IF ~Small(y.size) THEN k
  ELSE [k EXCEPT !.current_zone[Class(y.size)] = Start(y) + total_size(y.size),
                 !.end_zone[Class(y.size)] = End(y)]

(* The first object of a new zone, of a class or a large one.              *)
LEMMA NewZoneTaken ==
  ASSUME SizesServed, NEW h, NEW L, NEW T, NEW F, NEW Z, HeapInv(h, L, T, F, Z),
         NEW y \in ZoneSet \ Z, NEW k, NEW h2,
         ZonesMade(k, Z \cup {y}), PagesOf(y) \cap h.mapped = {},
         k.ram = h.ram, k.first = h.first, k.mapped = h.mapped \cup PagesOf(y),
         k.current_zone = h.current_zone, k.end_zone = h.end_zone,
         h2 = Opened(k, y),
         NEW x, x = Cell(Start(y), y.size)
  PROVE  /\ x.at \in Addresses /\ x \notin L \cup T \cup F
         /\ HeapInv(h2, L, T \cup {x}, F, Z \cup {y}) /\ h2.ram = h.ram
<1> DEFINE o == [at |-> Start(y), size |-> y.size]
           O == L \cup T \cup F
           Y == Z \cup {y}
           s == y.size
           b == Class(s)
<1>1. ZonesMade(h, Z) /\ Placed(O, Z) /\ Rest(h, O, Z)
  BY DEF HeapInv
<1>2. /\ y \in Y /\ s \in Sizes /\ Start(y) \in Nat /\ End(y) \in Nat
      /\ Start(y) .. End(y) - 1 \subseteq Addresses
      /\ \A a \in Start(y) .. End(y) - 1 : PageNumber(a) \in PagesOf(y)
      /\ End(y) = Start(y) + RoomOf(s)
  BY ZoneTypes
<1>3. total_size(s) \in Nat /\ RoomOf(s) \in Nat /\ total_size(s) <= RoomOf(s)
  BY <1>2, SizeFacts
<1>4. o.at = Start(y) /\ o.size = s /\ InZone(o, y)
  BY FirstElement
<1> HIDE DEF o
<1>5. \A a \in Start(y) .. End(y) - 1 : h.ram[a] = 0
  BY <1>2 DEF HeapInv, Contents
<1>6. \A q \in O : Chunk(q) \cap (Start(y) .. End(y) - 1) = {}
  <2>1. \A q \in O : \A a \in Chunk(q) : PageNumber(a) \in h.mapped
    BY <1>1, ChunkInZone DEF Placed
  <2> QED
    BY <1>2, <2>1
<1>7. Chunk(o) = Start(y) .. Start(y) + total_size(s) - 1 /\ o.at \in Chunk(o)
      /\ Chunk(o) \subseteq Start(y) .. End(y) - 1
  BY <1>4, ChunkInZone
<1>8. /\ ZonesMade(h2, Y) /\ h2.ram = h.ram /\ h2.first = h.first /\ h2.mapped = k.mapped
      /\ \A u \in Classes : ~Small(s) \/ u # b => /\ h2.current_zone[u] = h.current_zone[u]
                                                  /\ h2.end_zone[u] = h.end_zone[u]
      /\ Small(s) => /\ h2.current_zone[b] = Start(y) + total_size(s)
                     /\ h2.end_zone[b] = End(y) /\ s \in SmallSizes
  <2>1. CASE ~Small(s)
    BY <2>1 DEF SmallSizes, Opened
  <2>2. CASE Small(s)
    <3> DEFINE c == [k.current_zone EXCEPT ![b] = Start(y) + total_size(s)]
               e == [k.end_zone EXCEPT ![b] = End(y)]
    <3>1. s \in SmallSizes /\ b \in Classes /\ k \in Heaps
      BY <1>2, <2>2 DEF SmallSizes, ZonesMade, Classes
    <3>2. c \in [Classes -> Nat] /\ e \in [Classes -> Nat]
      BY <1>2, <1>3, <3>1 DEF Heaps
    <3>3. h2 = [k EXCEPT !.current_zone = c, !.end_zone = e]
      BY <2>2, <3>1 DEF Heaps, Opened
    <3>4. /\ \A u \in Classes : u # b => c[u] = k.current_zone[u] /\ e[u] = k.end_zone[u]
          /\ c[b] = Start(y) + total_size(s) /\ e[b] = End(y)
      BY <3>1 DEF Heaps
    <3> HIDE DEF c, e
    <3>5. /\ h2 \in Heaps /\ h2.ram = k.ram /\ h2.first = k.first /\ h2.mapped = k.mapped
          /\ h2.desc = k.desc /\ h2.current_zone = c /\ h2.end_zone = e
      BY <3>1, <3>2, <3>3 DEF Heaps
    <3>6. ZonesMade(h2, Y)
      BY <3>5 DEF ZonesMade
    <3> QED
      BY <2>2, <3>1, <3>4, <3>5, <3>6
  <2> QED
    BY <2>1, <2>2
<1>9. Rest(h2, O \cup {o}, Y)
  <2> SUFFICES ASSUME NEW u \in Classes
               PROVE  \/ h2.current_zone[u] = NULL /\ h2.end_zone[u] = NULL
                      \/ \E z \in Y : /\ z.size \in SmallSizes /\ Class(z.size) = u
                                      /\ Open(h2, O \cup {o}, z)
    BY DEF Rest
  <2>1. CASE Small(s) /\ u = b
    <3>1. h2.current_zone[b] = Start(y) + total_size(s) /\ h2.end_zone[b] = End(y)
      BY <1>8, <2>1
    <3>2. Start(y) + total_size(s) = Start(y) + total_size(s) * 1 /\ 1 \in Nat
      BY <1>3
    <3>3. Start(y) + total_size(s) <= End(y)
      BY <1>2, <1>3
    <3>4. /\ Start(y) + total_size(s) .. End(y) - 1 \subseteq Start(y) .. End(y) - 1
          /\ Chunk(o) \cap (Start(y) + total_size(s) .. End(y) - 1) = {}
      BY <1>2, <1>3, <1>7
    <3>5. \A a \in Start(y) + total_size(s) .. End(y) - 1 : h2.ram[a] = 0
      BY <1>5, <1>8, <3>4
    <3>6. \A q \in O \cup {o} : Chunk(q) \cap (Start(y) + total_size(s) .. End(y) - 1) = {}
      BY <1>6, <3>4
    <3>7. Open(h2, O \cup {o}, y)
      BY <3>1, <3>2, <3>3, <3>5, <3>6 DEF Open
    <3> QED
      BY <1>2, <1>8, <2>1, <3>7
  <2>2. CASE (~Small(s) \/ u # b) /\ h.current_zone[u] = NULL /\ h.end_zone[u] = NULL
    BY <1>8, <2>2
  <2>3. CASE /\ ~Small(s) \/ u # b
             /\ \E z \in Z : z.size \in SmallSizes /\ Class(z.size) = u /\ Open(h, O, z)
    <3>1. PICK z \in Z : z.size \in SmallSizes /\ Class(z.size) = u /\ Open(h, O, z)
      BY <2>3
    <3>2. z \in Y /\ z # y
      BY <2>3, <3>1
    <3>3. Open(h2, O \cup {o}, z)
      <4> HIDE DEF O, Y
      <4> QED
        BY <1>2, <1>4, <1>8, <2>3, <3>1, <3>2, OpenKept
    <3> QED
      BY <3>1, <3>2, <3>3
  <2> QED
    BY <1>1, <2>1, <2>2, <2>3 DEF Rest
<1>10. \A q \in O : o.at \notin Chunk(q)
  BY <1>6, <1>7
<1>11. \A a \in Chunk(o) : h.ram[a] = 0
  BY <1>5, <1>7
<1>12. HeapInv(h2, L, T \cup {o}, F, Y)
  <2>1. Z \subseteq Y /\ h.mapped \subseteq h2.mapped
    BY <1>8
  <2> HIDE DEF Y, s, b
  <2> QED
    BY <1>2, <1>4, <1>8, <1>9, <1>10, <1>11, <2>1, AddTaken
<1>13. o \notin O /\ o.at \in Addresses
  <2>1. \A q \in O : q.at \in Chunk(q)
    BY <1>1, ChunkInZone DEF Placed
  <2> QED
    BY <1>2, <1>7, <1>10, <2>1
<1> QED
  BY <1>8, <1>12, <1>13 DEF o, Cell

(* The next element of the zone of a class (alloc.c:186-188).              *)
LEMMA BumpTaken ==
  ASSUME SizesServed, NEW h, NEW L, NEW T, NEW F, NEW Z, HeapInv(h, L, T, F, Z),
         NEW s \in SmallSizes, h.current_zone[Class(s)] + total_size(s) <= h.end_zone[Class(s)]
  PROVE  LET o == [at |-> h.current_zone[Class(s)], size |-> s]
             h2 == [h EXCEPT !.current_zone[Class(s)] = @ + total_size(s)]
         IN /\ o.at \in Addresses /\ o \notin L \cup T \cup F
            /\ HeapInv(h2, L, T \cup {o}, F, Z) /\ h2.ram = h.ram
<1> DEFINE b == Class(s)
           c == h.current_zone[b]
           o == [at |-> c, size |-> s]
           h2 == [h EXCEPT !.current_zone[b] = @ + total_size(s)]
           O == L \cup T \cup F
           e == total_size(s)
<1>1. ZonesMade(h, Z) /\ Placed(O, Z) /\ Rest(h, O, Z) /\ h \in Heaps
  BY DEF HeapInv, ZonesMade
<1>2. s \in Sizes /\ Small(s) /\ e \in Nat /\ e >= 4 /\ b \in Classes
  <2>1. s \in Sizes /\ Small(s) /\ b \in Classes
    BY DEF SmallSizes, Classes
  <2> QED
    BY <2>1, SizeFacts DEF SizesServed
<1>3. PICK z \in Z : z.size \in SmallSizes /\ Class(z.size) = b /\ Open(h, O, z)
  <2>1. ~(h.current_zone[b] = NULL /\ h.end_zone[b] = NULL)
    <3> SUFFICES ASSUME h.current_zone[b] = 0, h.end_zone[b] = 0 PROVE FALSE
      BY DEF NULL
    <3> HIDE DEF e
    <3>1. 0 + e <= 0
      BY DEF e
    <3> QED
      BY <1>2, <3>1
  <2> HIDE DEF b
  <2> QED
    BY <1>1, <1>2, <2>1 DEF Rest
<1>a. total_size(z.size) = e /\ Kin(s, z.size)
  BY <1>3 DEF SizesServed, Kin
<1>4. /\ c \in Nat /\ c >= Start(z) /\ h.end_zone[b] = End(z) /\ c + e <= End(z)
      /\ Start(z) \in Nat /\ End(z) \in Nat /\ Start(z) .. End(z) - 1 \subseteq Addresses
      /\ \A a \in c .. End(z) - 1 : h.ram[a] = 0
      /\ \A q \in O : Chunk(q) \cap (c .. End(z) - 1) = {}
  <2>1. c \in Nat /\ c >= Start(z)
    BY <1>1, <1>3, RestInZone
  <2>2. Start(z) \in Nat /\ End(z) \in Nat /\ Start(z) .. End(z) - 1 \subseteq Addresses
    BY <1>1, ZoneTypes
  <2> QED
    BY <1>3, <2>1, <2>2 DEF Open
<1>5. PICK i \in Nat : c = Start(z) + e * i
  BY <1>3, <1>a DEF Open
<1>6. c \in c .. End(z) - 1 /\ c \in Addresses
  BY <1>2, <1>4
<1>7. o.at = c /\ o.size = s /\ o \in [at : Addresses, size : Sizes]
  BY <1>2, <1>6
<1> HIDE DEF o
<1>8. InZone(o, z)
  BY <1>2, <1>3, <1>4, <1>5, <1>7, <1>a DEF InZone, SmallSizes
<1>9. Chunk(o) = c .. c + e - 1 /\ o.at \in Chunk(o)
  BY <1>1, <1>3, <1>7, <1>8, <1>a, ChunkInZone
<1>10. Chunk(o) \subseteq c .. End(z) - 1
  BY <1>2, <1>4, <1>9
<1>11. /\ h2 \in Heaps /\ h2.desc = h.desc /\ h2.mapped = h.mapped /\ h2.ram = h.ram
       /\ h2.first = h.first /\ h2.end_zone = h.end_zone
       /\ h2.current_zone[b] = c + e
       /\ \A u \in Classes : u # b => h2.current_zone[u] = h.current_zone[u]
  BY <1>1, <1>2, <1>4 DEF Heaps
<1> HIDE DEF h2, c, e, b
<1>12. ZonesMade(h2, Z)
  BY <1>1, <1>11 DEF ZonesMade
<1>13. Rest(h2, O \cup {o}, Z)
  <2> SUFFICES ASSUME NEW u \in Classes
               PROVE  \/ h2.current_zone[u] = NULL /\ h2.end_zone[u] = NULL
                      \/ \E x \in Z : /\ x.size \in SmallSizes /\ Class(x.size) = u
                                      /\ Open(h2, O \cup {o}, x)
    BY DEF Rest
  <2>1. CASE u = b
    <3>1. c + e = Start(z) + e * (i + 1) /\ i + 1 \in Nat
      <4>1. e * (i + 1) = e * i + e
        BY <1>2
      <4>2. e * i \in Nat
        BY <1>2
      <4> QED
        BY <1>2, <1>4, <1>5, <4>1, <4>2
    <3>2. c + e .. End(z) - 1 \subseteq c .. End(z) - 1
      BY <1>2, <1>4
    <3>3. Chunk(o) \cap (c + e .. End(z) - 1) = {}
      BY <1>2, <1>4, <1>9
    <3>4. \A q \in O \cup {o} : Chunk(q) \cap (c + e .. End(z) - 1) = {}
      BY <1>4, <3>2, <3>3
    <3>5. \A a \in c + e .. End(z) - 1 : h2.ram[a] = 0
      BY <1>4, <1>11, <3>2
    <3>6. \E j \in Nat : h2.current_zone[Class(z.size)] = Start(z) + total_size(z.size) * j
      BY <1>3, <1>11, <1>a, <3>1
    <3>7. Open(h2, O \cup {o}, z)
      BY <1>3, <1>4, <1>11, <3>4, <3>5, <3>6 DEF Open
    <3> QED
      BY <1>3, <2>1, <3>7
  <2>2. CASE u # b /\ h.current_zone[u] = NULL /\ h.end_zone[u] = NULL
    BY <1>11, <2>2
  <2>3. CASE /\ u # b
             /\ \E x \in Z : x.size \in SmallSizes /\ Class(x.size) = u /\ Open(h, O, x)
    <3>1. PICK x \in Z : x.size \in SmallSizes /\ Class(x.size) = u /\ Open(h, O, x)
      BY <2>3
    <3>2. x # z
      BY <1>3, <2>3, <3>1
    <3>3. Open(h2, O \cup {o}, x)
      <4> HIDE DEF O
      <4> QED
        BY <1>8, <1>11, <1>12, <2>3, <3>1, <3>2, OpenKept
    <3> QED
      BY <3>1, <3>3
  <2> QED
    BY <1>1, <2>1, <2>2, <2>3 DEF Rest
<1>14. \A q \in O : o.at \notin Chunk(q)
  BY <1>4, <1>6, <1>7
<1>15. \A a \in Chunk(o) : h.ram[a] = 0
  BY <1>4, <1>10
<1>16. HeapInv(h2, L, T \cup {o}, F, Z)
  BY <1>8, <1>11, <1>12, <1>13, <1>14, <1>15, AddTaken
<1>17. o \notin O
  <2>1. \A q \in O : q.at \in Chunk(q)
    BY <1>1, ChunkInZone DEF Placed
  <2> QED
    BY <1>14, <2>1
<1> QED
  BY <1>6, <1>7, <1>11, <1>16, <1>17 DEF o, h2, c, e, b


(* What a call that gives the heap and the pointer of k owes to its caller. *)
Gives(h, L, T, s, k) ==
  /\ k.res \in Addresses /\ Cell(k.res, s) \notin L \cup T
  /\ \E F2, Z2 : HeapInv(k.h, L, T \cup {Cell(k.res, s)}, F2, Z2)
  /\ Kept(h, k.h, L \cup T)

(* Whatever allocate_internal gives is an object nobody else has, and the  *)
(* words of the others stay (alloc.c:160-210).                             *)
LEMMA TakeTaken ==
  ASSUME SizesServed, NEW h, NEW L, NEW T, NEW F, NEW Z, HeapInv(h, L, T, F, Z),
         NEW s \in Sizes, Fits(h, s)
  PROVE  Gives(h, L, T, s, Take(h, s))
<1> DEFINE k == Take(h, s)
           o == [at |-> k.res, size |-> s]
           Given == /\ k.res \in Addresses /\ o \notin L \cup T
                    /\ \E F2, Z2 : HeapInv(k.h, L, T \cup {o}, F2, Z2)
                    /\ \A q \in L \cup T : \A a \in Chunk(q) : k.h.ram[a] = h.ram[a]
<1> SUFFICES Given
  <2>1. o = Cell(k.res, s)
    BY DEF Cell
  <2> HIDE DEF k, o
  <2>2. SUFFICES Gives(h, L, T, s, k)
    BY DEF k
  <2> QED
    BY <2>1 DEF Kept, Gives
<1>1. ZonesMade(h, Z) /\ Apart(L, T, F) /\ Placed(L \cup T \cup F, Z)
  BY DEF HeapInv
<1>2. CASE Small(s) /\ h.first[Class(s)] # NULL
  <2>1. s \in SmallSizes /\ k = Pop(h, s)
    BY <1>2 DEF SmallSizes, Take
  <2> HIDE DEF k
  <2>2. o = Cell(k.res, s) /\ o.at = k.res
    BY DEF Cell
  <2> HIDE DEF o
  <2>3. /\ o.at \in Addresses /\ o \notin L \cup T
        /\ \E F2 : HeapInv(k.h, L, T \cup {o}, F2, Z)
        /\ \A q \in L \cup T : \A a \in Chunk(q) : k.h.ram[a] = h.ram[a]
    BY <1>2, <2>1, <2>2, PopTaken
  <2>4. Given
    BY <2>2, <2>3
  <2> QED
    BY <2>4 DEF k, o
<1>3. CASE Small(s) /\ ~(h.first[Class(s)] # NULL)
           /\ h.current_zone[Class(s)] + total_size(s) <= h.end_zone[Class(s)]
  <2>1. /\ s \in SmallSizes
        /\ k = [h |-> [h EXCEPT !.current_zone[Class(s)] = @ + total_size(s)],
                res |-> h.current_zone[Class(s)]]
    BY <1>3 DEF SmallSizes, Take, Bump
  <2> DEFINE h2 == [h EXCEPT !.current_zone[Class(s)] = @ + total_size(s)]
  <2>2. k.h = h2 /\ k.res = h.current_zone[Class(s)]
    BY <2>1
  <2>3. LET x == [at |-> h.current_zone[Class(s)], size |-> s]
        IN /\ x.at \in Addresses /\ x \notin L \cup T \cup F
           /\ HeapInv(h2, L, T \cup {x}, F, Z) /\ h2.ram = h.ram
    BY <1>3, <2>1, BumpTaken
  <2> HIDE DEF k, h2
  <2>4. o.at = k.res /\ o = [at |-> h.current_zone[Class(s)], size |-> s]
    BY <2>2
  <2> HIDE DEF o
  <2>5. Given
    BY <2>2, <2>3, <2>4
  <2> QED
    BY <2>5 DEF k, o
<1>4. CASE ~(Small(s) /\ h.first[Class(s)] # NULL)
           /\ ~(Small(s) /\ h.current_zone[Class(s)] + total_size(s) <= h.end_zone[Class(s)])
  <2>1. Room(h, RoomOf(s)) # {}
    BY <1>4 DEF Fits, RoomOf
  <2> DEFINE n == new_zone(h, RoomOf(s), total_size(s))
  <2>2. PICK y \in ZoneSet \ Z :
          /\ y.size = s /\ n.zone = Start(y)
          /\ ZonesMade(n.h, Z \cup {y}) /\ PagesOf(y) \cap h.mapped = {}
          /\ n.h.ram = h.ram /\ n.h.first = h.first
          /\ n.h.current_zone = h.current_zone /\ n.h.end_zone = h.end_zone
          /\ n.h.mapped = h.mapped \cup PagesOf(y)
    BY <1>1, <2>1, ZoneMade
  <2>3. k.res = Start(y) /\ k.h = Opened(n.h, y)
    <3>1. total_size(s) \in Nat /\ total_size(s) * 1 = total_size(s)
      BY SizeFacts
    <3>2. CASE ~Small(s)
      <4>1. align(total_size(s), PAGE_SIZE) = RoomOf(s)
        BY <3>1, <3>2 DEF RoomOf
      <4> QED
        BY <2>2, <3>2, <4>1 DEF Take, Large, Opened
    <3>3. CASE Small(s)
      <4>1. align(total_size(s) * ZONE_OBJECTS, PAGE_SIZE) = RoomOf(s)
        BY <3>3 DEF RoomOf
      <4>2. Start(y) + RoomOf(s) = End(y)
        BY <2>2 DEF End
      <4>3. k = Bump(h, s)
        BY <1>4, <3>3 DEF Take
      <4> HIDE DEF k
      <4>4. k = [h |-> [n.h EXCEPT !.current_zone[Class(s)] = n.zone + total_size(s),
                                   !.end_zone[Class(s)] = n.zone + RoomOf(s)],
                 res |-> n.zone]
        BY <1>4, <3>3, <4>1, <4>3 DEF Bump
      <4> HIDE DEF n
      <4> QED
        BY <2>2, <3>3, <4>2, <4>4 DEF Opened
    <3> QED
      BY <3>2, <3>3
  <2> HIDE DEF k, n
  <2>4. o.at = k.res /\ o = Cell(Start(y), y.size)
    BY <2>2, <2>3 DEF Cell
  <2> HIDE DEF o
  <2>5. /\ o.at \in Addresses /\ o \notin L \cup T \cup F
        /\ HeapInv(k.h, L, T \cup {o}, F, Z \cup {y}) /\ k.h.ram = h.ram
    <3> DEFINE g == n.h
    <3>1. k.h = Opened(g, y)
      BY <2>3
    <3>2. ZonesMade(g, Z \cup {y}) /\ PagesOf(y) \cap h.mapped = {}
      BY <2>2
    <3>3. /\ g.ram = h.ram /\ g.first = h.first /\ g.mapped = h.mapped \cup PagesOf(y)
          /\ g.current_zone = h.current_zone /\ g.end_zone = h.end_zone
      BY <2>2
    <3> HIDE DEF g
    <3> QED
      BY <2>4, <3>1, <3>2, <3>3, NewZoneTaken
  <2>6. Given
    BY <2>4, <2>5
  <2> QED
    BY <2>6 DEF k, o
<1> QED
  BY <1>2, <1>3, <1>4

(* The words of the pages of a zone are those of the zone.                 *)
LEMMA PageInZone ==
  ASSUME NEW z \in ZoneSet, NEW a \in Addresses, PageNumber(a) \in PagesOf(z)
  PROVE  a \in Start(z) .. End(z) - 1
<1> DEFINE c == PageCount(z.size)
<1>1. /\ z.page \in Nat /\ c \in Nat \ {0} /\ RoomOf(z.size) = PAGE_SIZE * c
  BY SizeFacts DEF ZoneSet, PageNumbers
<1>2. PICK n \in PageNumbers : \E r \in 0 .. PAGE_SIZE - 1 :
        a = High + PAGE_SIZE * n + r /\ PageNumber(a) = n
  BY WordOfPage
<1>3. PICK r \in 0 .. PAGE_SIZE - 1 : a = High + PAGE_SIZE * n + r /\ PageNumber(a) = n
  BY <1>2
<1>4. n \in Nat /\ n >= z.page /\ n <= z.page + c - 1
  BY <1>3 DEF PageNumbers, PagesOf
<1>5. Start(z) = High + PAGE_SIZE * z.page /\ End(z) = High + PAGE_SIZE * z.page + PAGE_SIZE * c
  BY <1>1 DEF Start, End
<1> HIDE DEF c
<1>6. \A p, m, q \in Nat : m <= q => p * m <= p * q
  <2>1. \A p, q \in Nat : p * q >= 0
    OBVIOUS
  <2>2. \A p, m, q \in Nat : m <= q => p * (q - m) >= 0
    BY <2>1
  <2> QED
    BY <2>2
<1>7. /\ PAGE_SIZE * z.page <= PAGE_SIZE * n
      /\ PAGE_SIZE * n + PAGE_SIZE <= PAGE_SIZE * z.page + PAGE_SIZE * c
  <2>1. PAGE_SIZE * (n + 1) <= PAGE_SIZE * (z.page + c)
    <3>1. n + 1 \in Nat /\ z.page + c \in Nat /\ n + 1 <= z.page + c
      BY <1>1, <1>4
    <3> QED
      BY <3>1, <1>6, Constants
  <2>2. /\ PAGE_SIZE * (n + 1) = PAGE_SIZE * n + PAGE_SIZE
        /\ PAGE_SIZE * (z.page + c) = PAGE_SIZE * z.page + PAGE_SIZE * c
    BY <1>1, <1>4, Constants
  <2> QED
    BY <1>1, <1>4, <1>6, <2>1, <2>2, Constants
<1>8. /\ PAGE_SIZE * z.page \in Nat /\ PAGE_SIZE * n \in Nat /\ PAGE_SIZE * c \in Nat
  BY <1>1, <1>4, Constants
<1> QED
  BY <1>3, <1>5, <1>7, <1>8, Constants

(* A large object goes with its zone (alloc.c:246-252).                    *)
LEMMA LargeFreed ==
  ASSUME HighDivides, NEW h, NEW L, NEW T, NEW F, NEW Z, HeapInv(h, L, T, F, Z),
         NEW o \in L, ~Small(o.size), toHeader(h, toObject(o.at)) # NULL,
         NEW k, k = pre_free(h, toObject(o.at))
  PROVE  \E z \in Z : HeapInv(k, L \ {o}, T, F, Z \ {z}) /\ Kept(h, k, L \ {o})
<1> DEFINE O == L \cup T \cup F
           h2 == pre_free(h, toObject(o.at))
<1>1. ZonesMade(h, Z) /\ Placed(O, Z) /\ Apart(L, T, F) /\ h \in Heaps /\ Links(h, F)
      /\ Rest(h, O, Z)
  BY DEF HeapInv, ZonesMade
<1>2. \A q \in O : /\ Chunk(q) \subseteq Addresses /\ q.at \in Chunk(q)
                   /\ Object(q) \subseteq Chunk(q)
                   /\ q.at + 1 \in Chunk(q) /\ q.at + 2 \in Chunk(q)
                   /\ q.at \in Nat /\ q.size \in Nat
  BY <1>1, ChunkInZone DEF Placed
<1>3. PICK z \in Z : InZone(o, z)
  BY <1>1 DEF Placed
<1>4. /\ o.size = z.size /\ z.size \in Sizes /\ o.at = Start(z) /\ z \in ZoneSet
      /\ Start(z) \in Nat /\ End(z) \in Nat /\ End(z) = Start(z) + RoomOf(z.size)
      /\ RoomOf(z.size) \in Nat
      /\ PagesOf(z) \subseteq PageNumbers /\ z.page \in PageNumbers /\ z.page \in Nat
  <2>1. o.size = z.size /\ \E i \in Nat : o.at = Start(z) + total_size(z.size) * i /\ i = 0
    BY <1>3 DEF InZone, Kin, SmallSizes
  <2>2. z.size \in Sizes /\ Start(z) \in Nat /\ End(z) \in Nat /\ total_size(z.size) \in Nat
        /\ RoomOf(z.size) \in Nat /\ End(z) = Start(z) + RoomOf(z.size)
        /\ z.page \in PageNumbers /\ z.page \in Nat
    BY <1>1, ZoneTypes, SizeFacts
  <2>3. o.at = Start(z)
    BY <2>1, <2>2
  <2> QED
    BY <1>1, <2>1, <2>2, <2>3 DEF ZonesMade
<1>5. toHeader(h, toObject(o.at)) = o.at /\ Word(h, o.at) = o.size
  <2>1. toObject(o.at) \in Chunk(o) \ {o.at}
    BY <1>2 DEF toObject
  <2> QED
    BY <1>1, <1>2, <1>3, <2>1, HeaderFound DEF Word, HeapInv, Contents
<1>6. align(total_size(o.size), PAGE_SIZE) = RoomOf(z.size)
  <2>1. total_size(o.size) \in Nat /\ total_size(o.size) * 1 = total_size(o.size)
    BY <1>4, SizeFacts
  <2> QED
    BY <1>4, <2>1 DEF RoomOf
<1>7. h2 = Unmap(h, Start(z), RoomOf(z.size))
  BY <1>4, <1>5, <1>6 DEF pre_free
<1>8. /\ hash_zone(h, Start(z), RoomOf(z.size), 0, 0) = Rehash(h, z, 0, 0)
      /\ PagesAt(z.page, RoomOf(z.size)) = PagesOf(z)
      /\ PageNumber(Start(z)) = z.page
  BY <1>4, Hashed
<1>9. z.page \in PagesOf(z)
  BY <1>4, SizeFacts DEF PagesOf
<1> DEFINE d == [i \in PageNumbers |-> IF i \in PagesOf(z) THEN 0 ELSE h.desc[i]]
           m == [a \in Addresses |-> IF a \in Start(z) .. End(z) - 1 THEN 0 ELSE h.ram[a]]
<1>10. h2 = [h EXCEPT !.desc = d, !.mapped = @ \ PagesOf(z), !.ram = m]
  <2>1. Rehash(h, z, 0, 0) = [h EXCEPT !.desc = d]
    <3>1. ASSUME NEW i \in PageNumbers
          PROVE  (IF i = z.page THEN 0 ELSE IF i \in PagesOf(z) THEN (i - z.page) * 0 ELSE h.desc[i])
                   = d[i]
      <4>1. (i - z.page) * 0 = 0
        BY <1>4 DEF PageNumbers
      <4> QED
        BY <1>9, <4>1
    <3> QED
      BY <3>1 DEF Rehash
  <2>2. Start(z) + RoomOf(z.size) - 1 = End(z) - 1
    BY <1>4
  <2>3. h2 = [Rehash(h, z, 0, 0) EXCEPT !.mapped = @ \ PagesOf(z),
                !.ram = [a \in Addresses |-> IF a \in Start(z) .. End(z) - 1 THEN 0 ELSE @[a]]]
    BY <1>7, <1>8, <2>2 DEF Unmap
  <2> HIDE DEF h2, d
  <2> QED
    BY <1>1, <2>1, <2>3 DEF Heaps
<1> HIDE DEF h2
<1>11. /\ d \in [PageNumbers -> Int] /\ m \in [Addresses -> Int]
       /\ \A i \in PageNumbers : d[i] = IF i \in PagesOf(z) THEN 0 ELSE h.desc[i]
       /\ \A a \in Addresses : m[a] = IF a \in Start(z) .. End(z) - 1 THEN 0 ELSE h.ram[a]
  BY <1>1 DEF Heaps
<1> HIDE DEF d, m
<1>12. /\ h2.desc = d /\ h2.ram = m /\ h2.mapped = h.mapped \ PagesOf(z)
       /\ h2.first = h.first /\ h2.current_zone = h.current_zone /\ h2.end_zone = h.end_zone
       /\ h2 \in Heaps
  BY <1>1, <1>10, <1>11 DEF Heaps
<1>13. \A y \in Z \ {z} : PagesOf(y) \cap PagesOf(z) = {}
  BY <1>1 DEF ZonesMade
<1>14. ZonesMade(h2, Z \ {z})
  <2>1. h2.mapped = UNION {PagesOf(y) : y \in Z \ {z}}
    BY <1>1, <1>12, <1>13 DEF ZonesMade
  <2>2. ASSUME NEW y \in Z \ {z}, NEW i \in PagesOf(y)
        PROVE  h2.desc[i] = IF i = y.page THEN total_size(y.size) ELSE y.page - i
    <3>1. i \in PageNumbers /\ i \notin PagesOf(z)
      BY <1>1, <1>13, <2>2 DEF ZonesMade
    <3> QED
      BY <1>1, <1>11, <1>12, <3>1 DEF ZonesMade
  <2>3. \A i \in PageNumbers \ h2.mapped : h2.desc[i] = 0
    BY <1>1, <1>11, <1>12 DEF ZonesMade
  <2> QED
    BY <1>1, <1>12, <2>1, <2>2, <2>3 DEF ZonesMade
<1>15. ASSUME NEW q \in O, q # o
       PROVE  /\ \E y \in Z \ {z} : InZone(q, y)
              /\ \A a \in Chunk(q) : h2.ram[a] = h.ram[a]
  <2>1. PICK y \in Z : InZone(q, y)
    BY <1>1 DEF Placed
  <2>2. y # z
    <3> SUFFICES ASSUME InZone(q, z) PROVE FALSE
      BY <2>1
    <3>1. ~Small(z.size) /\ total_size(z.size) \in Nat
      BY <1>4, SizeFacts
    <3>2. q.at = Start(z)
      <4>1. \E i \in Nat : q.at = Start(z) + total_size(z.size) * i /\ i = 0
        BY <3>1 DEF InZone
      <4> QED
        BY <1>4, <3>1, <4>1
    <3> QED
      BY <1>1, <1>4, <1>15, <3>2 DEF Placed
  <2>3. Chunk(q) \subseteq Start(y) .. End(y) - 1 /\ Chunk(q) \subseteq Addresses
    BY <1>1, <2>1, ChunkInZone
  <2>4. (Start(y) .. End(y) - 1) \cap (Start(z) .. End(z) - 1) = {}
    BY <1>1, <2>2, ZonesApart
  <2> QED
    BY <1>11, <1>12, <2>1, <2>2, <2>3, <2>4
<1>16. (L \ {o}) \cup T \cup F = O \ {o} /\ o \notin T /\ o \notin F
  BY <1>1 DEF Apart
<1>17. Placed(O \ {o}, Z \ {z}) /\ Apart(L \ {o}, T, F)
  BY <1>1, <1>15 DEF Placed, Apart
<1>18. Rest(h2, O \ {o}, Z \ {z})
  <2> SUFFICES ASSUME NEW u \in Classes
               PROVE  \/ h2.current_zone[u] = NULL /\ h2.end_zone[u] = NULL
                      \/ \E x \in Z \ {z} : /\ x.size \in SmallSizes /\ Class(x.size) = u
                                            /\ Open(h2, O \ {o}, x)
    BY DEF Rest
  <2>1. CASE h.current_zone[u] = NULL /\ h.end_zone[u] = NULL
    BY <1>12, <2>1
  <2>2. CASE \E x \in Z : x.size \in SmallSizes /\ Class(x.size) = u /\ Open(h, O, x)
    <3>1. PICK x \in Z : x.size \in SmallSizes /\ Class(x.size) = u /\ Open(h, O, x)
      BY <2>2
    <3>2. x # z
      BY <1>4, <3>1 DEF SmallSizes
    <3>3. /\ h.current_zone[u] .. End(x) - 1 \subseteq Start(x) .. End(x) - 1
          /\ Start(x) .. End(x) - 1 \subseteq Addresses
      BY <1>1, <3>1, RestInZone, ZoneTypes
    <3>4. (Start(x) .. End(x) - 1) \cap (Start(z) .. End(z) - 1) = {}
      BY <1>1, <3>2, ZonesApart
    <3>5. \A a \in h.current_zone[u] .. End(x) - 1 : h2.ram[a] = h.ram[a]
      BY <1>11, <1>12, <3>3, <3>4
    <3>6. Open(h2, O \ {o}, x)
      BY <1>12, <3>1, <3>5 DEF Open
    <3> QED
      BY <3>1, <3>2, <3>6
  <2> QED
    BY <1>1, <2>1, <2>2 DEF Rest
<1>19. \A q \in F : h2.ram[q.at] = h.ram[q.at] /\ Chain(h2, q.at) = Chain(h, q.at)
  BY <1>2, <1>15, <1>16 DEF Chain, Word
<1>20. Links(h2, F)
  BY <1>1, <1>12, <1>19 DEF Links
<1>21. Contents(h2, L \ {o}, T, F)
  <2>1. ASSUME NEW a \in Addresses, PageNumber(a) \notin h2.mapped PROVE h2.ram[a] = 0
    <3>1. CASE PageNumber(a) \in PagesOf(z)
      BY <1>4, <1>11, <1>12, <3>1, PageInZone
    <3>2. CASE PageNumber(a) \notin PagesOf(z)
      BY <1>11, <1>12, <2>1, <3>2 DEF HeapInv, Contents
    <3> QED
      BY <3>1, <3>2
  <2>2. \A q \in L \ {o} : h2.ram[q.at] = q.size
    BY <1>2, <1>15 DEF HeapInv, Contents
  <2>3. \A q \in T : \A a \in Object(q) : h2.ram[a] = 0
    BY <1>2, <1>15, <1>16 DEF HeapInv, Contents
  <2>4. \A q \in F : h2.ram[q.at] = 0
    BY <1>19 DEF HeapInv, Contents
  <2> QED
    BY <2>1, <2>2, <2>3, <2>4 DEF Contents
<1>22. HeapInv(h2, L \ {o}, T, F, Z \ {z})
  BY <1>14, <1>16, <1>17, <1>18, <1>20, <1>21 DEF HeapInv
<1>23. \A q \in L \ {o} : \A a \in Chunk(q) : h2.ram[a] = h.ram[a]
  BY <1>15
<1> QED
  BY <1>22, <1>23 DEF h2, Kept
-------------------------------------------------------------------------------
(* What a thread carries between the unlock and its return.                *)
Carried ==
  /\ req \in [Threads -> Sizes \cup {0}] /\ res \in [Threads -> Addresses \cup {NULL}]
  /\ \A t \in Threads : pc[t] \in Inside <=> res[t] # NULL
  /\ \A t \in Threads : res[t] # NULL => req[t] \in Sizes
  /\ \A t, u \in Threads : t # u /\ res[t] # NULL => res[t] # res[u]

(* The heap is whole, with some freed objects and some zones.              *)
HeapWhole == \E F, Z : HeapInv(heap, live, Taken, F, Z)

GcInv == ThreadsInv /\ Carried /\ nb_free \in 0 .. MaxFree /\ HeapWhole

(* pre_free of any object in use (alloc.c:232-253).                        *)
LEMMA Freeing ==
  ASSUME HighDivides, SizesServed, NEW h, NEW L, NEW T, NEW F, NEW Z, HeapInv(h, L, T, F, Z),
         NEW o \in L, toHeader(h, toObject(o.at)) # NULL, NEW h2, h2 = pre_free(h, toObject(o.at))
  PROVE  /\ \E F2, Z2 : HeapInv(h2, L \ {o}, T, F2, Z2)
         /\ Kept(h, h2, L \ {o})
<1>1. CASE Small(o.size)
  BY <1>1, SmallFreed
<1>2. CASE ~Small(o.size)
  BY <1>2, LargeFreed
<1> QED
  BY <1>1, <1>2

(* What the objects of the threads are, when one of them changes.          *)
LEMMA TakenMembers ==
  \A o : o \in Taken <=> \E t \in Threads : res[t] # NULL /\ o = Cell(res[t], req[t])
BY DEF Taken, Cell

(* An empty heap and no object.                                            *)
LEMMA InitHeap == Init => GcInv
<1> SUFFICES ASSUME Init PROVE GcInv
  OBVIOUS
<1>1. ThreadsInv
  BY InitThreads
<1>2. Carried
  BY DEF Init, Carried, Inside, NULL
<1>3. Taken = {} /\ live = {} /\ heap = EmptyHeap
  BY DEF Init, Taken
<1>4. HeapInv(EmptyHeap, {}, {}, {}, {})
  <2>1. EmptyHeap \in Heaps
    BY DEF EmptyHeap, Heaps, NULL
  <2>2. ZonesMade(EmptyHeap, {})
    BY <2>1 DEF ZonesMade, EmptyHeap
  <2>3. Rest(EmptyHeap, {}, {}) /\ Links(EmptyHeap, {}) /\ Contents(EmptyHeap, {}, {}, {})
    BY DEF Rest, Links, Contents, EmptyHeap
  <2> QED
    BY <2>2, <2>3 DEF HeapInv, Placed, Apart
<1>5. HeapWhole
  BY <1>3, <1>4 DEF HeapWhole
<1> QED
  BY <1>1, <1>2, <1>5, GcAssumption DEF GcInv, Init


(* What no step but a store of the program does.                           *)
ObjectsKept ==
  \A o \in live \cap live' : \A p \in Object(o) :
    heap'.ram[p] = heap.ram[p] \/ \E t \in Threads : DoWriteRef(t)

(* The words of an object are those of its element.                        *)
LEMMA ObjectInChunk ==
  ASSUME NEW h, NEW L, NEW T, NEW F, NEW Z, HeapInv(h, L, T, F, Z), NEW o \in L \cup T \cup F
  PROVE  Object(o) \subseteq Chunk(o)
<1>1. ZonesMade(h, Z) /\ \E z \in Z : InZone(o, z)
  BY DEF HeapInv, Placed
<1> QED
  BY <1>1, ChunkInZone

(* What keeps the words of the elements of the objects keeps the objects.  *)
LEMMA KeptObjects ==
  ASSUME HeapWhole, Kept(heap, heap', live \cap live')
  PROVE  ObjectsKept
<1>1. PICK F, Z : HeapInv(heap, live, Taken, F, Z)
  BY DEF HeapWhole
<1>2. \A o \in live : Object(o) \subseteq Chunk(o)
  BY <1>1, ObjectInChunk
<1> QED
  BY <1>2 DEF Kept, ObjectsKept

(* An allocation: the thread holds an object that nobody else has.         *)
LEMMA AllocateHeap ==
  ASSUME SizesServed, GcInv, NEW t \in Threads, Allocate(t)
  PROVE  Carried' /\ HeapWhole' /\ ObjectsKept
<1>1. PICK s \in Sizes : /\ Fits(heap, s) /\ heap' = Take(heap, s).h
                         /\ req' = [req EXCEPT ![t] = s]
                         /\ res' = [res EXCEPT ![t] = Take(heap, s).res]
  BY DEF Allocate
<1>2. pc[t] = "mutator" /\ pc' = [pc EXCEPT ![t] = "unlocked"] /\ live' = live
  BY DEF Allocate, Goto
<1>3. PICK F, Z : HeapInv(heap, live, Taken, F, Z)
  BY DEF GcInv, HeapWhole
<1> DEFINE k == Take(heap, s)
           o == Cell(k.res, s)
<1>4. Gives(heap, live, Taken, s, k)
  BY <1>1, <1>3, TakeTaken
<1>5. heap' = k.h /\ req' = [req EXCEPT ![t] = s] /\ res' = [res EXCEPT ![t] = k.res]
  BY <1>1
<1> HIDE DEF k
<1>6. /\ k.res \in Addresses /\ o \notin live \cup Taken
      /\ \E F2, Z2 : HeapInv(k.h, live, Taken \cup {o}, F2, Z2)
      /\ Kept(heap, k.h, live \cup Taken)
  BY <1>4 DEF Gives
<1>7. k.res # NULL /\ o.at = k.res /\ o.size = s
  BY <1>6, Constants DEF Addresses, NULL, Cell
<1> HIDE DEF o
<1>8. res[t] = NULL /\ pc \in [Threads -> {"new", "mutator", "gone"} \cup Inside]
  BY <1>2 DEF GcInv, Carried, Inside, ThreadsInv, PcTyped
<1>9. Taken' = Taken \cup {o}
  <2>1. /\ \A u \in Threads : u # t => res'[u] = res[u] /\ req'[u] = req[u]
        /\ res'[t] = k.res /\ req'[t] = s
    BY <1>5 DEF GcInv, Carried
  <2>2. ASSUME NEW x PROVE x \in Taken' <=> x \in Taken \cup {o}
    <3>1. x \in Taken <=> \E u \in Threads : res[u] # NULL /\ x = Cell(res[u], req[u])
      BY TakenMembers
    <3>2. x \in Taken' <=> \E u \in Threads : res'[u] # NULL /\ x = Cell(res'[u], req'[u])
      BY DEF Taken, Cell
    <3>3. x = o <=> x = Cell(res'[t], req'[t])
      BY <2>1 DEF o
    <3> QED
      BY <1>7, <1>8, <2>1, <3>1, <3>2, <3>3
  <2> QED
    BY <2>2
<1>10. HeapWhole'
  BY <1>2, <1>5, <1>6, <1>9 DEF HeapWhole
<1>11. ASSUME NEW u \in Threads, u # t, res[u] # NULL PROVE res[u] # k.res
  <2>1. PICK F2, Z2 : HeapInv(k.h, live, Taken \cup {o}, F2, Z2)
    BY <1>6
  <2>2. \A x, q \in Taken \cup {o} : x.at = q.at => x = q
    BY <2>1 DEF HeapInv, Placed
  <2>3. Cell(res[u], req[u]) \in Taken /\ Cell(res[u], req[u]).at = res[u]
    BY <1>11 DEF Taken, Cell
  <2> QED
    BY <1>6, <1>7, <2>2, <2>3
<1>12. Carried'
  <2>1. /\ req' \in [Threads -> Sizes \cup {0}] /\ res' \in [Threads -> Addresses \cup {NULL}]
    BY <1>1, <1>5, <1>6 DEF GcInv, Carried
  <2>2. \A u \in Threads : pc'[u] \in Inside <=> res'[u] # NULL
    BY <1>2, <1>5, <1>7, <1>8 DEF GcInv, Carried, Inside
  <2>3. \A u \in Threads : res'[u] # NULL => req'[u] \in Sizes
    BY <1>1, <1>5 DEF GcInv, Carried
  <2>4. \A u, v \in Threads : u # v /\ res'[u] # NULL => res'[u] # res'[v]
    BY <1>5, <1>7, <1>8, <1>11 DEF GcInv, Carried
  <2> QED
    BY <2>1, <2>2, <2>3, <2>4 DEF Carried
<1>13. ObjectsKept
  <2>1. HeapWhole /\ Kept(heap, heap', live \cap live')
    BY <1>5, <1>6 DEF GcInv, Kept
  <2> QED
    BY <2>1, KeptObjects
<1> QED
  BY <1>10, <1>12, <1>13

(* A return: the object carried is in use.                                 *)
LEMMA ReturnHeap ==
  ASSUME GcInv, NEW t \in Threads, Return(t)
  PROVE  Carried' /\ HeapWhole' /\ ObjectsKept
<1> DEFINE o == Cell(res[t], req[t])
<1>1. /\ pc[t] = "counted" /\ pc' = [pc EXCEPT ![t] = "mutator"]
      /\ req' = [req EXCEPT ![t] = 0] /\ res' = [res EXCEPT ![t] = NULL]
      /\ live' = live \cup {o}
      /\ heap' = Stored(heap, res[t], req[t])
  BY DEF Return, Goto, Cell, Stored
<1>2. res[t] # NULL /\ pc \in [Threads -> {"new", "mutator", "gone"} \cup Inside]
  BY <1>1 DEF GcInv, Carried, Inside, ThreadsInv, PcTyped
<1>3. o.at = res[t] /\ o.size = req[t] /\ o \in Taken
  BY <1>2 DEF Taken, Cell
<1>4. \A x : x \in Taken <=> \E u \in Threads : res[u] # NULL /\ x = Cell(res[u], req[u])
  BY TakenMembers
<1>5. Taken' = Taken \ {o}
  <2>1. /\ \A u \in Threads : u # t => res'[u] = res[u] /\ req'[u] = req[u]
        /\ res'[t] = NULL
    BY <1>1 DEF GcInv, Carried
  <2>2. \A u \in Threads : u # t /\ res[u] # NULL => Cell(res[u], req[u]) # o
    BY <1>3 DEF GcInv, Carried, Cell
  <2>3. ASSUME NEW x PROVE x \in Taken' <=> x \in Taken \ {o}
    <3>1. x \in Taken' <=> \E u \in Threads : res'[u] # NULL /\ x = Cell(res'[u], req'[u])
      BY DEF Taken, Cell
    <3> QED
      BY <1>4, <2>1, <2>2, <3>1
  <2> QED
    BY <2>3
<1>6. PICK F, Z : HeapInv(heap, live, Taken, F, Z)
  BY DEF GcInv, HeapWhole
<1> HIDE DEF o
<1>7. heap' = Stored(heap, o.at, o.size)
  BY <1>1, <1>3
<1>8. HeapInv(heap', live \cup {o}, Taken \ {o}, F, Z) /\ Kept(heap, heap', live)
  BY <1>3, <1>6, <1>7, HeaderWritten
<1>9. HeapWhole'
  BY <1>1, <1>5, <1>8 DEF HeapWhole
<1>10. Carried'
  BY <1>1, <1>2 DEF GcInv, Carried, Inside
<1>11. ObjectsKept
  <2>1. HeapWhole /\ Kept(heap, heap', live \cap live')
    BY <1>8 DEF GcInv, Kept
  <2> QED
    BY <2>1, KeptObjects
<1> QED
  BY <1>9, <1>10, <1>11

(* The field of an object is made of words of it.                          *)
LEMMA FieldInObject ==
  ASSUME NEW L, NEW T, NEW F, NEW Z, HeapInv(heap, L, T, F, Z), NEW o \in L, o.size >= 8
  PROVE  Field(o) \in Object(o) /\ Field(o) + 1 \in Object(o)
<1>1. ZonesMade(heap, Z) /\ \E z \in Z : InZone(o, z)
  BY DEF HeapInv, Placed
<1>2. o.at \in Nat /\ o.size \in Nat
  BY <1>1, ChunkInZone
<1>3. o.size \div 4 >= 2 /\ o.size \div 4 <= Words(o.size) /\ o.size \div 4 \in Nat
      /\ Words(o.size) \in Nat
  BY <1>2 DEF Words
<1> QED
  BY <1>2, <1>3 DEF Field, Object

(* A pointer written by the program, or the end by the assertion.          *)
LEMMA WriteHeap ==
  ASSUME GcInv, NEW t \in Threads, DoWriteRef(t)
  PROVE  Carried' /\ HeapWhole' /\ ObjectsKept
<1>1. /\ UNCHANGED <<pc, req, res, live>>
      /\ \/ heap' = heap
         \/ \E o \in Fielded : heap' = Stored(Stored(heap, Field(o), 1), Field(o) + 1, 1)
  BY DEF DoWriteRef, Stored
<1>2. Taken' = Taken /\ Carried'
  BY <1>1 DEF Taken, GcInv, Carried
<1>3. PICK F, Z : HeapInv(heap, live, Taken, F, Z)
  BY DEF GcInv, HeapWhole
<1>4. HeapInv(heap', live, Taken, F, Z)
  <2>1. ASSUME NEW o \in Fielded,
               heap' = Stored(Stored(heap, Field(o), 1), Field(o) + 1, 1)
        PROVE  HeapInv(heap', live, Taken, F, Z)
    <3>1. o \in live /\ Field(o) \in Object(o) /\ Field(o) + 1 \in Object(o)
      BY <1>3, FieldInObject DEF Fielded
    <3> DEFINE h == Stored(heap, Field(o), 1)
    <3>2. HeapInv(h, live, Taken, F, Z)
      BY <1>3, <3>1, ReferenceWritten
    <3> HIDE DEF h
    <3>3. heap' = Stored(h, Field(o) + 1, 1)
      BY <2>1 DEF h
    <3> QED
      BY <3>1, <3>2, <3>3, ReferenceWritten
  <2> QED
    BY <1>1, <1>3, <2>1
<1> QED
  BY <1>1, <1>2, <1>4 DEF HeapWhole, ObjectsKept

(* An object the collector frees.                                          *)
LEMMA FreeHeap ==
  ASSUME HighDivides, SizesServed, GcInv, Free
  PROVE  Carried' /\ HeapWhole' /\ ObjectsKept
<1>1. PICK o \in live : /\ toHeader(heap, toObject(o.at)) # NULL
                        /\ heap' = pre_free(heap, toObject(o.at)) /\ live' = live \ {o}
  BY DEF Free
<1>2. UNCHANGED <<pc, req, res>>
  BY DEF Free
<1>3. Taken' = Taken /\ Carried'
  BY <1>2 DEF Taken, GcInv, Carried
<1>4. PICK F, Z : HeapInv(heap, live, Taken, F, Z)
  BY DEF GcInv, HeapWhole
<1>5. /\ \E F2, Z2 : HeapInv(heap', live \ {o}, Taken, F2, Z2)
      /\ Kept(heap, heap', live \ {o})
  BY <1>1, <1>4, Freeing
<1>6. HeapWhole'
  BY <1>1, <1>3, <1>5 DEF HeapWhole
<1>7. ObjectsKept
  <2>1. HeapWhole /\ Kept(heap, heap', live \cap live')
    BY <1>1, <1>5 DEF GcInv, Kept
  <2> QED
    BY <2>1, KeptObjects
<1> QED
  BY <1>3, <1>6, <1>7

(* Every step keeps the heap whole and the objects in use as they were.    *)
LEMMA NextHeap ==
  ASSUME HighDivides, SizesServed, GcInv, ThreadsInv', [Next]_vars
  PROVE  GcInv' /\ ObjectsKept
<1>1. nb_free' \in 0 .. MaxFree
  <2>1. ASSUME NEW t \in Threads, Step(t) PROVE nb_free' = nb_free
    BY <2>1 DEF Step, Attach, Detach, Allocate, LoadStatistics, StoreStatistics, Return,
       DoWriteRef
  <2>2. Free => nb_free < MaxFree /\ nb_free' = nb_free + 1
    BY DEF Free
  <2>3. UNCHANGED vars => nb_free' = nb_free
    BY DEF vars
  <2> QED
    BY <2>1, <2>2, <2>3, GcAssumption DEF GcInv, Next
<1>2. ASSUME UNCHANGED <<heap, req, res, live>>,
             \A t \in Threads : pc'[t] \in Inside <=> pc[t] \in Inside
      PROVE  Carried' /\ HeapWhole' /\ ObjectsKept
  <2>1. Taken' = Taken
    BY <1>2 DEF Taken
  <2>2. Carried'
    BY <1>2 DEF GcInv, Carried
  <2>3. HeapWhole'
    BY <1>2, <2>1 DEF GcInv, HeapWhole
  <2>4. ObjectsKept
    BY <1>2 DEF ObjectsKept
  <2> QED
    BY <2>2, <2>3, <2>4
<1>3. pc \in [Threads -> {"new", "mutator", "gone"} \cup Inside]
  BY DEF GcInv, ThreadsInv, PcTyped
<1>4. ASSUME NEW t \in Threads, Step(t) PROVE Carried' /\ HeapWhole' /\ ObjectsKept
  <2>1. CASE Attach(t) \/ Detach(t) \/ LoadStatistics(t) \/ StoreStatistics(t)
    <3>1. UNCHANGED <<heap, req, res, live>>
      BY <2>1 DEF Attach, Detach, LoadStatistics, StoreStatistics
    <3>2. \/ pc[t] = "new" /\ pc' = [pc EXCEPT ![t] = "mutator"]
          \/ pc[t] = "mutator" /\ pc' = [pc EXCEPT ![t] = "gone"]
          \/ pc[t] = "unlocked" /\ pc' = [pc EXCEPT ![t] = "loaded"]
          \/ pc[t] = "loaded" /\ pc' = [pc EXCEPT ![t] = "counted"]
      BY <2>1 DEF Attach, Detach, LoadStatistics, StoreStatistics, Goto
    <3>3. \A u \in Threads : pc'[u] \in Inside <=> pc[u] \in Inside
      BY <1>3, <3>2 DEF Inside
    <3> QED
      BY <1>2, <3>1, <3>3
  <2> QED
    BY <1>4, <2>1, AllocateHeap, ReturnHeap, WriteHeap DEF Step
<1>5. ASSUME UNCHANGED vars PROVE Carried' /\ HeapWhole' /\ ObjectsKept
  <2>1. UNCHANGED <<heap, req, res, live, pc>>
    BY <1>5 DEF vars
  <2> QED
    BY <1>2, <2>1
<1>6. Carried' /\ HeapWhole' /\ ObjectsKept
  BY <1>4, <1>5, FreeHeap DEF Next
<1> QED
  BY <1>1, <1>6 DEF GcInv


(* With the high half divided by the elements, and sizes that the classes  *)
(* serve, the heap stays whole.                                            *)
LEMMA HeapInvariance == ASSUME HighDivides, SizesServed PROVE Spec => []GcInv
<1>1. GcInv /\ [Next]_vars => GcInv'
  <2> SUFFICES ASSUME GcInv, [Next]_vars PROVE GcInv'
    OBVIOUS
  <2>1. ThreadsInv'
    BY NextThreads DEF GcInv
  <2> QED
    BY <2>1, NextHeap
<1> QED
  BY <1>1, InitHeap, PTL DEF Spec

(* The list of a class, followed from its head, holds freed objects.       *)
LEMMA FreeListed ==
  ASSUME NEW L, NEW T, NEW F, NEW Z, HeapInv(heap, L, T, F, Z), NEW c \in Classes
  PROVE  FreeList(c) \subseteq F
<1> DEFINE s == SizeOf(c)
           D == {a \in Addresses : Cell(a, s) \in F} \cup {NULL}
           link == [a \in D |-> IF a = NULL THEN NULL ELSE Chain(heap, a)]
           Followed(f) == f = [k \in 0 .. MaxFree |->
                              IF k = 0 THEN heap.first[c]
                              ELSE IF f[k - 1] = NULL THEN NULL ELSE Chain(heap, f[k - 1])]
           f0 == CHOOSE f : Followed(f)
<1>1. ZonesMade(heap, Z) /\ Placed(L \cup T \cup F, Z) /\ Links(heap, F) /\ MaxFree \in Nat
  BY GcAssumption DEF HeapInv
<1>2. ASSUME NEW a, Cell(a, s) \in F PROVE a \in Addresses
  <2>1. PICK z \in Z : InZone(Cell(a, s), z)
    BY <1>1, <1>2 DEF Placed
  <2>2. Cell(a, s).at = a
    BY DEF Cell
  <2> QED
    BY <2>1, <2>2 DEF InZone
<1>3. heap.first[c] \in D
  BY <1>1, <1>2 DEF Links, Cell
<1>4. \A a \in D : a # NULL => Chain(heap, a) \in D
  <2> SUFFICES ASSUME NEW a \in D, a # NULL PROVE Chain(heap, a) \in D
    OBVIOUS
  <2>1. Cell(a, s) \in F /\ Cell(a, s).at = a /\ Cell(a, s).size = s
    BY DEF Cell
  <2>2. Chain(heap, a) # NULL => Cell(Chain(heap, a), s) \in F
    BY <1>1, <2>1 DEF Links, Cell
  <2> QED
    BY <1>2, <2>2
<1>5. link \in [D -> D] /\ \A a \in D : link[a] = IF a = NULL THEN NULL ELSE Chain(heap, a)
  <2> HIDE DEF D
  <2>1. NULL \in D
    BY DEF D
  <2> QED
    BY <1>4, <2>1
<1> HIDE DEF link
<1>6. PICK g \in [0 .. MaxFree -> D] : Follows(g, MaxFree, heap.first[c], link)
  <2> HIDE DEF D
  <2> QED
    BY <1>1, <1>3, <1>5, FollowsExists
<1> HIDE DEF D
<1>7. Followed(g)
  <2>1. \A k \in 0 .. MaxFree : g[k] = IF k = 0 THEN heap.first[c] ELSE link[g[k - 1]]
    BY <1>6 DEF Follows
  <2>2. \A k \in 0 .. MaxFree : k # 0 => k - 1 \in 0 .. MaxFree
    BY <1>1
  <2>3. \A k \in 0 .. MaxFree : g[k] = IF k = 0 THEN heap.first[c]
           ELSE IF g[k - 1] = NULL THEN NULL ELSE Chain(heap, g[k - 1])
    BY <1>5, <1>6, <2>1, <2>2
  <2> QED
    BY <2>3
<1>8. Followed(f0)
  BY <1>7
<1>9. FreeList(c) = {Cell(f0[k], s) : k \in {k \in 0 .. MaxFree : f0[k] # NULL}}
  BY DEF FreeList, Cell
<1> HIDE DEF f0
<1>10. \A k \in 0 .. MaxFree :
         f0[k] = IF k = 0 THEN heap.first[c]
                 ELSE IF f0[k - 1] = NULL THEN NULL ELSE Chain(heap, f0[k - 1])
  BY <1>8
<1> HIDE DEF Followed
<1>11. \A k \in 0 .. MaxFree : f0[k] \in D
  <2> DEFINE S == {k \in 0 .. MaxFree : f0[k] \notin D}
  <2>1. S = {}
    <3> SUFFICES ASSUME S # {} PROVE FALSE
      OBVIOUS
    <3>1. PICK p \in S : \A q \in S : p <= q
      <4>1. S \in SUBSET Nat
        BY <1>1
      <4> HIDE DEF S
      <4> QED
        BY <4>1, Lowest
    <3>2. p # 0 /\ p - 1 \in 0 .. MaxFree /\ ~(p <= p - 1)
      BY <1>1, <1>3, <1>10, <3>1
    <3>3. f0[p - 1] \in D
      BY <3>1, <3>2
    <3>4. f0[p] \in D
      <4>1. NULL \in D
        BY DEF D
      <4> QED
        BY <1>4, <1>10, <3>1, <3>2, <3>3, <4>1
    <3> QED
      BY <3>1, <3>4
  <2> QED
    BY <2>1
<1> QED
  BY <1>9, <1>11 DEF D

(* So are all the freed objects that the lists lead to.                    *)
LEMMA FreedListed ==
  ASSUME NEW L, NEW T, NEW F, NEW Z, HeapInv(heap, L, T, F, Z)
  PROVE  Freed \subseteq F
BY FreeListed DEF Freed

(* Theorem: every variable of the collector keeps its type.                *)
THEOREM TypeCorrect == ASSUME HighDivides, SizesServed PROVE Spec => []TypeOK
<1>1. GcInv => TypeOK
  <2> SUFFICES ASSUME GcInv PROVE TypeOK
    OBVIOUS
  <2>1. PICK F, Z : HeapInv(heap, live, Taken, F, Z)
    BY DEF GcInv, HeapWhole
  <2>2. heap \in Heaps
    BY <2>1 DEF HeapInv, ZonesMade
  <2>3. live \subseteq [at : Addresses, size : Sizes]
    BY <2>1 DEF HeapInv, Placed, InZone
  <2>4. list \in Lists
    BY DEF GcInv, ThreadsInv, Listed
  <2>5. Cardinality(Uncounted) \in Nat
    <3>1. Uncounted \in SUBSET Threads
      BY DEF Uncounted
    <3> HIDE DEF Uncounted
    <3>2. IsFiniteSet(Uncounted)
      BY <3>1, ThreadListAssumption, FS_Subset
    <3> QED
      BY <3>2, FS_CardinalityType
  <2>6. /\ calls \in 0 .. MaxAllocated /\ nb_allocated \in Nat /\ loaded \in [Threads -> Nat]
        /\ nb_allocated + Cardinality(Uncounted) <= calls
        /\ \A t \in Threads : loaded[t] = 0 \/ loaded[t] + Cardinality(Uncounted) <= calls
    BY DEF GcInv, ThreadsInv, Counted
  <2> DEFINE c == Cardinality(Uncounted)
  <2>7. nb_allocated \in 0 .. MaxAllocated /\ \A t \in Threads : loaded[t] \in 0 .. MaxAllocated
    <3> HIDE DEF c
    <3>1. c \in Nat /\ nb_allocated + c <= calls
          /\ \A t \in Threads : loaded[t] = 0 \/ loaded[t] + c <= calls
      BY <2>5, <2>6 DEF c
    <3> QED
      BY <2>6, <3>1, GcAssumption
  <2>8. loaded \in [Threads -> 0 .. MaxAllocated]
    BY <2>6, <2>7
  <2>9. pc \in [Threads -> {"new", "mutator", "unlocked", "loaded", "counted", "gone"}]
    BY DEF GcInv, ThreadsInv, PcTyped, Inside
  <2> QED
    BY <2>2, <2>3, <2>4, <2>7, <2>8, <2>9 DEF TypeOK, GcInv, Carried
<1> QED
  BY <1>1, HeapInvariance, PTL

(* Theorem: two objects never share a word, whether they are in use, being *)
(* returned or on a free list, and their pages are mapped (alloc.c:160-253). *)
THEOREM ObjectsAlwaysDisjoint == ASSUME HighDivides, SizesServed PROVE Spec => []ObjectsDisjoint
<1>1. GcInv => ObjectsDisjoint
  <2> SUFFICES ASSUME GcInv PROVE ObjectsDisjoint
    OBVIOUS
  <2>1. PICK F, Z : HeapInv(heap, live, Taken, F, Z)
    BY DEF GcInv, HeapWhole
  <2> DEFINE O == live \cup Taken \cup F
  <2>2. live \cup Taken \cup Freed \subseteq O /\ ZonesMade(heap, Z) /\ Placed(O, Z)
    BY <2>1, FreedListed DEF HeapInv
  <2> HIDE DEF O
  <2>3. \A o, q \in O : o # q => Chunk(o) \cap Chunk(q) = {}
    BY <2>2, ChunksApart
  <2>4. \A o \in O : \A a \in Chunk(o) : PageNumber(a) \in heap.mapped
    BY <2>2, ChunkInZone DEF Placed
  <2>5. \A t, u \in Threads : t # u /\ res[t] # NULL => res[t] # res[u]
    BY DEF GcInv, Carried
  <2> QED
    BY <2>2, <2>3, <2>4, <2>5 DEF ObjectsDisjoint
<1> QED
  BY <1>1, HeapInvariance, PTL

(* The header of an object in use is found from all its words.             *)
LEMMA HeaderOfLive ==
  ASSUME HighDivides, SizesServed, GcInv, NEW o \in live, NEW p \in Object(o)
  PROVE  toHeader(heap, p) = o.at
<1>1. PICK F, Z : HeapInv(heap, live, Taken, F, Z)
  BY DEF GcInv, HeapWhole
<1>2. PICK z \in Z : InZone(o, z)
  BY <1>1 DEF HeapInv, Placed
<1>3. ZonesMade(heap, Z) /\ heap.ram[o.at] = o.size
  BY <1>1 DEF HeapInv, Contents
<1>4. /\ o.at \in Nat /\ o.size \in Sizes /\ o.at \notin Object(o)
      /\ Object(o) \subseteq Chunk(o)
  BY <1>2, <1>3, ChunkInZone
<1>5. p - toObject(o.at) \in 0 .. Words(o.size) - 1
  <2>1. Words(o.size) \in Nat
    BY <1>4, SizeFacts
  <2> QED
    BY <1>4, <2>1 DEF Object, toObject
<1>6. p \in Chunk(o) \ {o.at}
  BY <1>4
<1> QED
  BY <1>2, <1>3, <1>5, <1>6, HeaderFound

(* Theorem: any pointer into an object in use leads to its header, in the  *)
(* first page of its zone or a later one (alloc.c:262-295).                *)
THEOREM InteriorAlwaysFound == ASSUME HighDivides, SizesServed PROVE Spec => []InteriorFound
<1>1. GcInv => InteriorFound
  BY HeaderOfLive DEF InteriorFound
<1> QED
  BY <1>1, HeapInvariance, PTL

(* Theorem: a pointer into a freed object, or to a page given back, leads  *)
(* to no header (alloc.c:232-253).                                         *)
THEOREM FreedAlwaysForgotten == ASSUME HighDivides, SizesServed PROVE Spec => []FreedForgotten
<1>1. GcInv => FreedForgotten
  <2> SUFFICES ASSUME GcInv PROVE FreedForgotten
    OBVIOUS
  <2>1. PICK F, Z : HeapInv(heap, live, Taken, F, Z)
    BY DEF GcInv, HeapWhole
  <2>2. ZonesMade(heap, Z) /\ Freed \subseteq F
    BY <2>1, FreedListed DEF HeapInv
  <2>3. ASSUME NEW o \in F, NEW p \in Chunk(o) \ {o.at} PROVE toHeader(heap, p) = NULL
    <3>1. PICK z \in Z : InZone(o, z)
      BY <2>1 DEF HeapInv, Placed
    <3>2. heap.ram[o.at] = 0
      BY <2>1 DEF HeapInv, Contents
    <3>3. Words(heap.ram[o.at]) = 0
      BY <3>2 DEF Words
    <3>4. ~(p - toObject(o.at) \in 0 .. 0 - 1)
      OBVIOUS
    <3> QED
      BY <2>2, <3>1, <3>3, <3>4, HeaderFound
  <2>4. \A a \in Addresses : PageNumber(a) \notin heap.mapped => toHeader(heap, a) = NULL
    BY <2>2, NoHeaderOutside
  <2> QED
    BY <2>2, <2>3, <2>4 DEF FreedForgotten
<1> QED
  BY <1>1, HeapInvariance, PTL

(* Theorem: what pre_malloc returns is zeroed, recycled or not             *)
(* (alloc.c:172-184, 53-66).                                               *)
THEOREM ReturnedAlwaysZeroed == ASSUME HighDivides, SizesServed PROVE Spec => []ReturnedZeroed
<1>1. GcInv => ReturnedZeroed
  <2> SUFFICES ASSUME GcInv, NEW t \in Threads, res[t] # NULL,
                      NEW a \in res[t] + 1 .. res[t] + Words(req[t])
               PROVE  heap.ram[a] = 0
    BY DEF ReturnedZeroed
  <2>1. Cell(res[t], req[t]) \in Taken /\ a \in Object(Cell(res[t], req[t]))
    BY DEF Taken, Cell, Object
  <2> QED
    BY <2>1 DEF GcInv, HeapWhole, HeapInv, Contents
<1> QED
  BY <1>1, HeapInvariance, PTL

(* Theorem: no allocation and no free changes another object.              *)
THEOREM ContentsAlwaysKept == ASSUME HighDivides, SizesServed PROVE Spec => ContentsKept
<1>1. GcInv /\ [Next]_vars => [ObjectsKept]_vars
  <2> SUFFICES ASSUME GcInv, [Next]_vars PROVE ObjectsKept
    OBVIOUS
  <2>1. ThreadsInv'
    BY NextThreads DEF GcInv
  <2> QED
    BY <2>1, NextHeap
<1> QED
  BY <1>1, HeapInvariance, PTL DEF Spec, ContentsKept, ObjectsKept

(* Theorem: the assertion of _writeBarrier holds (gc.c:71-80) of a program *)
(* that asks for no size from 0 to 4 and for none that shares its class    *)
(* with a larger element, at addresses whose high half divides by the      *)
(* elements.  An object of 0 bytes has no word a pointer could lead from.  *)
THEOREM BarrierAlwaysHolds ==
  ASSUME HighDivides, SizesServed, 0 \notin Sizes PROVE Spec => []BarrierHolds
<1>1. Init => BarrierHolds
  BY DEF Init, BarrierHolds
<1>2. GcInv /\ BarrierHolds /\ [Next]_vars => BarrierHolds'
  <2> SUFFICES ASSUME GcInv, ~failed, [Next]_vars PROVE ~failed'
    BY DEF BarrierHolds
  <2>1. ASSUME NEW t \in Threads, DoWriteRef(t) PROVE ~failed'
    <3>1. PICK o \in Fielded, target \in live :
            IF toHeader(heap, Field(o)) # NULL /\ toHeader(heap, toObject(target.at)) # NULL
              THEN UNCHANGED failed ELSE failed' = TRUE
      BY <2>1 DEF DoWriteRef
    <3>2. PICK F, Z : HeapInv(heap, live, Taken, F, Z)
      BY DEF GcInv, HeapWhole
    <3>3. \A q \in live : q.at \in Nat /\ q.at > 0 /\ q.size \in Sizes
      BY <3>2, ChunkInZone DEF HeapInv, Placed
    <3>4. o \in live /\ Field(o) \in Object(o)
      BY <3>2, FieldInObject DEF Fielded
    <3>5. toObject(target.at) \in Object(target)
      <4>1. Words(target.size) \in Nat /\ Words(target.size) >= 1
        BY <3>3, SizeFacts
      <4> QED
        BY <3>3, <4>1 DEF Object, toObject
    <3>6. toHeader(heap, Field(o)) = o.at /\ toHeader(heap, toObject(target.at)) = target.at
      BY <3>4, <3>5, HeaderOfLive
    <3> QED
      BY <3>1, <3>3, <3>4, <3>6 DEF NULL
  <2> QED
    BY <2>1 DEF Next, Step, Free, Attach, Detach, Allocate, LoadStatistics,
       StoreStatistics, Return, vars
<1> QED
  BY <1>1, <1>2, HeapInvariance, PTL DEF Spec
===============================================================================
