------------------------------- MODULE Hashmap -------------------------------
(***************************************************************************)
(* TP_GC_NMV/main.c: the hash map of the test program and its rehash, which*)
(* moves the elements with the recursion of hashmap_apply while hash       *)
(* changes their links, and the string buffer of hashmap_to_string.        *)
(*                                                                         *)
(* An element is named by its value.  A location is where a pointer to an  *)
(* element is kept: a bucket of one of the two maps, <<"hm", i>> or        *)
(* <<"helper", i>>, or the link of an element, <<"next", v>>.  gcmalloc    *)
(* returns zeroed memory: empty buckets, a buffer of length 0.             *)
(***************************************************************************)
EXTENDS Integers, Sequences, FiniteSets

CONSTANTS
  Values,          (* the values inserted                                  *)
  InitialMod,      (* buckets of a new map, 3 in the code                  *)
  Slack            (* room kept by string_buf_append, 64 in the code       *)

(* Decimal digits of a value and the blank after it. *)
Printed(v) ==
  LET digits[n \in Nat] == IF n < 10 THEN 1 ELSE 1 + digits[n \div 10]
  IN digits[v] + 1

(* The room kept is enough for any value and the final zero. *)
ASSUME HashmapAssumption ==
  /\ Values \subseteq Nat /\ IsFiniteSet(Values)
  /\ InitialMod \in Nat \ {0} /\ Slack \in Nat \ {0}
  /\ \A v \in Values : Printed(v) \in 1 .. Slack - 1

VARIABLES
  next,            (* the links of the elements                            *)
  hm, helper,      (* the two maps of compute: nodes, mod, nb_elment       *)
  walk,            (* hashmap_apply: what it does, on which map and where  *)
  buf,             (* the string buffer: contents, cursor, top             *)
  inserted         (* history: the values given to hash by compute         *)

hashVars == <<next, hm, helper, walk, buf, inserted>>

NULL == -1
Empty(mod) == [nodes |-> [i \in 0 .. mod - 1 |-> NULL], mod |-> mod, nb_elment |-> 0]
Idle == [func |-> "none"]

new_hashmap == Empty(InitialMod)

HashInit ==
  /\ next = [v \in Values |-> NULL]
  /\ hm = new_hashmap /\ helper = new_hashmap
  /\ walk = Idle /\ inserted = {}
  /\ buf = [text |-> <<>>, cursor |-> 0, top |-> 0]
-------------------------------------------------------------------------------
At(loc) == CASE loc[1] = "hm"     -> hm.nodes[loc[2]]
             [] loc[1] = "helper" -> helper.nodes[loc[2]]
             [] OTHER             -> next[loc[2]]

(* The elements met from a location: what every set holds that has the     *)
(* first one and is closed by the links.                                   *)
Linked(S) == \A u \in S : next[u] \in S \cup {NULL}

Members(loc) ==
  {v \in Values : \A S \in SUBSET Values : At(loc) \in S \cup {NULL} /\ Linked(S) => v \in S}

Bucket(v) == <<"hm", v % hm.mod>>

has_elmt(v) == v \in Members(Bucket(v))

\* Mutant of End: the element takes the place of the whole chain.
end_at_bucket(loc) == loc

(* The location of the null pointer that ends a chain. *)
End(loc) ==
  CHOOSE l \in {loc} \cup {<<"next", v>> : v \in Members(loc)} : At(l) = NULL

(* elmt->next = 0, *cur = elmt, ++nb_elment: the links and the map.        *)
NewLinks(loc, v) ==
  [u \in Values |-> IF loc = <<"next", u>> THEN v ELSE IF u = v THEN NULL ELSE next[u]]

NewMap(loc, v) ==
  [hm EXCEPT !.nb_elment = @ + 1,
             !.nodes = [i \in DOMAIN @ |-> IF loc = <<"hm", i>> THEN v ELSE @[i]]]

Crowded(map) == map.nb_elment > 2 * map.mod

Over(map, func) ==
  [func |-> func, map |-> map, i |-> 0, path |-> <<<<map, 0>>>>, down |-> TRUE]

(* hash as compute calls it.  A rehash lends the array of hm to the helper,*)
(* gives hm a new one of twice the size and applies hash to the helper.    *)
Insert(v) ==
  /\ walk = Idle
  /\ inserted' = inserted \cup {v}
  /\ UNCHANGED buf
  /\ \/ has_elmt(v) /\ UNCHANGED <<next, hm, helper, walk>>
     \/ /\ ~has_elmt(v)
        /\ next' = NewLinks(End(Bucket(v)), v)
        /\ LET linked == NewMap(End(Bucket(v)), v)
           IN IF Crowded(linked)
              THEN /\ helper' = linked
                   /\ hm' = Empty(2 * linked.mod)
                   /\ walk' = Over("helper", "hash")
              ELSE hm' = linked /\ UNCHANGED <<helper, walk>>

(* hashmap_to_string, on a new buffer. *)
hashmap_to_string ==
  /\ walk = Idle
  /\ walk' = Over("hm", "print")
  /\ buf' = [text |-> <<>>, cursor |-> 0, top |-> 0]
  /\ UNCHANGED <<next, hm, helper, inserted>>
-------------------------------------------------------------------------------
(* recurse_apply: path holds the locations of the calls in progress.  Each *)
(* goes down its link first, and applies func to its element on return.    *)
Top == walk.path[Len(walk.path)]
Popped == SubSeq(walk.path, 1, Len(walk.path) - 1)

Recurse ==
  /\ walk # Idle /\ walk.down /\ walk.path # <<>>
  /\ walk' = IF At(Top) # NULL
             THEN [walk EXCEPT !.path = Append(@, <<"next", At(Top)>>)]
             ELSE [walk EXCEPT !.path = Popped, !.down = FALSE]
  /\ UNCHANGED <<next, hm, helper, buf, inserted>>

(* func = hash with no helper, which a second rehash would go through.     *)
ApplyHash ==
  /\ walk # Idle /\ ~walk.down /\ walk.path # <<>> /\ walk.func = "hash"
  /\ LET v == At(Top)
     IN IF has_elmt(v) THEN UNCHANGED <<next, hm>>
        ELSE next' = NewLinks(End(Bucket(v)), v) /\ hm' = NewMap(End(Bucket(v)), v)
  /\ walk' = [walk EXCEPT !.path = Popped]
  /\ UNCHANGED <<helper, buf, inserted>>

\* Mutant of Grown: the room asked for is not kept when the buffer exists.
grown_when_full(b) ==
  IF b.top = 0 THEN Slack ELSE IF b.cursor >= b.top THEN 2 * b.top ELSE b.top

Grown(b) ==
  IF b.cursor + Slack <= b.top THEN b.top ELSE IF b.top = 0 THEN Slack ELSE 2 * b.top

(* func = print_elmt: string_buf_append of the value. *)
ApplyPrint ==
  /\ walk # Idle /\ ~walk.down /\ walk.path # <<>> /\ walk.func = "print"
  /\ buf' = [text |-> Append(buf.text, At(Top)),
             cursor |-> buf.cursor + Printed(At(Top)),
             top |-> Grown(buf)]
  /\ walk' = [walk EXCEPT !.path = Popped]
  /\ UNCHANGED <<next, hm, helper, inserted>>

Walked == IF walk.map = "hm" THEN hm.mod ELSE helper.mod

(* The loop of hashmap_apply over the buckets. *)
NextBucket ==
  /\ walk # Idle /\ walk.path = <<>>
  /\ walk' = IF walk.i + 1 < Walked
             THEN [walk EXCEPT !.i = @ + 1, !.path = <<<<walk.map, walk.i + 1>>>>, !.down = TRUE]
             ELSE Idle
  /\ UNCHANGED <<next, hm, helper, buf, inserted>>

HashNext ==
  (\E v \in Values : Insert(v)) \/ hashmap_to_string
  \/ Recurse \/ ApplyHash \/ ApplyPrint \/ NextBucket

HashSpec == HashInit /\ [][HashNext]_hashVars
-------------------------------------------------------------------------------
(* The elements a rehash has still to move: those of the calls in progress,*)
(* of the rest of their chain and of the buckets after.                    *)
Unmoved ==
  IF walk = Idle \/ walk.func = "print" THEN {}
  ELSE ({At(walk.path[k]) : k \in 1 .. Len(walk.path)} \ {NULL})
       \cup (IF walk.down /\ walk.path # <<>> THEN Members(Top) ELSE {})
       \cup UNION {Members(<<"helper", i>>) : i \in walk.i + 1 .. helper.mod - 1}

Moved == UNION {Members(<<"hm", i>>) : i \in DOMAIN hm.nodes}

(* main.c:101-134: at every moment of a rehash each element inserted is    *)
(* either still to be moved or found by has_elmt, and not both; each is in *)
(* the chain of its own bucket, the count is theirs, and no rehash begins  *)
(* while one is in progress (there hash has no helper).                    *)
NoElementLost ==
  /\ Moved \cup Unmoved = inserted /\ Moved \cap Unmoved = {}
  /\ \A v \in Moved : has_elmt(v)
  /\ hm.nb_elment = Cardinality(Moved)
  /\ ~Crowded(hm)

(* main.c:29-43: every append of hashmap_to_string, with its final zero,   *)
(* is inside the buffer, and the string has each element once.             *)
AppendFits ==
  /\ buf.cursor > 0 => buf.cursor + 1 <= buf.top
  /\ \A i, j \in 1 .. Len(buf.text) : i # j => buf.text[i] # buf.text[j]
  /\ (walk # Idle /\ walk.func = "print" /\ walk.path = <<>> /\ walk.i + 1 = hm.mod) =>
       {buf.text[i] : i \in 1 .. Len(buf.text)} = inserted
===============================================================================
