----------------------------- MODULE MCSequential -----------------------------
(***************************************************************************)
(* Instances of the parts of the three programs that run alone, without    *)
(* sharing anything: one of them, job, takes its steps in each behaviour.  *)
(***************************************************************************)
EXTENDS Console, Printk, Hashmap, TaskSearch, KernelLoader

VARIABLE job

MCTexts == {<<"a">>, <<"b", "nl">>, <<"tab">>, <<"cr">>, <<"a", "b", "a", "b", "a", "b", "a">>}

Conversion(type, arg) ==
  [type |-> type, arg |-> arg, minimum |-> 0, zero_pad |-> FALSE, right_pad |-> FALSE,
   positive_blank |-> FALSE, visible_sign |-> FALSE, alternate_form |-> FALSE, long |-> FALSE]

Variants(c) ==
  {c, [c EXCEPT !.minimum = 4], [c EXCEPT !.minimum = 5, !.zero_pad = TRUE],
   [c EXCEPT !.minimum = 4, !.right_pad = TRUE], [c EXCEPT !.visible_sign = TRUE],
   [c EXCEPT !.minimum = 4, !.alternate_form = TRUE, !.zero_pad = TRUE],
   [c EXCEPT !.positive_blank = TRUE, !.long = TRUE]}

MCItems ==
  {Conversion("char", "z")}
  \cup UNION {Variants(Conversion("d", n)) : n \in {-8, -3, 0, 7}}
  \cup UNION {Variants(Conversion(type, n)) : type \in {"u", "x", "o", "b"}, n \in {-1, 0, 10}}
  \cup UNION {Variants(Conversion("s", s)) : s \in {<<>>, <<"h", "i">>}}
  \cup {[Conversion("c", "q") EXCEPT !.minimum = 3], Conversion("X", 11)}

MCFormats == {<<i>> : i \in MCItems}
             \cup {<<i, Conversion("char", "z"), j>> :
                     i \in Variants(Conversion("d", -3)), j \in Variants(Conversion("x", 10))}

(* Module k is on page k: 64 bytes here. *)
MCModules(k) == {NoModule} \cup {[start |-> 64 * k, end |-> 64 * k + size] : size \in {8, 20, 24}}

MCBoots ==
  LET room(n) == IF n = 8 THEN 8 ELSE 24
      tag(at, n, module) == [at |-> at, size |-> n, module |-> module]
  IN {[tags |-> <<tag(8, s[1], m[1]), tag(8 + room(s[1]), s[2], m[2]),
                  tag(8 + room(s[1]) + room(s[2]), s[3], m[3])>>,
       total_size |-> 8 + room(s[1]) + room(s[2]) + room(s[3]), headers |-> headers] :
        s \in {8, 17} \X {8, 17} \X {8, 17},
        m \in MCModules(1) \X MCModules(2) \X MCModules(3),
        headers \in SUBSET {64, 72, 80, 136, 144, 192}}

MCTags ==
  LET address(at) == [type |-> "address", at |-> at, size |-> 24]
      entry(at)   == [type |-> "entry", at |-> at, size |-> 12]
      other(at)   == [type |-> "other", at |-> at, size |-> 20]
      end(at)     == [type |-> "end", at |-> at, size |-> 8]
  IN {<<address(16), entry(40), end(56)>>, <<entry(16), address(32), end(56)>>,
      <<other(16), entry(40), address(56), end(80)>>}

MCAddress(header, load_end, bss_end) ==
  [header_addr |-> header, load_addr |-> 400, load_end_addr |-> load_end, bss_end_addr |-> bss_end]

(* A header of 64 or 88 bytes in the first 96 bytes, across their end or   *)
(* across the end of the file.                                             *)
MCFiles ==
  {[size |-> size, magics |-> decoys \cup ({head} \ {NoHeader}), head |-> head,
    length |-> IF Len(tags) = 3 /\ tags[1].type # "other" THEN 64 ELSE 88, tags |-> tags,
    address |-> MCAddress(400 + before, load_end, bss_end), entry |-> 420] :
     size \in {78, 120}, decoys \in {{}, {4}, {16, 84}}, head \in {NoHeader, 8, 12, 36, 88},
     tags \in MCTags, before \in {0, 8}, load_end \in {440, 488}, bss_end \in {0, 488, 496, 540}}

MCAnyTag ==
  {[type |-> "other", size |-> 0, address |-> MCAddress(0, 0, 0), entry |-> 0],
   [type |-> "address", size |-> 20, address |-> MCAddress(408, 440, 444), entry |-> 0],
   [type |-> "entry", size |-> 40, address |-> MCAddress(408, 600, 600), entry |-> 8]}
-------------------------------------------------------------------------------
seqVars == <<consoleVars, printkVars, hashVars, searchVars, loaderVars>>

Init ==
  /\ job \in {"console", "printk", "hashmap", "search", "loader"}
  /\ IF job = "console" THEN ConsoleInit
     ELSE /\ screen = [p \in 0 .. Cells - 1 |-> Blank] /\ cursor = 0 /\ gone = <<>>
          /\ cleared = TRUE /\ rest = <<>> /\ texts = MaxTexts
  /\ IF job = "printk" THEN PrintkInit
     ELSE /\ format = <<>> /\ todo = <<>> /\ len = 0 /\ given = <<>>
          /\ done = 0 /\ stop = FALSE /\ buffer = <<>>
  /\ HashInit
  /\ IF job = "search" THEN SearchInit
     ELSE boot = [tags |-> <<>>, total_size |-> 8, headers |-> {}] /\ tagptr = 8 /\ visited = <<>> /\ tasks = <<>>
  /\ IF job = "loader" THEN LoaderInit
     ELSE /\ file = [head |-> NoHeader] /\ stage = "off" /\ off = 0 /\ info = <<>> /\ memory = <<>>

Next ==
  /\ UNCHANGED job
  /\ \/ /\ job = "console" /\ ConsoleNext
        /\ UNCHANGED <<printkVars, hashVars, searchVars, loaderVars>>
     \/ /\ job = "printk" /\ PrintkNext
        /\ UNCHANGED <<consoleVars, hashVars, searchVars, loaderVars>>
     \/ /\ job = "hashmap" /\ HashNext
        /\ UNCHANGED <<consoleVars, printkVars, searchVars, loaderVars>>
     \/ /\ job = "search" /\ SearchNext
        /\ UNCHANGED <<consoleVars, printkVars, hashVars, loaderVars>>
     \/ /\ job = "loader" /\ LoaderNext
        /\ UNCHANGED <<consoleVars, printkVars, hashVars, searchVars>>

Spec == Init /\ [][Next]_<<job, seqVars>>
===============================================================================
