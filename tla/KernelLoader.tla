----------------------------- MODULE KernelLoader -----------------------------
(***************************************************************************)
(* tp-3/janus/monitor/multiboot2.c and monitor.c: the monitor looks for    *)
(* the multiboot2 header in the kernel's file, reads its tags and copies   *)
(* the kernel to its addresses.  Offsets and addresses are in bytes, and   *)
(* everything copied is a word of 4 bytes, named by its offset in the file.*)
(*                                                                         *)
(* A file is [size, magics, head, length, tags, address, entry]: magics    *)
(* are the offsets where the magic number stands, head the first of them   *)
(* with a right checksum (or NoHeader), length the header_length; tags is  *)
(* a sequence of [type, at, size], at counted from the header, and address *)
(* and entry are what the tags "address" and "entry" say.                  *)
(*                                                                         *)
(* The monitor reads the first SEARCH_ZONE_LEN bytes of the file into a    *)
(* buffer of malloc and walks the header there, with no check that the     *)
(* words it looks at are among those it read: past them it finds anything, *)
(* or faults.                                                              *)
(***************************************************************************)
EXTENDS Integers, Sequences

CONSTANTS
  SEARCH_ZONE_LEN,   (* bytes of the file searched, 32768 in the code      *)
  PHYSICAL_MEMORY,   (* bytes mapped from address 0, 3 GB in the code      *)
  Files,             (* the files given to the monitor                     *)
  AnyTag,            (* the tags memory nobody wrote may look like         *)
  AnyLength          (* the header_length it may look like                 *)

NoHeader == -1
Words(from, to) == {a \in from .. to - 1 : (a - from) % 4 = 0}
Address == [header_addr : Nat, load_addr : Nat, load_end_addr : Nat, bss_end_addr : Nat]

(* guest/entry.S: tags on multiples of 8, one after the other, up to the   *)
(* end of the header, an address and an entry among them.                  *)
TagEnd(f, k) == f.tags[k].at + f.tags[k].size

TagsLaidOut(f) ==
  LET n == Len(f.tags)
  IN /\ n > 0 /\ f.tags[1].at = 16 /\ f.length = TagEnd(f, n)
     /\ \A k \in 1 .. n : f.tags[k].size >= 8 /\ TagEnd(f, k) <= f.length
     /\ \A k \in 1 .. n - 1 :
          f.tags[k + 1].at % 8 = 0 /\ f.tags[k + 1].at \in TagEnd(f, k) .. TagEnd(f, k) + 7
     /\ \A j, k \in 1 .. n : j < k => TagEnd(f, j) <= f.tags[k].at
     /\ \E j, k \in 1 .. n : f.tags[j].type = "address" /\ f.tags[k].type = "entry"

(* The header is a word of the image that its address tag describes.       *)
HeaderInImage(f) ==
  /\ f.head \in f.magics /\ f.head % 4 = 0
  /\ f.address.header_addr \in Words(f.address.load_addr, f.address.load_end_addr)
  /\ f.address.header_addr - f.address.load_addr <= f.head

ASSUME KernelLoaderAssumption ==
  /\ SEARCH_ZONE_LEN \in Nat /\ PHYSICAL_MEMORY \in Nat /\ AnyLength \subseteq Nat
  /\ AnyTag \subseteq [type : STRING, size : Nat, address : Address, entry : Nat]
  /\ \A f \in Files :
       /\ f.size \in Nat /\ f.length \in Nat /\ f.magics \subseteq Nat
       /\ f.tags \in Seq([type : STRING, at : Nat, size : Nat])
       /\ f.address \in Address
       /\ f.head # NoHeader => TagsLaidOut(f) /\ HeaderInImage(f)

VARIABLES
  file,              (* the file                                           *)
  stage,             (* the function at work, or how main ended            *)
  off,               (* i in parse_multiboot2, then in extract_multiboot2  *)
  info,              (* struct multiboot2_load_info                        *)
  memory             (* the words written: address -> offset, or Zero      *)

loaderVars == <<file, stage, off, info, memory>>

Zero == "zero"
Unset == <<>>            (* a field of info main never gave a value        *)

LoaderInit ==
  /\ file \in Files /\ stage = "search" /\ off = 0
  /\ info = [header_off |-> Unset, address |-> Unset, entry |-> Unset]
  /\ memory = <<>>

Searched == IF file.size < SEARCH_ZONE_LEN THEN file.size ELSE SEARCH_ZONE_LEN

WasRead(from, n) == from + n <= Searched
-------------------------------------------------------------------------------
(* What the test of the magic and of the sum of the four words may say.    *)
IsHeader(i) ==
  IF WasRead(i, 16) THEN {i = file.head /\ i \in file.magics}
  ELSE IF WasRead(i, 4) /\ i \notin file.magics THEN {FALSE} ELSE BOOLEAN

(* One turn of the loop of parse_multiboot2. *)
Search ==
  /\ stage = "search"
  /\ \/ off >= Searched /\ stage' = "invalid" /\ UNCHANGED <<off, info>>
     \/ /\ off < Searched /\ FALSE \in IsHeader(off)
        /\ off' = off + 4 /\ UNCHANGED <<stage, info>>
     \/ /\ off < Searched /\ TRUE \in IsHeader(off)
        /\ stage' = "extract" /\ off' = 16
        /\ info' = [info EXCEPT !.header_off = off]
  /\ UNCHANGED <<file, memory>>

NextOffset(i) == IF i % 8 # 0 THEN (i \div 8) * 8 + 8 ELSE i

(* The header_length main sees, and the tag it sees i bytes after the      *)
(* header: the file's when all of it was read.                             *)
HeaderLength == IF WasRead(info.header_off, 16) THEN {file.length} ELSE AnyLength

TagsRead(i) ==
  {[type |-> t.type, size |-> t.size, address |-> file.address, entry |-> file.entry] :
     t \in {file.tags[k] : k \in {n \in 1 .. Len(file.tags) :
              /\ file.tags[n].at = i /\ WasRead(info.header_off, 16)
              /\ WasRead(info.header_off + i, file.tags[n].size)}}}

TagAt(i) == IF TagsRead(i) = {} THEN AnyTag ELSE TagsRead(i)

(* One turn of the loop of extract_multiboot2. *)
Extract ==
  /\ stage = "extract"
  /\ \E header_length \in HeaderLength :
       \/ off >= header_length /\ stage' = "load" /\ UNCHANGED <<off, info>>
       \/ /\ off < header_length /\ UNCHANGED stage
          /\ \E tag \in TagAt(off) :
               /\ info' = CASE tag.type = "address" -> [info EXCEPT !.address = tag.address]
                            [] tag.type = "entry"   -> [info EXCEPT !.entry = tag.entry]
                            [] OTHER                -> info
               /\ off' = NextOffset(off + tag.size)
       \/ /\ off < header_length /\ TagsRead(off) = {}
          /\ stage' = "crash" /\ UNCHANGED <<off, info>>
  /\ UNCHANGED <<file, memory>>

(* main leaves info on its stack without a value. *)
AddressSeen == IF info.address = Unset THEN {t.address : t \in AnyTag} ELSE {info.address}

\* Mutant of Start: the part of the file before the header is not counted.
start_at_header(a) == info.header_off

Start(a) == info.header_off - (a.header_addr - a.load_addr)

(* load_multiboot2: fread copies the whole image or fails, or faults where *)
(* nothing is mapped; then the bss, whose length, an unsigned difference,  *)
(* is nearly 4 GB when bss_end_addr is below load_end_addr: memset faults. *)
Load ==
  /\ stage = "load"
  /\ \E a \in AddressSeen :
       LET image  == Words(a.load_addr, a.load_end_addr)
           bss    == Words(a.load_end_addr, a.bss_end_addr)
           mapped == a.load_addr <= a.load_end_addr /\ a.load_end_addr <= PHYSICAL_MEMORY
           fread  == /\ a.load_addr < a.load_end_addr /\ Start(a) >= 0
                     /\ Start(a) + a.load_end_addr - a.load_addr <= file.size
           memset == a.bss_end_addr \in a.load_end_addr .. PHYSICAL_MEMORY
       IN \/ /\ mapped /\ fread /\ memset /\ stage' = "entered"
             /\ memory' = [x \in image \cup bss |->
                             IF x \in bss THEN Zero ELSE Start(a) + x - a.load_addr]
          \/ ~(mapped /\ fread) /\ stage' = "unable" /\ UNCHANGED memory
          \/ ~(mapped /\ (fread => memset)) /\ stage' = "crash" /\ UNCHANGED memory
  /\ UNCHANGED <<file, off, info>>

LoaderNext == Search \/ Extract \/ Load
LoaderSpec == LoaderInit /\ [][LoaderNext]_loaderVars
-------------------------------------------------------------------------------
(* The header of the file and all its tags are among the bytes read, as    *)
(* the Multiboot2 specification asks of a kernel.                          *)
HeaderRead == file.head # NoHeader /\ file.head + file.length <= Searched

(* multiboot2.c:53-156: main takes no header but the one with the right    *)
(* checksum, except among the last 16 bytes read, and misses none before   *)
(* them.  If the header and its tags were read whole, main jumps into the  *)
(* kernel only with every word of the image and of the bss in its place,   *)
(* the header at the address it gives for itself, and the entry of the     *)
(* tag; it gives up only on a file or a memory that is too short, and      *)
(* faults only on a bss that ends below the image or past the memory.      *)
LoadedInPlace ==
  LET a == file.address
      shift == file.head - a.header_addr
  IN /\ stage = "invalid" => file.head \notin 0 .. Searched - 16
     /\ stage \in {"extract", "load", "entered", "unable", "crash"} =>
          info.header_off = file.head \/ ~WasRead(info.header_off, 16)
     /\ HeaderRead =>
          /\ stage = "entered" =>
               /\ info.entry = file.entry
               /\ memory[a.header_addr] = file.head
               /\ \A x \in Words(a.load_addr, a.load_end_addr) : memory[x] = x + shift
               /\ \A x \in Words(a.load_end_addr, a.bss_end_addr) : memory[x] = Zero
          /\ stage = "unable" =>
               a.load_end_addr + shift > file.size \/ a.load_end_addr > PHYSICAL_MEMORY
          /\ stage = "crash" =>
               a.bss_end_addr < a.load_end_addr \/ a.bss_end_addr > PHYSICAL_MEMORY
===============================================================================
