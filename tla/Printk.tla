-------------------------------- MODULE Printk --------------------------------
(***************************************************************************)
(* kernel/printk.c of rackdoll and guest/printk.c of janus, the same file: *)
(* vhprintk, which formats its arguments and gives the characters one by   *)
(* one to a handler, here the bounded buffer of snprintk.                  *)
(*                                                                         *)
(* A format is a sequence of items: a character (type "char", "%%" among   *)
(* them) or a conversion with the fields vhprintk_read_format fills.  "p"  *)
(* is "x" with alternate_form and long_operand.  A number has Width bits,  *)
(* or twice as many with long_operand.  Characters are one-letter strings. *)
(***************************************************************************)
EXTENDS Integers, Sequences, SequencesExt

CONSTANTS
  Width,           (* bits of an int, 32 in the code                       *)
  Formats,         (* sequences of items: a conversion with its argument   *)
  Sizes            (* sizes of the buffer                                  *)

(* The fields of an item: a character, a conversion of one, of a string or *)
(* of a number.                                                            *)
IsItem(item) ==
  /\ item.type # "char" => item.minimum \in Nat
  /\ CASE item.type \in {"char", "c"} -> item.arg \in STRING
       [] item.type = "s"             -> item.arg \in Seq(STRING)
       [] OTHER                       -> item.arg \in Int

ASSUME PrintkAssumption ==
  /\ Width \in Nat \ {0} /\ Sizes \subseteq Nat
  /\ 2 ^ Width \in Nat \ {0} /\ 2 ^ (2 * Width) \in Nat \ {0}
  /\ \A f \in Formats :
       f \in Seq({f[i] : i \in DOMAIN f}) /\ \A i \in 1 .. Len(f) : IsItem(f[i])

VARIABLES
  todo,            (* the items of the format not begun                    *)
  given,           (* the characters of the current item to be printed     *)
  done, stop,      (* st.done and st.stop                                  *)
  buffer, len,     (* the characters stored and the size of the buffer     *)
  format           (* the whole format and its arguments                   *)

printkVars == <<todo, given, done, stop, buffer, len, format>>

Bits(item) == IF item.long THEN 2 * Width ELSE Width

\* Mutant of number_length: a loop that tests first.
number_length_while(n, base) ==
  LET length[m \in Nat] == IF m = 0 THEN 0 ELSE 1 + length[m \div base]
  IN length[n]

number_length(n, base) ==
  LET length[m \in Nat] == IF m < base THEN 1 ELSE 1 + length[m \div base]
  IN length[n]

Base(type) == CASE type = "x" \/ type = "X" -> 16
                [] type = "o" -> 8
                [] type = "b" -> 2
                [] OTHER      -> 10

Symbol(digit, type) ==
  IF type = "X" /\ digit >= 10
  THEN <<"A", "B", "C", "D", "E", "F">>[digit - 9]
  ELSE <<"0", "1", "2", "3", "4", "5", "6", "7", "8", "9",
         "a", "b", "c", "d", "e", "f">>[digit + 1]

(* radical / div, then radical % div with div /= base. *)
print_radical(n, type) ==
  LET base == Base(type)
      size == number_length(n, base)
  IN [i \in 1 .. size |-> Symbol((n \div base ^ (size - i)) % base, type)]

pad(n, c) == [i \in 1 .. n |-> c]

Missing(item, size) == IF item.minimum > size THEN item.minimum - size ELSE 0

print_number(item, n, prefix) ==
  LET digits  == print_radical(n, item.type)
      missing == Missing(item, Len(digits) + Len(prefix))
  IN IF item.right_pad THEN prefix \o digits \o pad(missing, " ")
     ELSE IF item.zero_pad THEN prefix \o pad(missing, "0") \o digits
     ELSE pad(missing, " ") \o prefix \o digits

PlusSign(item) == IF item.positive_blank THEN <<" ">>
                  ELSE IF item.visible_sign THEN <<"+">> ELSE <<>>

(* The argument is widened to 64 bits before it is negated. *)
print_signed(item) ==
  IF item.arg < 0 THEN print_number(item, -item.arg, <<"-">>)
  ELSE print_number(item, item.arg, PlusSign(item))

Prefix(item) ==
  CASE item.type \in {"x", "X"} -> IF item.alternate_form THEN <<"0", "x">> ELSE <<>>
    [] item.type = "o" -> IF item.alternate_form THEN <<"0">> ELSE <<>>
    [] item.type = "b" -> IF item.alternate_form THEN <<"0", "b">> ELSE <<>>
    [] OTHER           -> PlusSign(item)

print_unsigned(item) == print_number(item, item.arg % (2 ^ Bits(item)), Prefix(item))

Padded(item, chars, missing) ==
  IF item.right_pad THEN chars \o pad(missing, " ") ELSE pad(missing, " ") \o chars

print_string(item) ==
  LET size == Len(item.arg)
  IN Padded(item, item.arg,
            IF item.minimum > size THEN item.minimum - size
            ELSE IF size = 0 /\ item.positive_blank THEN 1 ELSE 0)

Rendered(item) ==
  CASE item.type = "char" -> <<item.arg>>
    [] item.type = "c"    -> Padded(item, <<item.arg>>, Missing(item, 1))
    [] item.type = "s"    -> print_string(item)
    [] item.type \in {"d", "i"} -> print_signed(item)
    [] OTHER              -> print_unsigned(item)
-------------------------------------------------------------------------------
PrintkInit ==
  /\ format \in Formats /\ todo = format
  /\ len \in Sizes
  /\ given = <<>> /\ done = 0 /\ stop = FALSE /\ buffer = <<>>

(* The loop of vhprintk looks at stop before each item. *)
NextItem ==
  /\ given = <<>> /\ todo # <<>> /\ ~stop
  /\ given' = Rendered(Head(todo)) /\ todo' = Tail(todo)
  /\ UNCHANGED <<done, stop, buffer, len, format>>

\* Mutant of Room: one character too many.
room_for_one_more == done <= len

Room == done < len

(* print_one: once the handler refused a character, the rest is dropped. *)
PrintOne ==
  /\ given # <<>>
  /\ given' = Tail(given)
  /\ IF ~stop /\ Room
     THEN buffer' = Append(buffer, Head(given)) /\ done' = done + 1 /\ UNCHANGED stop
     ELSE stop' = TRUE /\ UNCHANGED <<buffer, done>>
  /\ UNCHANGED <<todo, len, format>>

PrintkNext == NextItem \/ PrintOne
PrintkSpec == PrintkInit /\ [][PrintkNext]_printkVars
-------------------------------------------------------------------------------
(* Reading a printed conversion back, independently of how it is printed:  *)
(* its digits, padding zeros and the zero of a prefix among them, give the *)
(* value.                                                                  *)
DigitOf(c) == CHOOSE d \in 0 .. 15 : c \in {Symbol(d, "x"), Symbol(d, "X")}

IsDigit(c, base) == \E d \in 0 .. base - 1 : c \in {Symbol(d, "x"), Symbol(d, "X")}

ValueRead(s, base) ==
  FoldLeft(LAMBDA value, c : value * base + DigitOf(c), 0,
           SelectSeq(s, LAMBDA c : IsDigit(c, base)))

Signed(item) == item.type \in {"d", "i"}

Value(item) == IF ~Signed(item) THEN item.arg % (2 ^ Bits(item))
               ELSE IF item.arg < 0 THEN -item.arg ELSE item.arg

PrefixOf(item) == IF Signed(item) /\ item.arg < 0 THEN <<"-">>
                  ELSE IF Signed(item) THEN PlusSign(item) ELSE Prefix(item)

FewestDigits(n, base) ==
  CHOOSE k \in 1 .. 2 * Width : n < base ^ k /\ (k = 1 \/ n >= base ^ (k - 1))

(* The blanks of a conversion are at one end of it. *)
BlanksAtOneEnd(s) ==
  \E k \in 0 .. Len(s) :
    \/ \A i \in 1 .. Len(s) : s[i] = " " <=> i <= k
    \/ \A i \in 1 .. Len(s) : s[i] = " " <=> i > k

ReadsBack(item) ==
  LET s == Rendered(item)
  IN /\ item.type \notin {"char", "c", "s"} =>
          /\ ValueRead(s, Base(item.type)) = Value(item)
          /\ (\E i \in 1 .. Len(s) : s[i] = "-") <=> Signed(item) /\ item.arg < 0
          /\ Len(s) = LET needed == FewestDigits(Value(item), Base(item.type))
                                    + Len(PrefixOf(item))
                      IN IF item.minimum > needed THEN item.minimum ELSE needed
     /\ item.type # "s" /\ ~item.positive_blank => BlanksAtOneEnd(s)

(* printk.c:56-66 and 132-282: every conversion of a format, read back, is *)
(* its argument in the width asked for.                                    *)
ConversionsReadBack == \A i \in 1 .. Len(format) : ReadsBack(format[i])

(* printk.c:14-25 and 120-130: what snprintk leaves in its buffer is the   *)
(* beginning of what an endless buffer would hold, never one character     *)
(* more than its size, and it returns the number of characters stored,     *)
(* less than all only when the buffer is full.                             *)
BoundedPrint ==
  LET whole == FlattenSeq([i \in 1 .. Len(format) |-> Rendered(format[i])])
      most  == IF Len(whole) < len THEN Len(whole) ELSE len
      over  == given = <<>> /\ (todo = <<>> \/ stop)
  IN /\ buffer = SubSeq(whole, 1, done) /\ done <= most
     /\ over => done = most
===============================================================================
