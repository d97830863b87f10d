----------------------------- MODULE ConsoleProofs -----------------------------
(***************************************************************************)
(* The console prints on paper, for a screen of any size and any texts:    *)
(* Console, under the mapping of Console's Sheet, implements Paper.  CInv  *)
(* is the invariant the refinement needs: the cursor on the screen, before *)
(* clear nothing printed, and only whole rows scrolled away, so that the   *)
(* column of the cursor is that of its place on the sheet.                 *)
(*                                                                         *)
(* Then Printk: what snprintk leaves in its buffer, for any format.        *)
(* PrintkInv counts what is printed by the items begun (Prints), which     *)
(* takes what number_length and FlattenSeq compute by recursion: each is   *)
(* shown to exist, and to be what it should, by the least counterexample.  *)
(***************************************************************************)
EXTENDS Console, Printk, WellFoundedInduction, SequenceTheorems, TLAPS

C == VGA_SCREEN_COLUMNS

(* Division of naturals.                                                   *)
LEMMA DivMod ==
  ASSUME NEW n \in Nat, NEW d \in Nat \ {0}
  PROVE  /\ n \div d \in Nat /\ n % d \in 0 .. d - 1
         /\ n = d * (n \div d) + (n % d)
OBVIOUS

(* A number has one quotient and one remainder.                            *)
LEMMA Unique ==
  ASSUME NEW d \in Nat \ {0}, NEW q \in Nat, NEW r \in 0 .. d - 1
  PROVE  (d * q + r) \div d = q /\ (d * q + r) % d = r
<1> DEFINE n == d * q + r
<1>1. n \in Nat
  OBVIOUS
<1>2. n \div d \in Nat /\ n % d \in 0 .. d - 1 /\ n = d * (n \div d) + (n % d)
  BY <1>1, DivMod
<1>3. d * (q - (n \div d)) = (n % d) - r
  BY <1>2
<1>4. q - (n \div d) <= 0
  BY <1>2, <1>3
<1>5. q - (n \div d) >= 0
  BY <1>2, <1>3
<1> QED
  BY <1>2, <1>3, <1>4, <1>5

(* putc's line start, (offset / columns) * columns, is the offset without  *)
(* its column; whole rows in front change no column.                       *)
LEMMA RowFacts ==
  ASSUME NEW x \in Nat
  PROVE  /\ Row(x) = x - (x % C) /\ Row(x) \in 0 .. x
         /\ Row(x + C) = Row(x) + C
         /\ \A k \in Nat : (C * k + x) % C = x % C
<1>1. C \in Nat \ {0}
  BY ConsoleAssumption DEF C
<1>2. PICK q \in Nat, r \in 0 .. C - 1 : q = x \div C /\ r = x % C /\ x = C * q + r
  BY <1>1, DivMod
<1>3. Row(x) = q * C
  BY <1>2 DEF Row, C
<1>4. \A k \in Nat : (C * k + x) \div C = k + q /\ (C * k + x) % C = r
  <2> TAKE k \in Nat
  <2>1. k + q \in Nat /\ C * k + x = C * (k + q) + r
    BY <1>1, <1>2
  <2>2. (C * (k + q) + r) \div C = k + q /\ (C * (k + q) + r) % C = r
    BY <1>1, <1>2, <2>1, Unique
  <2> QED
    BY <2>1, <2>2
<1>5. Row(x + C) = (q + 1) * C
  <2>1. C * 1 + x = x + C
    BY <1>1
  <2>2. (x + C) \div C = 1 + q
    BY <2>1, <1>4
  <2> QED
    BY <1>1, <1>2, <2>2 DEF Row, C
<1>6. Row(x) = x - r /\ Row(x) \in 0 .. x
  <2>1. q * C \in Nat /\ x = q * C + r
    BY <1>1, <1>2
  <2> QED
    BY <2>1, <1>1, <1>2, <1>3
<1>7. Row(x + C) = Row(x) + C
  BY <1>1, <1>2, <1>3, <1>5
<1> QED
  BY <1>2, <1>4, <1>6, <1>7

(* The sizes of the screen: some rows of some tab stops.                   *)
LEMMA CellsFacts ==
  /\ C \in Nat /\ C > 8 /\ Cells \in Nat /\ Cells >= C
  /\ \E m \in Nat : C = 8 * m
<1>1. C \in Nat /\ C > 8 /\ C % 8 = 0 /\ VGA_SCREEN_LINES \in Nat /\ VGA_SCREEN_LINES >= 1
  BY ConsoleAssumption DEF C
<1>2. Cells = VGA_SCREEN_LINES * C
  BY DEF Cells, C
<1>3. Cells \in Nat /\ Cells >= C
  BY <1>1, <1>2
<1>4. C = 8 * (C \div 8) /\ C \div 8 \in Nat
  BY <1>1
<1> QED
  BY <1>1, <1>3, <1>4

Chars == Letters \cup {"nl", "cr", "tab"}
Shown == Letters \cup {Blank}

CInv ==
  /\ cursor \in 0 .. Cells - 1
  /\ screen \in [0 .. Cells - 1 -> Shown]
  /\ gone \in Seq(Shown) /\ \E k \in Nat : Len(gone) = C * k
  /\ rest \in Seq(Chars)
  /\ cleared \in BOOLEAN
  /\ ~cleared => gone = <<>> /\ cursor = 0 /\ rest = <<>>

(* What Written says of any screen below any rows.                         *)
Content(rows, s) ==
  {<<p - 1, rows[p]>> : p \in {q \in 1 .. Len(rows) : rows[q] # Blank}}
  \cup {<<Len(rows) + p, s[p]>> : p \in {q \in 0 .. Cells - 1 : s[q] # Blank}}

(* The refinement mapping, in the terms of the lemmas.                     *)
LEMMA WrittenContent == Written = Content(gone, screen)
BY DEF Written, Content

(* A glyph is no control character and not the blank.                      *)
LEMMA LetterFacts ==
  \A l \in Letters : l # "nl" /\ l # "cr" /\ l # "tab" /\ l # Blank
BY ConsoleAssumption DEF Blank

(* A bounded step of the cursor, for each kind of character.               *)
LEMMA AdvanceFacts ==
  ASSUME NEW n \in 0 .. Cells - 1, NEW c \in Chars
  PROVE  Advance(c, n) \in 0 .. Cells + C - 1
<1>1. C \in Nat /\ C > 8 /\ Cells \in Nat /\ Cells >= C
  BY CellsFacts
<1>2. n \in Nat /\ Row(n) \in 0 .. n /\ Row(n + C) = Row(n) + C
  BY <1>1, RowFacts
<1>3. CASE c = "nl"
  BY <1>1, <1>2, <1>3 DEF Advance, C
<1>4. CASE c = "cr"
  BY <1>1, <1>2, <1>4 DEF Advance
<1>5. CASE c = "tab"
  <2>1. Advance(c, n) = ((n + 1) \div 8) * 8 + 8
    BY <1>5 DEF Advance
  <2>2. ((n + 1) \div 8) * 8 + 8 \in 0 .. n + 9
    BY <1>2
  <2> QED
    BY <1>1, <1>2, <2>1, <2>2
<1>6. CASE c \notin {"nl", "cr", "tab"}
  <2>1. Advance(c, n) = n + 1
    BY <1>6 DEF Advance
  <2> QED
    BY <2>1, <1>1
<1> QED
  BY <1>3, <1>4, <1>5, <1>6

(* scroll moves the first row to the rows gone and changes no place.       *)
LEMMA ScrollKeeps ==
  ASSUME NEW rows \in Seq(Shown), NEW s \in [0 .. Cells - 1 -> Shown]
  PROVE  /\ Content(rows \o FirstRow(s), scroll(s)) = Content(rows, s)
         /\ rows \o FirstRow(s) \in Seq(Shown)
         /\ Len(rows \o FirstRow(s)) = Len(rows) + C
         /\ scroll(s) \in [0 .. Cells - 1 -> Shown]
<1>1. C \in Nat /\ C > 8 /\ Cells \in Nat /\ Cells >= C
  BY CellsFacts
<1>2. FirstRow(s) \in Seq(Shown) /\ Len(FirstRow(s)) = C
  <2>1. FirstRow(s) \in [1 .. C -> Shown]
    BY <1>1 DEF FirstRow, C
  <2> QED
    BY <2>1, <1>1
<1> DEFINE all == rows \o FirstRow(s)
<1>3. all \in Seq(Shown) /\ Len(all) = Len(rows) + C /\ Len(rows) \in Nat
  BY <1>1, <1>2
<1>4. \A q \in 1 .. Len(rows) : all[q] = rows[q]
  BY <1>2
<1>5. \A q \in 0 .. C - 1 : all[Len(rows) + q + 1] = s[q]
  <2> TAKE q \in 0 .. C - 1
  <2>1. all[Len(rows) + q + 1] = FirstRow(s)[q + 1]
    BY <1>1, <1>2, <1>3
  <2>2. FirstRow(s)[q + 1] = s[q]
    BY <1>1 DEF FirstRow, C
  <2> QED
    BY <2>1, <2>2
<1>6. \A q \in 0 .. Cells - 1 - C : scroll(s)[q] = s[q + C]
  BY <1>1 DEF scroll, C
<1>7. \A q \in Cells - C .. Cells - 1 : scroll(s)[q] = Blank
  BY <1>1 DEF scroll, C
<1>8. scroll(s) \in [0 .. Cells - 1 -> Shown]
  BY <1>1 DEF scroll, Shown, C
<1> HIDE DEF all
<1>9. Content(all, scroll(s)) \subseteq Content(rows, s)
  <2> SUFFICES ASSUME NEW w \in Content(all, scroll(s)) PROVE w \in Content(rows, s)
    OBVIOUS
  <2>1. CASE \E p \in 1 .. Len(all) : all[p] # Blank /\ w = <<p - 1, all[p]>>
    <3> PICK p \in 1 .. Len(all) : all[p] # Blank /\ w = <<p - 1, all[p]>>
      BY <2>1
    <3>1. CASE p <= Len(rows)
      <4>1. p \in 1 .. Len(rows) /\ rows[p] # Blank /\ w = <<p - 1, rows[p]>>
        BY <1>1, <1>3, <1>4, <3>1
      <4> QED
        BY <4>1 DEF Content
    <3>2. CASE p > Len(rows)
      <4> DEFINE q == p - Len(rows) - 1
      <4>1. q \in 0 .. C - 1 /\ p = Len(rows) + q + 1 /\ q \in 0 .. Cells - 1 /\ p - 1 = Len(rows) + q
        BY <1>1, <1>3, <3>2
      <4>2. all[p] = s[q]
        BY <4>1, <1>5
      <4>3. s[q] # Blank /\ w = <<Len(rows) + q, s[q]>>
        BY <4>1, <4>2
      <4> HIDE DEF q
      <4> QED
        BY <4>1, <4>3 DEF Content
    <3> QED
      BY <1>3, <3>1, <3>2
  <2>2. CASE \E p \in 0 .. Cells - 1 : scroll(s)[p] # Blank /\ w = <<Len(all) + p, scroll(s)[p]>>
    <3> PICK p \in 0 .. Cells - 1 : scroll(s)[p] # Blank /\ w = <<Len(all) + p, scroll(s)[p]>>
      BY <2>2
    <3>1. p \in 0 .. Cells - 1 - C
      BY <1>1, <1>7
    <3> DEFINE q == p + C
    <3>2. q \in 0 .. Cells - 1 /\ Len(all) + p = Len(rows) + q
      BY <1>1, <1>3, <3>1
    <3>3. s[q] # Blank /\ w = <<Len(rows) + q, s[q]>>
      BY <3>1, <3>2, <1>6
    <3> HIDE DEF q
    <3> QED
      BY <3>2, <3>3 DEF Content
  <2> QED
    BY <2>1, <2>2 DEF Content
<1>10. Content(rows, s) \subseteq Content(all, scroll(s))
  <2> SUFFICES ASSUME NEW w \in Content(rows, s) PROVE w \in Content(all, scroll(s))
    OBVIOUS
  <2>1. CASE \E p \in 1 .. Len(rows) : rows[p] # Blank /\ w = <<p - 1, rows[p]>>
    <3> PICK p \in 1 .. Len(rows) : rows[p] # Blank /\ w = <<p - 1, rows[p]>>
      BY <2>1
    <3>1. p \in 1 .. Len(all) /\ all[p] # Blank /\ w = <<p - 1, all[p]>>
      BY <1>1, <1>3, <1>4
    <3> QED
      BY <3>1 DEF Content
  <2>2. CASE \E p \in 0 .. Cells - 1 : s[p] # Blank /\ w = <<Len(rows) + p, s[p]>>
    <3> PICK p \in 0 .. Cells - 1 : s[p] # Blank /\ w = <<Len(rows) + p, s[p]>>
      BY <2>2
    <3>1. CASE p < C
      <4> DEFINE q == Len(rows) + p + 1
      <4>1. p \in 0 .. C - 1 /\ q \in 1 .. Len(all) /\ q - 1 = Len(rows) + p
        BY <1>1, <1>3, <3>1
      <4>2. all[q] = s[p]
        BY <4>1, <1>5
      <4> HIDE DEF q
      <4>3. all[q] # Blank /\ w = <<q - 1, all[q]>>
        BY <4>1, <4>2
      <4> QED
        BY <4>1, <4>3 DEF Content
    <3>2. CASE p >= C
      <4> DEFINE q == p - C
      <4>1. q \in 0 .. Cells - 1 - C /\ q \in 0 .. Cells - 1 /\ q + C = p
            /\ Len(all) + q = Len(rows) + p
        BY <1>1, <1>3, <3>2
      <4> HIDE DEF q
      <4>2. scroll(s)[q] = s[p]
        BY <4>1, <1>6
      <4>3. scroll(s)[q] # Blank /\ w = <<Len(all) + q, scroll(s)[q]>>
        BY <4>1, <4>2
      <4> QED
        BY <4>1, <4>3 DEF Content
    <3> QED
      BY <1>1, <3>1, <3>2
  <2> QED
    BY <2>1, <2>2 DEF Content
<1> QED
  BY <1>3, <1>8, <1>9, <1>10 DEF all

(* Writing a letter on the screen is writing it on the sheet.              *)
Overwrite(sheet, at, l) == {w \in sheet : w[1] # at} \cup {<<at, l>>}

(* A character written is a character of the sheet.                        *)
LEMMA ShowWrites ==
  ASSUME NEW rows \in Seq(Shown), NEW s \in [0 .. Cells - 1 -> Shown],
         NEW n \in 0 .. Cells - 1, NEW l \in Letters
  PROVE  Content(rows, [s EXCEPT ![n] = l]) = Overwrite(Content(rows, s), Len(rows) + n, l)
<1> DEFINE place == Len(rows) + n
           shown == [s EXCEPT ![n] = l]
           kept  == {w \in Content(rows, s) : w[1] # place}
<1>1. l # Blank /\ Len(rows) \in Nat /\ Cells \in Nat
  BY LetterFacts, CellsFacts
<1>2. shown[n] = l /\ \A q \in 0 .. Cells - 1 : q # n => shown[q] = s[q]
  OBVIOUS
<1> HIDE DEF shown
<1>3. Content(rows, shown) \subseteq kept \cup {<<place, l>>}
  <2> SUFFICES ASSUME NEW w \in Content(rows, shown) PROVE w \in kept \cup {<<place, l>>}
    OBVIOUS
  <2>1. CASE \E p \in 1 .. Len(rows) : rows[p] # Blank /\ w = <<p - 1, rows[p]>>
    <3> PICK p \in 1 .. Len(rows) : rows[p] # Blank /\ w = <<p - 1, rows[p]>>
      BY <2>1
    <3>1. w \in Content(rows, s)
      BY DEF Content
    <3>2. w[1] # place
      BY <1>1
    <3> QED
      BY <3>1, <3>2
  <2>2. CASE \E p \in 0 .. Cells - 1 : shown[p] # Blank /\ w = <<Len(rows) + p, shown[p]>>
    <3> PICK p \in 0 .. Cells - 1 : shown[p] # Blank /\ w = <<Len(rows) + p, shown[p]>>
      BY <2>2
    <3>1. CASE p = n
      BY <3>1, <1>2
    <3>2. CASE p # n
      <4>1. s[p] # Blank /\ w = <<Len(rows) + p, s[p]>>
        BY <3>2, <1>2
      <4>2. w \in Content(rows, s)
        BY <4>1 DEF Content
      <4>3. w[1] # place
        BY <1>1, <3>2
      <4> QED
        BY <4>2, <4>3
    <3> QED
      BY <3>1, <3>2
  <2> QED
    BY <2>1, <2>2 DEF Content
<1>4. kept \cup {<<place, l>>} \subseteq Content(rows, shown)
  <2>1. <<place, l>> \in Content(rows, shown)
    BY <1>1, <1>2 DEF Content
  <2>2. kept \subseteq Content(rows, shown)
    <3> SUFFICES ASSUME NEW w \in Content(rows, s), w[1] # place
                 PROVE  w \in Content(rows, shown)
      OBVIOUS
    <3>1. CASE \E p \in 1 .. Len(rows) : rows[p] # Blank /\ w = <<p - 1, rows[p]>>
      BY <3>1 DEF Content
    <3>2. CASE \E p \in 0 .. Cells - 1 : s[p] # Blank /\ w = <<Len(rows) + p, s[p]>>
      <4> PICK p \in 0 .. Cells - 1 : s[p] # Blank /\ w = <<Len(rows) + p, s[p]>>
        BY <3>2
      <4>1. p # n
        BY <1>1
      <4>2. shown[p] # Blank /\ w = <<Len(rows) + p, shown[p]>>
        BY <4>1, <1>2
      <4> QED
        BY <4>2 DEF Content
    <3> QED
      BY <3>1, <3>2 DEF Content
  <2> QED
    BY <2>1, <2>2
<1> QED
  BY <1>3, <1>4 DEF shown, Overwrite
-------------------------------------------------------------------------------
ConsoleSpec == ConsoleInit /\ [][ConsoleNext]_consoleVars

(* A blank screen below no rows is an empty sheet.                         *)
LEMMA BlankEmpty ==
  ASSUME NEW s, \A q \in 0 .. Cells - 1 : s[q] = Blank
  PROVE  Content(<<>>, s) = {}
BY CellsFacts DEF Content

(* The screen as the firmware leaves it.                                   *)
LEMMA InitCInv == ConsoleInit => CInv
<1> SUFFICES ASSUME ConsoleInit PROVE CInv
  OBVIOUS
<1>1. cursor = 0 /\ gone = <<>> /\ cleared = FALSE /\ rest = <<>>
  BY DEF ConsoleInit
<1>2. screen \in [0 .. Cells - 1 -> Shown]
  BY DEF ConsoleInit, Shown
<1>3. 0 \in 0 .. Cells - 1 /\ Len(<<>>) = C * 0 /\ 0 \in Nat
  BY CellsFacts
<1>4. \E k \in Nat : Len(gone) = C * k
  BY <1>1, <1>3
<1>5. gone \in Seq(Shown) /\ rest \in Seq(Chars)
  BY <1>1
<1>6. cursor \in 0 .. Cells - 1
  BY <1>1, <1>3
<1> QED
  BY <1>1, <1>2, <1>4, <1>5, <1>6 DEF CInv

(* The scrolled and the unscrolled end of putc, in one statement about the *)
(* sheet: what is written is Content(gone, shown) and the place is that of *)
(* the cursor's advance.                                                   *)
LEMMA PutcFacts ==
  ASSUME CInv, NEW c \in Chars, putc(c)
  PROVE  /\ Content(gone', screen') = Content(gone, Show(screen, c, cursor))
         /\ Len(gone') + cursor' = Len(gone) + Advance(c, cursor)
         /\ cursor' \in 0 .. Cells - 1
         /\ screen' \in [0 .. Cells - 1 -> Shown]
         /\ gone' \in Seq(Shown) /\ \E k \in Nat : Len(gone') = C * k
<1> DEFINE n == Advance(c, cursor)
           shown == Show(screen, c, cursor)
<1>1. C \in Nat /\ C > 8 /\ Cells \in Nat /\ Cells >= C
  BY CellsFacts
<1>2. cursor \in 0 .. Cells - 1 /\ screen \in [0 .. Cells - 1 -> Shown] /\ gone \in Seq(Shown)
  BY DEF CInv
<1>3. n \in 0 .. Cells + C - 1
  BY <1>2, AdvanceFacts
<1>4. shown \in [0 .. Cells - 1 -> Shown]
  BY <1>2 DEF Show, Shown
<1>5. PICK k \in Nat : Len(gone) = C * k
  BY DEF CInv
<1> HIDE DEF n, shown
<1>6. CASE n >= Cells
  <2>1. screen' = scroll(shown) /\ gone' = gone \o FirstRow(shown) /\ cursor' = n - C
    BY <1>6 DEF putc, n, shown, C
  <2>2. Len(gone') = Len(gone) + C /\ gone' \in Seq(Shown)
        /\ Content(gone', screen') = Content(gone, shown)
        /\ screen' \in [0 .. Cells - 1 -> Shown]
    BY <2>1, <1>2, <1>4, ScrollKeeps
  <2>3. k + 1 \in Nat /\ Len(gone') = C * (k + 1)
    BY <2>2, <1>1, <1>5
  <2>4. cursor' \in 0 .. Cells - 1
    BY <2>1, <1>1, <1>3, <1>6
  <2>5. Len(gone') + cursor' = Len(gone) + n
    BY <2>1, <2>2, <1>1, <1>2, <1>3
  <2> QED
    BY <2>2, <2>3, <2>4, <2>5 DEF n, shown
<1>7. CASE ~(n >= Cells)
  <2>1. screen' = shown /\ cursor' = n /\ gone' = gone
    BY <1>7 DEF putc, n, shown
  <2>2. cursor' \in 0 .. Cells - 1
    BY <2>1, <1>1, <1>3, <1>7
  <2> QED
    BY <2>1, <2>2, <1>2, <1>4, <1>5 DEF n, shown
<1> QED
  BY <1>6, <1>7

(* clear, puts and putc keep the invariant.                                *)
LEMMA NextCInv == CInv /\ [ConsoleNext]_consoleVars => CInv'
<1> SUFFICES ASSUME CInv, [ConsoleNext]_consoleVars PROVE CInv'
  OBVIOUS
<1>1. CASE clear
  <2>1. gone' = <<>> /\ cursor' = 0 /\ rest' = <<>> /\ cleared' = TRUE /\ gone' = gone
    BY <1>1 DEF clear, CInv
  <2>2. screen' \in [0 .. Cells - 1 -> Shown]
    BY <1>1 DEF clear, Shown
  <2>3. 0 \in 0 .. Cells - 1
    BY CellsFacts
  <2> QED
    BY <2>1, <2>2, <2>3 DEF CInv
<1>2. CASE puts
  <2>1. rest' \in Seq(Chars)
    BY <1>2, ConsoleAssumption DEF puts, Chars
  <2> QED
    BY <1>2, <2>1 DEF puts, CInv
<1>3. CASE PutNext
  <2>1. Head(rest) \in Chars /\ Tail(rest) \in Seq(Chars) /\ cleared
    BY <1>3 DEF PutNext, CInv
  <2>2. putc(Head(rest)) /\ rest' = Tail(rest) /\ cleared' = cleared
    BY <1>3 DEF PutNext
  <2>3. /\ cursor' \in 0 .. Cells - 1
        /\ screen' \in [0 .. Cells - 1 -> Shown]
        /\ gone' \in Seq(Shown) /\ \E k \in Nat : Len(gone') = C * k
    BY <2>1, <2>2, PutcFacts
  <2> QED
    BY <2>1, <2>2, <2>3 DEF CInv
<1>4. CASE UNCHANGED consoleVars
  BY <1>4 DEF consoleVars, CInv
<1> QED
  BY <1>1, <1>2, <1>3, <1>4 DEF ConsoleNext
-------------------------------------------------------------------------------
(* The sheet and the place on it that a state of the console stands for.   *)
Printed == IF cleared THEN Written ELSE {}
Place == Len(gone) + cursor

(* One character put is one step on the sheet.                             *)
LEMMA PutcRefines ==
  ASSUME CInv, cleared, cleared' = cleared, NEW c \in Chars, putc(c)
  PROVE  Sheet!Next
<1>1. C \in Nat /\ C > 8 /\ Cells \in Nat /\ Cells >= C
  BY CellsFacts
<1>2. cursor \in 0 .. Cells - 1 /\ screen \in [0 .. Cells - 1 -> Shown] /\ gone \in Seq(Shown)
      /\ cursor \in Nat /\ Len(gone) \in Nat
  BY <1>1 DEF CInv
<1>3. PICK k \in Nat : Len(gone) = C * k
  BY DEF CInv
<1>4. /\ Written = Content(gone, screen)
      /\ Written' = Content(gone, Show(screen, c, cursor))
      /\ Place' = Len(gone) + Advance(c, cursor)
  BY PutcFacts, WrittenContent DEF Written, Content, Place
<1>5. Printed = Written /\ Printed' = Written'
  BY DEF Printed
<1>6. Place % C = cursor % C /\ Place - (cursor % C) = Len(gone) + Row(cursor)
      /\ Place \in Nat /\ Row(cursor + C) = Row(cursor) + C /\ Row(cursor) \in Nat
      /\ cursor % C \in Nat
  <2>1. Row(cursor) = cursor - (cursor % C) /\ Row(cursor) \in 0 .. cursor
        /\ Row(cursor + C) = Row(cursor) + C /\ (C * k + cursor) % C = cursor % C
    BY <1>2, <1>3, RowFacts
  <2>2. cursor % C \in 0 .. C - 1
    BY <1>1, <1>2, DivMod
  <2>3. Place = C * k + cursor
    BY <1>3 DEF Place
  <2> QED
    BY <1>2, <2>1, <2>2, <2>3 DEF Place
<1>7. CASE c \in Letters
  <2>1. Advance(c, cursor) = cursor + 1 /\ Show(screen, c, cursor) = [screen EXCEPT ![cursor] = c]
    BY <1>7, LetterFacts DEF Advance, Show
  <2>2. Written' = {w \in Written : w[1] # Place} \cup {<<Place, c>>}
    <3>1. Content(gone, [screen EXCEPT ![cursor] = c])
            = Overwrite(Content(gone, screen), Len(gone) + cursor, c)
      BY <1>2, <1>7, ShowWrites
    <3> QED
      BY <1>4, <2>1, <3>1 DEF Place, Overwrite
  <2>3. Place' = Place + 1
    BY <1>2, <1>4, <2>1 DEF Place
  <2>4. Sheet!Write(c)
    BY <1>5, <2>2, <2>3 DEF Sheet!Write, Printed, Place
  <2> QED
    BY <1>7, <2>4 DEF Sheet!Next
<1>8. CASE c \notin Letters
  <2>1. Printed' = Printed
    BY <1>4, <1>5, <1>8 DEF Show
  <2>2. CASE c = "cr"
    <3>1. Place' = Place - (Place % C)
      BY <1>4, <1>6, <2>2 DEF Advance
    <3>2. Sheet!Return
      BY <2>1, <3>1 DEF Sheet!Return, Sheet!Move, Printed, Place, C
    <3> QED
      BY <3>2 DEF Sheet!Next
  <2>3. CASE c = "nl"
    <3>1. Place' = Len(gone) + Row(cursor + C)
      BY <1>4, <2>3 DEF Advance, C
    <3>2. Place' = Place - (cursor % C) + C
      <4>1. Len(gone) + Row(cursor + C) = (Len(gone) + Row(cursor)) + C
        BY <1>1, <1>2, <1>6
      <4> QED
        BY <3>1, <4>1, <1>6
    <3>3. Sheet!NewLine
      BY <1>6, <2>1, <3>2 DEF Sheet!NewLine, Sheet!Move, Printed, Place, C
    <3> QED
      BY <3>3 DEF Sheet!Next
  <2>4. CASE c = "tab"
    <3>1. Place' = Len(gone) + (((cursor + 1) \div 8) * 8 + 8)
      BY <1>4, <2>4 DEF Advance
    <3>2. PICK m \in Nat : C = 8 * m
      BY CellsFacts
    <3>3. Len(gone) = 8 * (m * k) /\ m * k \in Nat
      BY <1>3, <3>2
    <3> DEFINE tabs == m * k + ((cursor + 1) \div 8) + 1
    <3>4. tabs \in Nat /\ Place' = 8 * tabs + 0
      BY <1>2, <3>1, <3>3
    <3>5. (8 * tabs + 0) % 8 = 0
      BY <3>4, Unique
    <3>6. Place' \in Place + 1 .. Place + 2 * 8
      BY <1>2, <3>1 DEF Place
    <3>7. Sheet!Tab
      BY <2>1, <3>4, <3>5, <3>6 DEF Sheet!Tab, Sheet!Move, Printed, Place
    <3> QED
      BY <3>7 DEF Sheet!Next
  <2> QED
    BY <1>8, <2>2, <2>3, <2>4 DEF Chars
<1> QED
  BY <1>7, <1>8

(* clear and puts leave the sheet as it is; putc is a step on it.          *)
LEMMA NextRefines ==
  CInv /\ [ConsoleNext]_consoleVars => [Sheet!Next]_<<Printed, Place>>
<1> SUFFICES ASSUME CInv, [ConsoleNext]_consoleVars
             PROVE  Sheet!Next \/ (Printed' = Printed /\ Place' = Place)
  OBVIOUS
<1>1. CASE clear
  <2>1. gone = <<>> /\ gone' = <<>> /\ cursor = 0 /\ cursor' = 0 /\ ~cleared /\ cleared'
    BY <1>1 DEF clear, CInv
  <2>2. \A q \in 0 .. Cells - 1 : screen'[q] = Blank
    BY <1>1 DEF clear
  <2>3. Written' = {}
    BY <2>1, <2>2, BlankEmpty DEF Written, Content
  <2> QED
    BY <2>1, <2>3 DEF Printed, Place
<1>2. CASE puts
  BY <1>2 DEF puts, Printed, Place, Written, Cells
<1>3. CASE PutNext
  <2>1. Head(rest) \in Chars /\ cleared /\ cleared' = cleared /\ putc(Head(rest))
    BY <1>3 DEF PutNext, CInv
  <2> QED
    BY <2>1, PutcRefines
<1>4. CASE UNCHANGED consoleVars
  BY <1>4 DEF consoleVars, Printed, Place, Written, Cells
<1> QED
  BY <1>1, <1>2, <1>3, <1>4 DEF ConsoleNext

(* Before clear, whatever the screen shows, nothing is printed.            *)
LEMMA InitRefines == ConsoleInit => Sheet!Init
BY DEF ConsoleInit, Sheet!Init

(* Whatever is printed, on a screen of any size, the screen is a window on *)
(* the endless sheet of Paper: every character of vga.c's putc is one step *)
(* on the sheet, and the cursor never leaves the screen.                   *)
THEOREM WindowOnPaper == ConsoleSpec => PrintsOnPaper
<1>1. ConsoleInit => CInv
  BY InitCInv
<1>2. CInv /\ [ConsoleNext]_consoleVars => CInv'
  BY NextCInv
<1>3. CInv => cursor \in 0 .. Cells - 1
  BY DEF CInv
<1>4. ConsoleInit => Sheet!Init
  BY InitRefines
<1>5. CInv /\ [ConsoleNext]_consoleVars
        => [Sheet!Next]_<<IF cleared THEN Written ELSE {}, Len(gone) + cursor>>
  BY NextRefines DEF Printed, Place
<1> QED
  BY <1>1, <1>2, <1>3, <1>4, <1>5, PTL DEF ConsoleSpec, PrintsOnPaper, Sheet!Spec
-------------------------------------------------------------------------------
(* A set of naturals that is not empty has a least element.                *)
LEMMA Least ==
  ASSUME NEW S, S \subseteq Nat, S # {}
  PROVE  \E n \in S : \A m \in S : n <= m
<1>1. PICK n \in S : \A m \in Nat : <<m, n>> \in OpToRel(<, Nat) => m \notin S
  BY NatLessThanWellFounded, WFMin
<1>2. \A m \in Nat : m < n => m \notin S
  BY <1>1 DEF OpToRel
<1> QED
  BY <1>2
-------------------------------------------------------------------------------
(* The lengths of the numbers up to n in a base, as number_length counts   *)
(* them.                                                                   *)
Counts(g, n, base) ==
  \A m \in 0 .. n : g[m] = IF m < base THEN 1 ELSE 1 + g[m \div base]

(* Dividing by a base makes a number that has two digits smaller.          *)
LEMMA Shorter ==
  ASSUME NEW m \in Nat, NEW base \in Nat, base >= 2, m >= base
  PROVE  m \div base \in Nat /\ m \div base < m
<1>1. PICK q : q = m \div base
  OBVIOUS
<1>2. q \in Nat /\ m = base * q + (m % base) /\ m % base \in 0 .. base - 1
  BY <1>1
<1>3. ASSUME q >= m PROVE FALSE
  <2>1. base * q >= 2 * q
    BY <1>2
  <2> QED
    BY <1>2, <1>3, <2>1
<1> QED
  BY <1>1, <1>2, <1>3

(* The numbers up to any n have lengths.                                   *)
LEMMA CountsUpTo ==
  ASSUME NEW n \in Nat, NEW base \in Nat, base >= 2
  PROVE  \E g \in [0 .. n -> Nat] : Counts(g, n, base)
<1> DEFINE Bad == {m \in Nat : ~\E g \in [0 .. m -> Nat] : Counts(g, m, base)}
<1>1. SUFFICES ASSUME Bad # {} PROVE FALSE
  OBVIOUS
<1>2. PICK m \in Bad : \A k \in Bad : m <= k
  <2>1. Bad \subseteq Nat
    OBVIOUS
  <2> HIDE DEF Bad
  <2> QED
    BY <1>1, <2>1, Least
<1>3. CASE m = 0
  <2> DEFINE g == [k \in 0 .. 0 |-> 1]
  <2>1. g \in [0 .. 0 -> Nat] /\ Counts(g, 0, base)
    BY DEF Counts
  <2> QED
    BY <1>3, <2>1
<1>4. CASE m # 0
  <2>1. m \in Nat /\ m - 1 \in Nat /\ m - 1 \notin Bad
    BY <1>2, <1>4
  <2>2. PICK f \in [0 .. m - 1 -> Nat] : Counts(f, m - 1, base)
    BY <2>1
  <2> DEFINE last == IF m < base THEN 1 ELSE 1 + f[m \div base]
             g == [k \in 0 .. m |-> IF k = m THEN last ELSE f[k]]
  <2>3. last \in Nat
    <3>1. CASE m < base
      BY <3>1
    <3>2. CASE m >= base
      <4>1. PICK q : q = m \div base
        OBVIOUS
      <4>2. q \in Nat /\ q < m
        BY <2>1, <3>2, <4>1, Shorter
      <4>3. q \in 0 .. m - 1
        BY <2>1, <4>2
      <4>4. f[q] \in Nat
        BY <2>2, <4>3
      <4> QED
        BY <2>1, <3>2, <4>1, <4>4
    <3> QED
      BY <2>1, <3>1, <3>2
  <2>4. g \in [0 .. m -> Nat]
    BY <2>1, <2>2, <2>3
  <2>5. ASSUME NEW k \in 0 .. m PROVE g[k] = IF k < base THEN 1 ELSE 1 + g[k \div base]
    <3>1. k \in Nat /\ k <= m
      BY <2>1
    <3>2. CASE k < base
      <4>1. k # m => f[k] = 1
        BY <2>1, <2>2, <3>1, <3>2 DEF Counts
      <4> QED
        BY <3>2, <4>1
    <3>3. CASE k >= base
      <4>1. PICK q : q = k \div base
        OBVIOUS
      <4>2. q \in Nat /\ q < k
        BY <3>1, <3>3, <4>1, Shorter
      <4>3. q \in 0 .. m /\ q # m
        BY <2>1, <3>1, <4>2
      <4>4. g[q] = f[q]
        BY <4>3
      <4>5. ASSUME k # m PROVE f[k] = 1 + f[q]
        <5>1. k \in 0 .. m - 1 /\ ~(k < base)
          BY <2>1, <3>1, <3>3, <4>5
        <5> QED
          BY <2>2, <4>1, <5>1 DEF Counts
      <4>6. ~(k < base)
        BY <3>1, <3>3
      <4> QED
        BY <4>1, <4>4, <4>5, <4>6
    <3> QED
      BY <3>1, <3>2, <3>3
  <2>6. Counts(g, m, base)
    BY <2>5 DEF Counts
  <2> HIDE DEF g
  <2> QED
    BY <1>2, <2>4, <2>6
<1> QED
  BY <1>3, <1>4

(* A number has one length.                                                *)
LEMMA CountsAgree ==
  ASSUME NEW n \in Nat, NEW p \in Nat, NEW base \in Nat, base >= 2, NEW g, NEW h,
         Counts(g, n, base), Counts(h, p, base), NEW k \in Nat, k <= n, k <= p
  PROVE  g[k] = h[k]
<1> DEFINE Bad == {m \in Nat : m <= n /\ m <= p /\ g[m] # h[m]}
<1>1. SUFFICES ASSUME Bad # {} PROVE FALSE
  OBVIOUS
<1>2. PICK m \in Bad : \A j \in Bad : m <= j
  <2>1. Bad \subseteq Nat
    OBVIOUS
  <2> HIDE DEF Bad
  <2> QED
    BY <1>1, <2>1, Least
<1>3. m \in Nat /\ m \in 0 .. n /\ m \in 0 .. p /\ g[m] # h[m]
  BY <1>2
<1>4. m >= base
  BY <1>3 DEF Counts
<1>5. m \div base \in Nat /\ m \div base < m
  BY <1>3, <1>4, Shorter
<1>6. g[m \div base] = h[m \div base]
  BY <1>2, <1>3, <1>5
<1>7. g[m] = 1 + g[m \div base] /\ h[m] = 1 + h[m \div base]
  BY <1>3, <1>4 DEF Counts
<1> QED
  BY <1>3, <1>6, <1>7

(* number_length counts the digits of any number in any base.              *)
LEMMA NumberLengthType ==
  ASSUME NEW n \in Nat, NEW base \in Nat, base >= 2
  PROVE  number_length(n, base) \in Nat
<1> DEFINE Up(m, g) == g \in [0 .. m -> Nat] /\ Counts(g, m, base)
           Choice(m) == CHOOSE g : Up(m, g)
           Is(g) == g = [m \in Nat |-> IF m < base THEN 1 ELSE 1 + g[m \div base]]
<1>1. ASSUME NEW m \in Nat PROVE Up(m, Choice(m))
  <2>1. \E g : Up(m, g)
    BY CountsUpTo
  <2> QED
    BY <2>1
<1>2. PICK all : all = [m \in Nat |-> Choice(m)[m]]
  OBVIOUS
<1>3. ASSUME NEW m \in Nat PROVE all[m] = IF m < base THEN 1 ELSE 1 + all[m \div base]
  <2>1. PICK g : g = Choice(m)
    OBVIOUS
  <2>2. Counts(g, m, base)
    BY <1>1, <2>1
  <2>3. all[m] = g[m] /\ g[m] = IF m < base THEN 1 ELSE 1 + g[m \div base]
    <3>1. m \in 0 .. m
      OBVIOUS
    <3>2. all[m] = g[m]
      BY <1>2, <2>1
    <3> QED
      BY <2>2, <3>1, <3>2 DEF Counts
  <2>4. ASSUME m >= base PROVE g[m \div base] = all[m \div base]
    <3>1. PICK q : q = m \div base
      OBVIOUS
    <3>2. q \in Nat /\ q <= m /\ q <= q
      BY <2>4, <3>1, Shorter
    <3>3. PICK h : h = Choice(q)
      OBVIOUS
    <3>4. Counts(h, q, base)
      BY <1>1, <3>2, <3>3
    <3> HIDE DEF Up, Choice
    <3>5. g[q] = h[q]
      BY <2>2, <3>2, <3>4, CountsAgree
    <3>6. all[q] = h[q]
      BY <1>2, <3>2, <3>3
    <3> QED
      BY <3>1, <3>5, <3>6
  <2> QED
    BY <2>3, <2>4
<1>4. Is(all)
  <2>1. all = [m \in Nat |-> all[m]]
    BY <1>2
  <2> HIDE DEF Choice
  <2> QED
    BY <1>3, <2>1
<1>5. PICK length : length = CHOOSE g : Is(g)
  OBVIOUS
<1>6. Is(length)
  BY <1>4, <1>5
<1>7. number_length(n, base) = length[n]
  BY <1>5 DEF number_length
<1>8. PICK g \in [0 .. n -> Nat] : Counts(g, n, base)
  BY CountsUpTo
<1>9. Counts(length, n, base)
  <2>1. \A m \in 0 .. n : m \in Nat
    OBVIOUS
  <2> QED
    BY <1>6, <2>1 DEF Counts
<1>10. length[n] = g[n]
  BY <1>8, <1>9, CountsAgree
<1>11. n \in 0 .. n
  OBVIOUS
<1> QED
  BY <1>7, <1>8, <1>10, <1>11
-------------------------------------------------------------------------------
IsSequence(s) == \E T : s \in Seq(T)

(* A sequence of one set is one of a larger set.                           *)
LEMMA Wider ==
  ASSUME NEW S, NEW T, S \subseteq T, NEW s \in Seq(S)
  PROVE  s \in Seq(T)
<1>1. Len(s) \in Nat /\ s \in [1 .. Len(s) -> S]
  OBVIOUS
<1>2. s \in [1 .. Len(s) -> T]
  BY <1>1
<1> QED
  BY <1>1, <1>2

(* Two sequences make one.                                                 *)
LEMMA Joins ==
  ASSUME NEW s, NEW t, IsSequence(s), IsSequence(t)
  PROVE  IsSequence(s \o t)
<1>1. PICK S : s \in Seq(S)
  BY DEF IsSequence
<1>2. PICK T : t \in Seq(T)
  BY DEF IsSequence
<1>3. s \in Seq(S \cup T) /\ t \in Seq(S \cup T)
  BY <1>1, <1>2, Wider
<1>4. s \o t \in Seq(S \cup T)
  BY <1>3
<1> QED
  BY <1>4 DEF IsSequence

(* What is written out is a sequence.                                      *)
LEMMA FewAre == /\ IsSequence(<<>>) /\ \A c : IsSequence(<<c>>)
                /\ \A c, d : IsSequence(<<c, d>>)
<1>1. <<>> \in Seq({}) /\ \A c : <<c>> \in Seq({c})
  OBVIOUS
<1>2. \A c, d : <<c, d>> \in Seq({c, d})
  OBVIOUS
<1> QED
  BY <1>1, <1>2 DEF IsSequence

(* A sequence has a length.                                                *)
LEMMA LengthType ==
  ASSUME NEW s, IsSequence(s)
  PROVE  Len(s) \in Nat
BY DEF IsSequence

(* So is a padding of any length.                                          *)
LEMMA PadIs ==
  ASSUME NEW n \in Nat, NEW c
  PROVE  IsSequence(pad(n, c))
<1>1. PICK s : s = [i \in 1 .. n |-> c]
  OBVIOUS
<1>2. s \in [1 .. n -> {c}]
  BY <1>1
<1>3. s \in Seq({c})
  BY <1>2
<1> QED
  BY <1>1, <1>3 DEF pad, IsSequence

(* A padding is never shorter than nothing.                                *)
LEMMA MissingType ==
  ASSUME NEW item, item.minimum \in Nat, NEW size \in Nat
  PROVE  Missing(item, size) \in Nat
BY DEF Missing

(* print_radical prints a number of any size in any of the bases.          *)
LEMMA DigitsAre ==
  ASSUME NEW n \in Nat, NEW type
  PROVE  IsSequence(print_radical(n, type))
<1>1. Base(type) \in Nat /\ Base(type) >= 2
  BY DEF Base
<1>2. PICK size : size = number_length(n, Base(type))
  OBVIOUS
<1>3. size \in Nat
  BY <1>1, <1>2, NumberLengthType
<1>4. PICK digit : digit = [i \in 1 .. size |->
                      Symbol((n \div Base(type) ^ (size - i)) % Base(type), type)]
  OBVIOUS
<1>5. print_radical(n, type) = digit
  BY <1>2, <1>4 DEF print_radical
<1>6. PICK T : T = {digit[i] : i \in 1 .. size}
  OBVIOUS
<1>7. digit \in [1 .. size -> T]
  BY <1>4, <1>6
<1>8. digit \in Seq(T)
  BY <1>3, <1>7
<1> QED
  BY <1>5, <1>8 DEF IsSequence

(* A number with its prefix and its padding is a sequence.                 *)
LEMMA NumberIs ==
  ASSUME NEW item, item.minimum \in Nat, NEW n \in Nat, NEW prefix, IsSequence(prefix)
  PROVE  IsSequence(print_number(item, n, prefix))
<1>1. PICK digits : digits = print_radical(n, item.type)
  OBVIOUS
<1>2. PICK missing : missing = Missing(item, Len(digits) + Len(prefix))
  OBVIOUS
<1>3. IsSequence(digits)
  BY <1>1, DigitsAre
<1>4. Len(digits) \in Nat /\ Len(prefix) \in Nat
  BY <1>3, LengthType
<1>5. missing \in Nat
  BY <1>2, <1>4, MissingType
<1>6. \A c : IsSequence(pad(missing, c))
  BY <1>5, PadIs
<1>7. print_number(item, n, prefix) =
        IF item.right_pad THEN prefix \o digits \o pad(missing, " ")
        ELSE IF item.zero_pad THEN prefix \o pad(missing, "0") \o digits
        ELSE pad(missing, " ") \o prefix \o digits
  BY <1>1, <1>2, Zenon DEF print_number
<1>8. \A c : /\ IsSequence(prefix \o digits \o pad(missing, c))
             /\ IsSequence(prefix \o pad(missing, c) \o digits)
             /\ IsSequence(pad(missing, c) \o prefix \o digits)
  BY <1>3, <1>6, Joins
<1> QED
  BY <1>7, <1>8, Zenon

(* A string with its padding is one.                                       *)
LEMMA PaddedIs ==
  ASSUME NEW item, NEW chars, IsSequence(chars), NEW missing \in Nat
  PROVE  IsSequence(Padded(item, chars, missing))
<1>1. \A c : IsSequence(chars \o pad(missing, c)) /\ IsSequence(pad(missing, c) \o chars)
  BY PadIs, Joins
<1> QED
  BY <1>1, Zenon DEF Padded

(* So are the prefix of a number and its sign.                             *)
LEMMA PrefixIs ==
  ASSUME NEW item
  PROVE  IsSequence(Prefix(item)) /\ IsSequence(PlusSign(item))
<1>1. IsSequence(PlusSign(item))
  BY FewAre, Zenon DEF PlusSign
<1>2. Prefix(item) \in {<<"0", "x">>, <<"0">>, <<"0", "b">>, <<>>, PlusSign(item)}
  BY DEF Prefix
<1> QED
  BY <1>1, <1>2, FewAre

(* Whatever is printed of an item is a sequence of characters.             *)
LEMMA RenderedIs ==
  ASSUME NEW item, IsItem(item)
  PROVE  IsSequence(Rendered(item))
<1>1. CASE item.type = "char"
  <2>1. Rendered(item) = <<item.arg>>
    BY <1>1 DEF Rendered
  <2> QED
    BY <2>1, FewAre
<1>2. CASE item.type = "c"
  <2>1. item.minimum \in Nat
    BY <1>2 DEF IsItem
  <2>2. Missing(item, 1) \in Nat
    BY <2>1, MissingType
  <2>3. Rendered(item) = Padded(item, <<item.arg>>, Missing(item, 1))
    BY <1>2 DEF Rendered
  <2> QED
    BY <2>2, <2>3, FewAre, PaddedIs
<1>3. CASE item.type = "s"
  <2>1. item.arg \in Seq(STRING) /\ item.minimum \in Nat /\ Len(item.arg) \in Nat
    BY <1>3 DEF IsItem
  <2>2. PICK missing : missing = IF item.minimum > Len(item.arg) THEN item.minimum - Len(item.arg)
                                 ELSE IF Len(item.arg) = 0 /\ item.positive_blank THEN 1 ELSE 0
    OBVIOUS
  <2>3. missing \in Nat
    BY <2>1, <2>2
  <2>4. IsSequence(item.arg)
    BY <2>1 DEF IsSequence
  <2>5. Rendered(item) = Padded(item, item.arg, missing)
    <3>1. print_string(item) = Padded(item, item.arg, missing)
      BY <2>2 DEF print_string
    <3> QED
      BY <1>3, <3>1 DEF Rendered
  <2> QED
    BY <2>3, <2>4, <2>5, PaddedIs
<1>4. CASE item.type \in {"d", "i"}
  <2>1. item.arg \in Int /\ item.minimum \in Nat
    BY <1>4 DEF IsItem
  <2>2. Rendered(item) = print_signed(item)
    BY <1>4 DEF Rendered
  <2>3. CASE item.arg < 0
    <3>1. -item.arg \in Nat
      BY <2>1, <2>3
    <3>2. print_signed(item) = print_number(item, -item.arg, <<"-">>)
      BY <2>3 DEF print_signed
    <3>3. IsSequence(<<"-">>)
      BY FewAre
    <3> QED
      BY <2>1, <2>2, <3>1, <3>2, <3>3, NumberIs
  <2>4. CASE ~(item.arg < 0)
    <3>1. item.arg \in Nat
      BY <2>1, <2>4
    <3>2. print_signed(item) = print_number(item, item.arg, PlusSign(item))
      BY <2>4 DEF print_signed
    <3> QED
      BY <2>1, <2>2, <3>1, <3>2, NumberIs, PrefixIs
  <2> QED
    BY <2>3, <2>4
<1>5. CASE item.type \notin {"char", "c", "s", "d", "i"}
  <2>1. item.arg \in Int /\ item.minimum \in Nat
    BY <1>5 DEF IsItem
  <2>2. PICK d : d = 2 ^ Bits(item)
    OBVIOUS
  <2>3. d \in Nat \ {0}
    BY <2>2, PrintkAssumption DEF Bits
  <2>4. item.arg % d \in Nat
    BY <2>1, <2>3
  <2>5. print_unsigned(item) = print_number(item, item.arg % d, Prefix(item))
    BY <2>2 DEF print_unsigned
  <2>6. Rendered(item) = print_unsigned(item)
    BY <1>5 DEF Rendered
  <2> QED
    BY <2>1, <2>4, <2>5, <2>6, NumberIs, PrefixIs
<1> QED
  BY <1>1, <1>2, <1>3, <1>4, <1>5
-------------------------------------------------------------------------------
(* What two sequences make.                                                *)
LEMMA JoinFacts ==
  ASSUME NEW T, NEW p \in Seq(T), NEW q \in Seq(T)
  PROVE  /\ p \o q \in Seq(T) /\ Len(p \o q) = Len(p) + Len(q)
         /\ Len(p) \in Nat /\ Len(q) \in Nat
         /\ \A i \in 1 .. Len(p) : (p \o q)[i] = p[i]
         /\ \A i \in 1 .. Len(q) : (p \o q)[Len(p) + i] = q[i]
         /\ <<>> \in Seq(T) /\ <<>> \o q = q /\ Len(<<>>) = 0
OBVIOUS

(* out[k] is what the first k of the sequences s make together, up to m.   *)
Joined(out, m, s, T) ==
  /\ \A k \in 0 .. m : out[k] \in Seq(T)
  /\ out[0] = <<>> /\ \A i \in 1 .. m : out[i] = out[i - 1] \o s[i]

(* There is such an out.                                                   *)
LEMMA JoinedExists ==
  ASSUME NEW T, NEW s, NEW n \in Nat, \A i \in 1 .. n : s[i] \in Seq(T)
  PROVE  \E out : Joined(out, n, s, T)
<1> DEFINE Bad == {m \in Nat : m <= n /\ ~\E g : Joined(g, m, s, T)}
<1>1. SUFFICES ASSUME Bad # {} PROVE FALSE
  OBVIOUS
<1>2. PICK m \in Bad : \A k \in Bad : m <= k
  <2>1. Bad \subseteq Nat
    OBVIOUS
  <2> HIDE DEF Bad
  <2> QED
    BY <1>1, <2>1, Least
<1>3. m \in Nat /\ m <= n /\ ~\E g : Joined(g, m, s, T)
  BY <1>2
<1>4. CASE m = 0
  <2>1. PICK g : g = [k \in {0} |-> <<>>]
    OBVIOUS
  <2>2. <<>> \in Seq(T)
    OBVIOUS
  <2>3. Joined(g, 0, s, T)
    BY <2>1, <2>2 DEF Joined
  <2> QED
    BY <1>3, <1>4, <2>3
<1>5. CASE m # 0
  <2>1. m - 1 \in Nat /\ m - 1 <= n /\ ~(m <= m - 1) /\ m \in 1 .. n
    BY <1>3, <1>5
  <2>2. m - 1 \notin Bad
    BY <1>2, <2>1
  <2>3. PICK f : Joined(f, m - 1, s, T)
    BY <2>1, <2>2
  <2>4. PICK last : last = f[m - 1] \o s[m]
    OBVIOUS
  <2>5. m - 1 \in 0 .. m - 1
    BY <2>1
  <2>6. f[m - 1] \in Seq(T) /\ s[m] \in Seq(T) /\ last \in Seq(T)
    BY <2>1, <2>3, <2>4, <2>5, JoinFacts DEF Joined
  <2>7. PICK g : g = [k \in 0 .. m |-> IF k = m THEN last ELSE f[k]]
    OBVIOUS
  <2>8. g[m] = last /\ \A k \in 0 .. m - 1 : g[k] = f[k] /\ f[k] \in Seq(T)
    <3>1. \A k \in 0 .. m - 1 : k \in 0 .. m /\ k # m
      BY <2>1
    <3>2. m \in 0 .. m
      BY <2>1
    <3> QED
      BY <2>3, <2>7, <3>1, <3>2 DEF Joined
  <2>9. \A k \in 0 .. m : k = m \/ k \in 0 .. m - 1
    BY <2>1
  <2>10. \A i \in 1 .. m : i - 1 \in 0 .. m - 1 /\ (i = m \/ (i \in 1 .. m - 1 /\ i \in 0 .. m - 1))
    BY <2>1
  <2>11. \A i \in 1 .. m - 1 : f[i] = f[i - 1] \o s[i]
    BY <2>3 DEF Joined
  <2>12. 0 \in 0 .. m - 1 /\ f[0] = <<>>
    BY <2>1, <2>3 DEF Joined
  <2>13. \A i \in 1 .. m : g[i] = g[i - 1] \o s[i]
    <3>1. ASSUME NEW i \in 1 .. m PROVE g[i] = g[i - 1] \o s[i]
      <4>1. g[i - 1] = f[i - 1]
        BY <2>8, <2>10
      <4>2. CASE i = m
        BY <2>4, <2>8, <4>1, <4>2
      <4>3. CASE i \in 1 .. m - 1 /\ i \in 0 .. m - 1
        BY <2>8, <2>11, <4>1, <4>3
      <4> QED
        BY <2>10, <4>2, <4>3
    <3> QED
      BY <3>1
  <2>14. \A k \in 0 .. m : g[k] \in Seq(T)
    BY <2>6, <2>8, <2>9
  <2>15. Joined(g, m, s, T)
    BY <2>8, <2>12, <2>13, <2>14 DEF Joined
  <2> QED
    BY <1>3, <2>15
<1> QED
  BY <1>4, <1>5

(* FlattenSeq makes all of them.                                           *)
LEMMA Flattened ==
  ASSUME NEW T, NEW S, NEW s \in Seq(S), NEW n, n = Len(s), \A i \in 1 .. n : s[i] \in Seq(T),
         NEW out, Joined(out, n, s, T)
  PROVE  FlattenSeq(s) = out[n]
<1>1. n \in Nat
  OBVIOUS
<1>2. CASE n = 0
  <2>1. s = <<>>
    BY <1>2, EmptySeq
  <2>2. FlattenSeq(s) = s
    BY <1>2 DEF FlattenSeq
  <2>3. out[0] = <<>>
    BY DEF Joined
  <2> QED
    BY <1>2, <2>1, <2>2, <2>3
<1>3. CASE n # 0
  <2> DEFINE Is(g) == g = [i \in 1 .. n |-> IF i = 1 THEN s[i] ELSE g[i - 1] \o s[i]]
  <2>1. \A i \in 1 .. n : out[i] = IF i = 1 THEN s[i] ELSE out[i - 1] \o s[i]
    <3>1. \A i \in 1 .. n : out[i] = out[i - 1] \o s[i]
      BY DEF Joined
    <3>2. 1 \in 1 .. n /\ out[1 - 1] = <<>> /\ 1 - 1 = 0
      BY <1>1, <1>3 DEF Joined
    <3>3. PICK first : first = s[1]
      OBVIOUS
    <3>4. first \in Seq(T)
      BY <3>2, <3>3
    <3>5. out[1] = <<>> \o first
      BY <3>1, <3>2, <3>3
    <3>6. out[1] = first
      BY <3>4, <3>5, JoinFacts
    <3> QED
      BY <3>1, <3>3, <3>6
  <2>2. PICK g : g = [i \in 1 .. n |-> out[i]]
    OBVIOUS
  <2>3. Is(g)
    <3>1. ASSUME NEW i \in 1 .. n PROVE g[i] = IF i = 1 THEN s[i] ELSE g[i - 1] \o s[i]
      <4>1. i # 1 => i - 1 \in 1 .. n
        BY <1>1
      <4>2. i # 1 => g[i - 1] = out[i - 1]
        BY <2>2, <4>1
      <4> QED
        BY <2>1, <2>2, <4>2
    <3>2. g = [i \in 1 .. n |-> g[i]]
      BY <2>2
    <3> QED
      BY <3>1, <3>2
  <2>4. PICK flatten : flatten = CHOOSE h : Is(h)
    OBVIOUS
  <2>5. Is(flatten)
    BY <2>3, <2>4
  <2>6. FlattenSeq(s) = flatten[n]
    BY <1>1, <1>3, <2>4 DEF FlattenSeq
  <2>7. \A i \in 1 .. n : flatten[i] = IF i = 1 THEN s[i] ELSE flatten[i - 1] \o s[i]
    BY <2>5
  <2> DEFINE Bad == {i \in 1 .. n : flatten[i] # out[i]}
  <2>8. Bad = {}
    <3>1. SUFFICES ASSUME Bad # {} PROVE FALSE
      OBVIOUS
    <3>2. PICK i \in Bad : \A j \in Bad : i <= j
      <4>1. Bad \subseteq Nat
        OBVIOUS
      <4> HIDE DEF Bad
      <4> QED
        BY <3>1, <4>1, Least
    <3>3. i \in 1 .. n /\ flatten[i] # out[i]
      BY <3>2
    <3>4. i # 1
      BY <2>1, <2>7, <3>3
    <3>5. i - 1 \in 1 .. n /\ ~(i <= i - 1)
      BY <1>1, <3>3, <3>4
    <3>6. flatten[i - 1] = out[i - 1]
      BY <3>2, <3>5
    <3> QED
      BY <2>1, <2>7, <3>3, <3>4, <3>6
  <2>9. n \in 1 .. n
    BY <1>1, <1>3
  <2> QED
    BY <2>6, <2>8, <2>9
<1> QED
  BY <1>2, <1>3

Begins(p, q) == Len(p) <= Len(q) /\ \A i \in 1 .. Len(p) : p[i] = q[i]

(* The beginning of a beginning is one.                                    *)
LEMMA BeginsTrans ==
  ASSUME NEW T, NEW p \in Seq(T), NEW q \in Seq(T), NEW r \in Seq(T), Begins(p, q), Begins(q, r)
  PROVE  Begins(p, r)
<1>1. Len(p) \in Nat /\ Len(q) \in Nat /\ Len(r) \in Nat
  OBVIOUS
<1> QED
  BY <1>1 DEF Begins

(* Joining more changes nothing of the beginning.                          *)
LEMMA JoinedBegins ==
  ASSUME NEW T, NEW s, NEW n \in Nat, \A i \in 1 .. n : s[i] \in Seq(T),
         NEW out, Joined(out, n, s, T), NEW k \in 0 .. n
  PROVE  Begins(out[k], out[n])
<1> DEFINE Bad == {m \in k .. n : ~Begins(out[k], out[m])}
<1>1. n \in k .. n /\ k \in Nat
  OBVIOUS
<1>2. SUFFICES ASSUME Bad # {} PROVE FALSE
  BY <1>1
<1>3. PICK m \in Bad : \A j \in Bad : m <= j
  <2>1. Bad \subseteq Nat
    BY <1>1
  <2> HIDE DEF Bad
  <2> QED
    BY <1>2, <2>1, Least
<1>4. m \in k .. n /\ ~Begins(out[k], out[m])
  BY <1>3
<1>5. PICK p : p = out[k]
  OBVIOUS
<1>6. p \in Seq(T)
  BY <1>5 DEF Joined
<1>7. Begins(p, p)
  <2>1. Len(p) \in Nat
    BY <1>6
  <2> QED
    BY <2>1 DEF Begins
<1>8. m # k
  BY <1>4, <1>5, <1>7
<1>9. m - 1 \in k .. n /\ ~(m <= m - 1) /\ m \in 1 .. n /\ m - 1 \in 0 .. n /\ m \in 0 .. n
  BY <1>1, <1>4, <1>8
<1>10. Begins(p, out[m - 1])
  BY <1>3, <1>5, <1>9
<1>11. PICK q, r, t : q = out[m - 1] /\ r = out[m] /\ t = s[m]
  OBVIOUS
<1>12. q \in Seq(T) /\ r \in Seq(T) /\ t \in Seq(T) /\ r = q \o t
  BY <1>9, <1>11 DEF Joined
<1>13. Begins(q, r)
  BY <1>12, JoinFacts DEF Begins
<1>14. Begins(p, r)
  BY <1>6, <1>10, <1>11, <1>12, <1>13, BeginsTrans
<1> QED
  BY <1>4, <1>5, <1>11, <1>14
-------------------------------------------------------------------------------
Parts == [i \in 1 .. Len(format) |-> Rendered(format[i])]

(* out[k] is what the first k items of the format print.                   *)
Prints(out, T) ==
  /\ \A i \in 1 .. Len(format) : Parts[i] \in Seq(T)
  /\ Joined(out, Len(format), Parts, T)

(* k items are begun; what was given to print_one and what the buffer has  *)
(* make the beginning of what is printed, until the handler refuses.       *)
Printing(out, T, k) ==
  /\ k \in 0 .. Len(format)
  /\ todo \in Seq({format[i] : i \in DOMAIN format}) /\ Len(todo) = Len(format) - k
  /\ \A i \in 1 .. Len(todo) : todo[i] = format[k + i]
  /\ given \in Seq(T) /\ buffer \in Seq(T) /\ Len(buffer) = done /\ done <= len
  /\ done <= Len(out[Len(format)])
  /\ \A i \in 1 .. done : buffer[i] = out[Len(format)][i]
  /\ ~stop => /\ done + Len(given) = Len(out[k])
              /\ \A i \in 1 .. Len(given) : given[i] = out[k][done + i]
  /\ stop => done = len /\ len < Len(out[Len(format)])

PrintkInv ==
  /\ format \in Formats /\ len \in Nat /\ stop \in BOOLEAN
  /\ \E out, T, k : Prints(out, T) /\ Printing(out, T, k)

(* A format has a length, and items.                                       *)
LEMMA FormatIs ==
  ASSUME format \in Formats
  PROVE  /\ Len(format) \in Nat /\ format \in Seq({format[i] : i \in DOMAIN format})
         /\ \A i \in 1 .. Len(format) : IsItem(format[i])
<1>1. PICK S : S = {format[i] : i \in DOMAIN format}
  OBVIOUS
<1>2. format \in Seq(S)
  BY <1>1, PrintkAssumption
<1>3. Len(format) \in Nat
  BY <1>2
<1> QED
  BY <1>1, <1>2, <1>3, PrintkAssumption

(* A format prints something.                                              *)
LEMMA FormatPrints ==
  ASSUME format \in Formats
  PROVE  \E out, T : Prints(out, T)
<1>1. PICK n : n = Len(format)
  OBVIOUS
<1>2. n \in Nat
  BY <1>1, FormatIs
<1> DEFINE Of(i) == CHOOSE T : Parts[i] \in Seq(T)
<1>3. ASSUME NEW i \in 1 .. n PROVE Parts[i] \in Seq(Of(i))
  <2>1. IsItem(format[i])
    BY <1>1, <1>3, FormatIs
  <2>2. Parts[i] = Rendered(format[i])
    BY <1>1, <1>3 DEF Parts
  <2>3. \E T : Parts[i] \in Seq(T)
    BY <2>1, <2>2, RenderedIs DEF IsSequence
  <2> QED
    BY <2>3
<1>4. PICK T : T = UNION {Of(i) : i \in 1 .. n}
  OBVIOUS
<1>5. ASSUME NEW i \in 1 .. n PROVE Parts[i] \in Seq(T)
  <2>1. Of(i) \subseteq T
    BY <1>4
  <2> HIDE DEF Of
  <2> QED
    BY <1>3, <2>1, Wider
<1>6. PICK out : Joined(out, n, Parts, T)
  BY <1>2, <1>5, JoinedExists
<1> QED
  BY <1>1, <1>5, <1>6 DEF Prints

(* What its first items print is the beginning of all, which is the        *)
(* sequence of BoundedPrint.                                               *)
LEMMA PrintsFacts ==
  ASSUME NEW out, NEW T, Prints(out, T), format \in Formats, NEW k \in 0 .. Len(format)
  PROVE  /\ out[k] \in Seq(T) /\ out[Len(format)] \in Seq(T) /\ out[0] = <<>>
         /\ Begins(out[k], out[Len(format)])
         /\ FlattenSeq(Parts) = out[Len(format)]
         /\ k > 0 => Rendered(format[k]) \in Seq(T) /\ out[k] = out[k - 1] \o Rendered(format[k])
<1>1. PICK n : n = Len(format)
  OBVIOUS
<1>2. n \in Nat /\ n \in 0 .. n /\ k \in 0 .. n /\ 0 \in 0 .. n
  BY <1>1, FormatIs
<1>3. Joined(out, n, Parts, T) /\ \A i \in 1 .. n : Parts[i] \in Seq(T)
  BY <1>1 DEF Prints
<1>4. out[k] \in Seq(T) /\ out[n] \in Seq(T) /\ out[0] = <<>>
  BY <1>2, <1>3 DEF Joined
<1>5. Begins(out[k], out[n])
  BY <1>2, <1>3, JoinedBegins
<1>6. FlattenSeq(Parts) = out[n]
  <2>1. PICK S : S = {Parts[i] : i \in 1 .. n}
    OBVIOUS
  <2>2. Parts \in [1 .. n -> S]
    BY <1>1, <2>1 DEF Parts
  <2>3. Parts \in Seq(S) /\ n = Len(Parts)
    BY <1>2, <2>2
  <2> QED
    BY <1>3, <2>3, Flattened
<1>7. ASSUME k > 0
      PROVE  Rendered(format[k]) \in Seq(T) /\ out[k] = out[k - 1] \o Rendered(format[k])
  <2>1. k \in 1 .. n
    BY <1>2, <1>7
  <2>2. Parts[k] = Rendered(format[k])
    BY <1>1, <2>1 DEF Parts
  <2>3. Parts[k] \in Seq(T)
    BY <1>3, <2>1
  <2>4. out[k] = out[k - 1] \o Parts[k]
    BY <1>3, <2>1 DEF Joined
  <2> QED
    BY <2>2, <2>3, <2>4
<1> QED
  BY <1>1, <1>4, <1>5, <1>6, <1>7
-------------------------------------------------------------------------------
(* At first nothing is given.                                              *)
LEMMA PrintkBegins == ASSUME PrintkInit PROVE PrintkInv
<1>1. /\ format \in Formats /\ todo = format /\ len \in Sizes
      /\ given = <<>> /\ done = 0 /\ stop = FALSE /\ buffer = <<>>
  BY DEF PrintkInit
<1>2. PICK out, T : Prints(out, T)
  BY <1>1, FormatPrints
<1>3. Len(format) \in Nat /\ 0 \in 0 .. Len(format)
  BY <1>1, FormatIs
<1>4. out[0] = <<>> /\ out[Len(format)] \in Seq(T)
  BY <1>1, <1>2, <1>3, PrintsFacts
<1>5. len \in Nat
  BY <1>1, PrintkAssumption
<1>6. todo \in Seq({format[i] : i \in DOMAIN format}) /\ Len(todo) = Len(format) - 0
  BY <1>1, <1>3, FormatIs
<1>7. \A i \in 1 .. Len(todo) : todo[i] = format[0 + i]
  BY <1>1, <1>3
<1>8. given \in Seq(T) /\ buffer \in Seq(T) /\ Len(buffer) = 0 /\ Len(given) = 0
  BY <1>1
<1>9. Len(out[Len(format)]) \in Nat /\ Len(out[0]) = 0
  BY <1>4
<1>10. Printing(out, T, 0)
  BY <1>1, <1>3, <1>5, <1>6, <1>7, <1>8, <1>9 DEF Printing
<1> QED
  BY <1>1, <1>2, <1>5, <1>10 DEF PrintkInv

(* The next item is given when all of the one before was printed.          *)
LEMMA NextItemKeeps ==
  ASSUME NEW out, NEW T, NEW k, format \in Formats, Prints(out, T), Printing(out, T, k), NextItem
  PROVE  Printing(out, T, k + 1)'
<1>1. /\ given = <<>> /\ todo # <<>> /\ ~stop /\ given' = Rendered(Head(todo)) /\ todo' = Tail(todo)
      /\ done' = done /\ stop' = stop /\ buffer' = buffer /\ len' = len /\ format' = format
  BY DEF NextItem
<1>2. PICK n, S : n = Len(format) /\ S = {format[i] : i \in DOMAIN format}
  OBVIOUS
<1>3. n \in Nat
  BY <1>2, FormatIs
<1>4. /\ k \in 0 .. n /\ todo \in Seq(S) /\ Len(todo) = n - k
      /\ \A i \in 1 .. Len(todo) : todo[i] = format[k + i]
      /\ buffer \in Seq(T) /\ Len(buffer) = done /\ done <= len
      /\ done <= Len(out[n]) /\ \A i \in 1 .. done : buffer[i] = out[n][i]
      /\ done + Len(given) = Len(out[k])
  BY <1>1, <1>2 DEF Printing
<1>5. Len(todo) # 0 /\ Tail(todo) \in Seq(S) /\ Len(Tail(todo)) = Len(todo) - 1
      /\ \A i \in 1 .. Len(Tail(todo)) : Tail(todo)[i] = todo[i + 1]
  BY <1>1, <1>4, EmptySeq, HeadTailProperties
<1>6. k + 1 \in 0 .. n /\ k + 1 > 0 /\ (k + 1) - 1 = k /\ 1 \in 1 .. Len(todo)
  BY <1>3, <1>4, <1>5
<1>7. Head(todo) = format[k + 1]
  <2>1. Head(todo) = todo[1]
    BY <1>4
  <2> QED
    BY <1>4, <1>6, <2>1
<1>8. PICK p, q, r : p = out[k] /\ q = out[k + 1] /\ r = Rendered(format[k + 1])
  OBVIOUS
<1>9. q \in Seq(T) /\ r \in Seq(T) /\ q = p \o r
  BY <1>2, <1>6, <1>8, PrintsFacts
<1>10. p \in Seq(T)
  BY <1>2, <1>4, <1>8, PrintsFacts
<1>11. Len(q) = Len(p) + Len(r) /\ \A i \in 1 .. Len(r) : q[Len(p) + i] = r[i]
  BY <1>9, <1>10, JoinFacts
<1>12. Len(p) = done
  <2>1. Len(given) = 0
    BY <1>1
  <2>2. Len(p) \in Nat /\ done \in Nat
    BY <1>4, <1>10
  <2> QED
    BY <1>4, <1>8, <2>1, <2>2
<1>13. given' = r
  BY <1>1, <1>7, <1>8
<1>14. todo' \in Seq(S) /\ Len(todo') = n - (k + 1)
  BY <1>1, <1>3, <1>4, <1>5
<1>15. \A i \in 1 .. Len(todo') : todo'[i] = format[(k + 1) + i]
  <2>1. ASSUME NEW i \in 1 .. Len(todo') PROVE todo'[i] = format[(k + 1) + i]
    <3>1. i \in 1 .. Len(Tail(todo)) /\ i + 1 \in 1 .. Len(todo) /\ k + (i + 1) = (k + 1) + i
      BY <1>1, <1>3, <1>4, <1>5
    <3> QED
      BY <1>1, <1>4, <1>5, <3>1
  <2> QED
    BY <2>1
<1>16. done' + Len(given') = Len(q) /\ \A i \in 1 .. Len(given') : given'[i] = q[done' + i]
  BY <1>1, <1>11, <1>12, <1>13
<1>17. \A i \in 1 .. done' : buffer'[i] = out[n][i]
  BY <1>1, <1>4
<1>18. n = Len(format') /\ S = {format'[i] : i \in DOMAIN format'}
  BY <1>1, <1>2
<1>19. \A i \in 1 .. Len(todo') : todo'[i] = format'[(k + 1) + i]
  BY <1>1, <1>15
<1>20. /\ given' \in Seq(T) /\ buffer' \in Seq(T) /\ Len(buffer') = done' /\ done' <= len'
       /\ done' <= Len(out[n]) /\ stop' = FALSE
  BY <1>1, <1>4, <1>9, <1>13
<1> QED
  BY <1>6, <1>8, <1>14, <1>16, <1>17, <1>18, <1>19, <1>20, Zenon DEF Printing

(* A character goes to the buffer while it has room.                       *)
LEMMA PrintOneKeeps ==
  ASSUME NEW out, NEW T, NEW k, format \in Formats, len \in Nat, stop \in BOOLEAN,
         Prints(out, T), Printing(out, T, k), PrintOne
  PROVE  Printing(out, T, k)' /\ stop' \in BOOLEAN
<1>1. /\ given # <<>> /\ given' = Tail(given) /\ todo' = todo /\ len' = len /\ format' = format
      /\ \/ ~stop /\ Room /\ buffer' = Append(buffer, Head(given)) /\ done' = done + 1 /\ stop' = stop
         \/ ~(~stop /\ Room) /\ stop' = TRUE /\ buffer' = buffer /\ done' = done
  BY DEF PrintOne
<1>2. PICK n, S : n = Len(format) /\ S = {format[i] : i \in DOMAIN format}
  OBVIOUS
<1>3. n \in Nat
  BY <1>2, FormatIs
<1>4. /\ k \in 0 .. n /\ todo \in Seq(S) /\ Len(todo) = n - k
      /\ \A i \in 1 .. Len(todo) : todo[i] = format[k + i]
      /\ given \in Seq(T) /\ buffer \in Seq(T) /\ Len(buffer) = done /\ done <= len
      /\ done <= Len(out[n]) /\ \A i \in 1 .. done : buffer[i] = out[n][i]
      /\ ~stop => /\ done + Len(given) = Len(out[k])
                  /\ \A i \in 1 .. Len(given) : given[i] = out[k][done + i]
      /\ stop => done = len /\ len < Len(out[n])
  BY <1>2 DEF Printing
<1>5. PICK p, whole, g : p = out[k] /\ whole = out[n] /\ g = Tail(given)
  OBVIOUS
<1>6. p \in Seq(T) /\ whole \in Seq(T) /\ Begins(p, whole)
  BY <1>2, <1>4, <1>5, PrintsFacts
<1>7. /\ Len(given) \in Nat \ {0} /\ Head(given) = given[1] /\ Head(given) \in T
      /\ g \in Seq(T) /\ Len(g) = Len(given) - 1 /\ \A i \in 1 .. Len(g) : g[i] = given[i + 1]
  <2>1. Head(given) = given[1]
    BY <1>4
  <2> QED
    BY <1>1, <1>4, <1>5, <2>1, EmptySeq, HeadTailProperties
<1>8. done \in Nat /\ Len(p) \in Nat /\ Len(whole) \in Nat
  BY <1>4, <1>6
<1>9. /\ Len(todo') = n - k /\ \A i \in 1 .. Len(todo') : todo'[i] = format[k + i]
      /\ todo' \in Seq(S) /\ given' = g
  BY <1>1, <1>4, <1>5
<1>10. /\ n = Len(format') /\ S = {format'[i] : i \in DOMAIN format'}
       /\ \A i \in 1 .. Len(todo') : todo'[i] = format'[k + i]
  BY <1>1, <1>2, <1>9
<1>11. CASE ~stop /\ Room
  <2>1. buffer' = Append(buffer, Head(given)) /\ done' = done + 1 /\ stop' = stop
    BY <1>1, <1>11
  <2>2. done < len /\ done + 1 <= len
    BY <1>8, <1>11 DEF Room
  <2>3. done + Len(given) = Len(p) /\ \A i \in 1 .. Len(given) : given[i] = p[done + i]
    BY <1>4, <1>5, <1>11
  <2>4. done + 1 <= Len(p) /\ Len(p) <= Len(whole) /\ done + 1 \in 1 .. Len(p)
    BY <1>6, <1>7, <1>8, <2>3 DEF Begins
  <2>5. Head(given) = whole[done + 1]
    <3>1. 1 \in 1 .. Len(given)
      BY <1>7
    <3> QED
      BY <1>6, <1>7, <2>3, <2>4, <3>1 DEF Begins
  <2>6. buffer' \in Seq(T) /\ Len(buffer') = done'
    BY <1>4, <1>7, <2>1
  <2>7. \A i \in 1 .. done' : buffer'[i] = whole[i]
    <3>1. ASSUME NEW i \in 1 .. done' PROVE buffer'[i] = whole[i]
      <4>1. i = done + 1 \/ i \in 1 .. done
        BY <1>8, <2>1
      <4>2. buffer'[done + 1] = Head(given) /\ \A j \in 1 .. done : buffer'[j] = buffer[j]
        BY <1>4, <1>7, <1>8, <2>1
      <4> QED
        BY <1>4, <1>5, <2>5, <4>1, <4>2
    <3> QED
      BY <3>1
  <2>8. done' + Len(g) = Len(p)
    <3>1. PICK a, b : a = Len(given) /\ b = Len(g)
      OBVIOUS
    <3>2. a \in Nat /\ b = a - 1 /\ done + a = Len(p)
      BY <1>7, <2>3, <3>1
    <3>3. (done + 1) + b = Len(p)
      BY <1>8, <3>2
    <3> QED
      BY <2>1, <3>1, <3>3
  <2>9. \A i \in 1 .. Len(g) : g[i] = p[done' + i]
    <3>1. ASSUME NEW i \in 1 .. Len(g) PROVE g[i] = p[done' + i]
      <4>1. i + 1 \in 1 .. Len(given) /\ done + (i + 1) = done' + i
        BY <1>7, <1>8, <2>1
      <4> QED
        BY <1>7, <2>3, <4>1
    <3> QED
      BY <3>1
  <2>10. done' <= len' /\ done' <= Len(whole) /\ stop' = FALSE
    BY <1>1, <1>8, <1>11, <2>1, <2>2, <2>4
  <2> QED
    BY <1>4, <1>5, <1>7, <1>9, <1>10, <2>6, <2>7, <2>8, <2>9, <2>10, Zenon DEF Printing
<1>12. CASE ~(~stop /\ Room)
  <2>1. stop' = TRUE /\ buffer' = buffer /\ done' = done
    BY <1>1, <1>12
  <2>2. done = len /\ len < Len(whole)
    <3>1. CASE stop
      BY <1>4, <1>5, <3>1
    <3>2. CASE ~stop
      <4>1. done = len
        BY <1>4, <1>8, <1>12, <3>2 DEF Room
      <4>2. done + Len(given) = Len(p)
        BY <1>4, <1>5, <3>2
      <4> QED
        BY <1>6, <1>7, <1>8, <4>1, <4>2 DEF Begins
    <3> QED
      BY <3>1, <3>2
  <2>3. /\ buffer' \in Seq(T) /\ Len(buffer') = done' /\ done' <= len' /\ done' <= Len(whole)
        /\ \A i \in 1 .. done' : buffer'[i] = whole[i]
    BY <1>1, <1>4, <1>5, <2>1
  <2> QED
    BY <1>1, <1>4, <1>5, <1>7, <1>9, <1>10, <2>1, <2>2, <2>3, Zenon DEF Printing
<1> QED
  BY <1>11, <1>12

(* Every step of vhprintk and of its handler keeps the invariant.          *)
LEMMA PrintkKeeps == ASSUME PrintkInv, [PrintkNext]_printkVars PROVE PrintkInv'
<1>1. PICK out, T, k : Prints(out, T) /\ Printing(out, T, k)
  BY DEF PrintkInv
<1>2. format \in Formats /\ len \in Nat /\ stop \in BOOLEAN
  BY DEF PrintkInv
<1>3. ASSUME format' = format PROVE Prints(out, T)'
  BY <1>1, <1>3 DEF Prints, Parts, Joined
<1>4. CASE NextItem
  <2>1. format' = format /\ len' = len /\ stop' = stop
    BY <1>4 DEF NextItem
  <2>2. Printing(out, T, k + 1)'
    BY <1>1, <1>2, <1>4, NextItemKeeps
  <2> QED
    BY <1>2, <1>3, <2>1, <2>2 DEF PrintkInv
<1>5. CASE PrintOne
  <2>1. format' = format /\ len' = len
    BY <1>5 DEF PrintOne
  <2>2. Printing(out, T, k)' /\ stop' \in BOOLEAN
    BY <1>1, <1>2, <1>5, PrintOneKeeps
  <2> QED
    BY <1>2, <1>3, <2>1, <2>2 DEF PrintkInv
<1>6. CASE UNCHANGED printkVars
  <2>1. /\ format' = format /\ len' = len /\ stop' = stop /\ todo' = todo
        /\ given' = given /\ done' = done /\ buffer' = buffer
    BY <1>6 DEF printkVars
  <2>2. Printing(out, T, k)'
    BY <1>1, <2>1 DEF Printing
  <2> QED
    BY <1>2, <1>3, <2>1, <2>2 DEF PrintkInv
<1> QED
  BY <1>4, <1>5, <1>6 DEF PrintkNext

(* For every format, argument, width of an int and size of the buffer: the *)
(* buffer of snprintk has the beginning of what is printed, no character   *)
(* after its end, and the count is that of the characters stored, less     *)
(* than all only when the buffer is full (printk.c:14-25, 120-130).        *)
THEOREM PrintStaysInBuffer == PrintkSpec => []BoundedPrint
<1>1. ASSUME PrintkInv PROVE BoundedPrint
  <2>1. PICK out, T, k : Prints(out, T) /\ Printing(out, T, k)
    BY <1>1 DEF PrintkInv
  <2>2. format \in Formats /\ len \in Nat /\ stop \in BOOLEAN
    BY <1>1 DEF PrintkInv
  <2>3. PICK n, whole : n = Len(format) /\ whole = out[n]
    OBVIOUS
  <2>4. n \in Nat /\ k \in 0 .. n
    BY <2>1, <2>2, <2>3, FormatIs DEF Printing
  <2>5. whole \in Seq(T) /\ FlattenSeq(Parts) = whole /\ Len(whole) \in Nat
    <3>1. whole \in Seq(T) /\ FlattenSeq(Parts) = whole
      BY <2>1, <2>2, <2>3, <2>4, PrintsFacts
    <3> QED
      BY <3>1
  <2>6. /\ buffer \in Seq(T) /\ Len(buffer) = done /\ done <= len /\ done <= Len(whole)
        /\ \A i \in 1 .. done : buffer[i] = whole[i]
        /\ todo \in Seq({format[i] : i \in DOMAIN format}) /\ Len(todo) = n - k
        /\ ~stop => done + Len(given) = Len(out[k])
        /\ stop => done = len /\ len < Len(whole)
    BY <2>1, <2>3 DEF Printing
  <2>7. done \in Nat
    BY <2>6
  <2>8. buffer = SubSeq(whole, 1, done)
    <3>1. \A i \in 1 .. done : whole[i] \in T
      BY <2>5, <2>6, <2>7
    <3>2. PICK s : s = SubSeq(whole, 1, done)
      OBVIOUS
    <3>3. s \in Seq(T) /\ Len(s) = done /\ \A i \in 1 .. done : s[i] = whole[i]
      <4>1. done - 1 + 1 = done /\ \A i \in 1 .. done : 1 + i - 1 = i
        BY <2>7
      <4> QED
        BY <2>7, <3>1, <3>2, <4>1, SubSeqProperties
    <3> QED
      BY <2>6, <3>2, <3>3, SeqEqual
  <2>9. PICK most : most = IF Len(whole) < len THEN Len(whole) ELSE len
    OBVIOUS
  <2>10. done <= most
    BY <2>6, <2>9
  <2>11. ASSUME given = <<>>, todo = <<>> \/ stop PROVE done = most
    <3>1. CASE stop
      BY <2>2, <2>5, <2>6, <2>9, <3>1
    <3>2. CASE ~stop
      <4>1. Len(todo) = 0 /\ Len(given) = 0
        BY <2>11, <3>2
      <4>2. k = n
        BY <2>4, <2>6, <4>1
      <4>3. done = Len(whole)
        BY <2>3, <2>6, <2>7, <3>2, <4>1, <4>2
      <4> QED
        BY <2>2, <2>5, <2>6, <2>9, <4>3
    <3> QED
      BY <3>1, <3>2
  <2> QED
    BY <2>5, <2>8, <2>9, <2>10, <2>11, Zenon DEF BoundedPrint, Parts
<1>2. PrintkInit => PrintkInv
  BY PrintkBegins
<1>3. PrintkInv /\ [PrintkNext]_printkVars => PrintkInv'
  BY PrintkKeeps
<1> QED
  BY <1>1, <1>2, <1>3, PTL DEF PrintkSpec
===============================================================================
