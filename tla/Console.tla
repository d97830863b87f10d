------------------------------- MODULE Console -------------------------------
(***************************************************************************)
(* kernel/vga.c of rackdoll and guest/vga.c of janus, the same file: the   *)
(* cursor and the screen, a window on the last lines printed.  The rows    *)
(* that scroll away are kept in the history variable gone, so that the     *)
(* whole can be compared with an endless sheet (Paper).                    *)
(***************************************************************************)
EXTENDS Integers, Sequences

CONSTANTS
  VGA_SCREEN_LINES, VGA_SCREEN_COLUMNS,
  Letters,         (* the characters with a glyph                          *)
  Texts,           (* the strings the program prints, sequences of chars   *)
  MaxTexts         (* bound on the number of strings printed               *)

ASSUME ConsoleAssumption ==
  /\ VGA_SCREEN_LINES \in Nat \ {0}
  /\ VGA_SCREEN_COLUMNS \in Nat /\ VGA_SCREEN_COLUMNS > 8 /\ VGA_SCREEN_COLUMNS % 8 = 0
  /\ Letters \cap {"nl", "cr", "tab", "blank"} = {}
  /\ Texts \subseteq Seq(Letters \cup {"nl", "cr", "tab"})

VARIABLES screen, cursor, gone, cleared, rest, texts

consoleVars == <<screen, cursor, gone, cleared, rest, texts>>

Cells == VGA_SCREEN_LINES * VGA_SCREEN_COLUMNS

Blank == "blank"

(* The firmware leaves text on the screen. *)
ConsoleInit ==
  /\ screen \in {[p \in 0 .. Cells - 1 |-> l] : l \in Letters}
  /\ cursor = 0 /\ gone = <<>> /\ cleared = FALSE /\ rest = <<>> /\ texts = 0

clear ==
  /\ ~cleared /\ cleared' = TRUE
  /\ screen' = [p \in 0 .. Cells - 1 |-> Blank]
  /\ cursor' = 0
  /\ UNCHANGED <<gone, rest, texts>>
-------------------------------------------------------------------------------
Row(n) == (n \div VGA_SCREEN_COLUMNS) * VGA_SCREEN_COLUMNS

\* Mutant of Advance: the stop is counted from the cell after the tab.
advance_next_stop(c, n) ==
  CASE c = "nl"  -> Row(n + VGA_SCREEN_COLUMNS)
    [] c = "cr"  -> Row(n)
    [] c = "tab" -> n + 8
    [] OTHER     -> n + 1

Advance(c, n) ==
  CASE c = "nl"  -> Row(n + VGA_SCREEN_COLUMNS)
    [] c = "cr"  -> Row(n)
    [] c = "tab" -> ((n + 1) \div 8) * 8 + 8
    [] OTHER     -> n + 1

Show(s, c, n) == IF c \in Letters THEN [s EXCEPT ![n] = c] ELSE s

\* Mutant of scroll: the last line keeps what it shows.
scroll_keep_last(s) ==
  [p \in 0 .. Cells - 1 |->
     IF p + VGA_SCREEN_COLUMNS < Cells THEN s[p + VGA_SCREEN_COLUMNS] ELSE s[p]]

scroll(s) ==
  [p \in 0 .. Cells - 1 |->
     IF p + VGA_SCREEN_COLUMNS < Cells THEN s[p + VGA_SCREEN_COLUMNS] ELSE Blank]

FirstRow(s) == [i \in 1 .. VGA_SCREEN_COLUMNS |-> s[i - 1]]

(* putc: at most one line is scrolled away. *)
putc(c) ==
  LET n     == Advance(c, cursor)
      shown == Show(screen, c, cursor)
  IN IF n >= Cells
     THEN /\ screen' = scroll(shown)
          /\ gone' = gone \o FirstRow(shown)
          /\ cursor' = n - VGA_SCREEN_COLUMNS
     ELSE screen' = shown /\ cursor' = n /\ UNCHANGED gone

(* A string is given to puts, or by printk to putc one character at a time. *)
puts ==
  /\ cleared /\ rest = <<>> /\ texts < MaxTexts
  /\ texts' = texts + 1
  /\ rest' \in Texts
  /\ UNCHANGED <<screen, cursor, gone, cleared>>

PutNext ==
  /\ rest # <<>> /\ putc(Head(rest)) /\ rest' = Tail(rest)
  /\ UNCHANGED <<cleared, texts>>

ConsoleNext == clear \/ puts \/ PutNext

-------------------------------------------------------------------------------
(* Every cell ever printed, by its place on the endless sheet. *)
Written ==
  LET before == Len(gone)
  IN {<<p - 1, gone[p]>> : p \in {q \in 1 .. before : gone[q] # Blank}}
     \cup {<<before + p, screen[p]>> : p \in {q \in 0 .. Cells - 1 : screen[q] # Blank}}

Sheet == INSTANCE Paper WITH
  Columns <- VGA_SCREEN_COLUMNS, Glyphs <- Letters, TabStop <- 8,
  sheet <- IF cleared THEN Written ELSE {},
  at <- Len(gone) + cursor

(* vga.c:62-87: the screen is a window on an endless sheet of paper: no    *)
(* character is lost, moved or left behind by the scrolling, and the       *)
(* cursor never leaves the screen.                                         *)
PrintsOnPaper == Sheet!Spec /\ [](cursor \in 0 .. Cells - 1)
===============================================================================
