-------------------------------- MODULE Paper --------------------------------
(***************************************************************************)
(* What a console promises: a sheet of paper without end, of a given       *)
(* number of columns, and a place to write the next glyph.  Nothing is     *)
(* ever lost and nothing moves; only writing at the same place again       *)
(* replaces a glyph.                                                       *)
(***************************************************************************)
EXTENDS Integers

CONSTANTS Columns, Glyphs, TabStop

VARIABLES
  sheet,   (* the glyphs written: pairs of a place and a glyph             *)
  at       (* where the next one goes                                      *)

Init == sheet = {} /\ at = 0

Write(g) ==
  /\ sheet' = {written \in sheet : written[1] # at} \cup {<<at, g>>}
  /\ at' = at + 1

Move(place) == at' = place /\ UNCHANGED sheet

Return == Move(at - (at % Columns))

NewLine == Move(at - (at % Columns) + Columns)

(* A tab stop ahead, the first or the second one. *)
Tab == \E place \in at + 1 .. at + 2 * TabStop : place % TabStop = 0 /\ Move(place)

Next == (\E g \in Glyphs : Write(g)) \/ Return \/ NewLine \/ Tab

Spec == Init /\ [][Next]_<<sheet, at>>
===============================================================================
