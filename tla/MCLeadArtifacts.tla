--------------------------- MODULE MCLeadArtifacts ---------------------------
(***************************************************************************)
(* Two loaders and up to two trainings.  Words of four bits stand for      *)
(* those of 64: hash spaces below, at and above one word, and of all four. *)
(***************************************************************************)
EXTENDS LeadArtifacts

CONSTANTS l1, l2

MCLoader == {l1, l2}
Sym == Permutations(MCLoader)

Options(rows, bits, scale, calibrate, key) ==
  [rows |-> rows, space_bits |-> bits, scale |-> scale, calibrate |-> calibrate,
   low |-> -1, high |-> 2 * rows - 1, emit_code |-> TRUE, key_type |-> key]

Wide     == Options(4, 16, <<1, 1>>, TRUE, "u64")
Word     == Options(6, 4, <<3, 4>>, FALSE, "u64")
Narrow   == Options(5, 3, <<2, 1>>, TRUE, "u32")
Odd      == Options(3, 11, <<1, 3>>, FALSE, "u64")
Single   == Options(1, 9, <<1, 1>>, TRUE, "u64")
Coarse   == Options(16, 5, <<1, 100>>, TRUE, "u64")
Flat     == [Options(3, 7, <<1, 1>>, TRUE, "u64") EXCEPT !.high = -1]
NoCode   == [Wide EXCEPT !.emit_code = FALSE]

MCTrainings == {<<Wide, Word>>, <<Word, Narrow>>, <<NoCode, Odd>>, <<Single, Coarse>>,
                <<Flat, NoCode>>}
MCPredictions == -3 .. 12
=============================================================================
