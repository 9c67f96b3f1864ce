------------------------- MODULE MCRangeAllocation -------------------------
(***************************************************************************)
(* Orders handed over: three centroids with masses up to five, so that     *)
(* ranges may be empty, tie in their remainders, or own the whole space; a *)
(* word of two bits, so that UInt256 has eight, and a space of 256 values  *)
(* wraps around.                                                           *)
(*                                                                         *)
(* Computed orders: four centroids at the corners of a square, where the   *)
(* walk may cross itself, on a line, in two distant pairs that one nearest *)
(* neighbour does not connect, and with two in one place; and six on the   *)
(* corners of two triangles.                                               *)
(***************************************************************************)
EXTENDS VortexTraining

MCMasses == {0, 1, 2, 3, 5}
MCSpaces == {2, 4, 8, 256}

Layout(s) == [c \in 0 .. Len(s) - 1 |-> s[c + 1]]

Square == Layout(<< <<0, 0>>, <<2, 2>>, <<2, 0>>, <<0, 2>> >>)
Line   == Layout(<< <<3, 0>>, <<0, 0>>, <<5, 0>>, <<1, 0>> >>)
Pairs  == Layout(<< <<0, 0>>, <<6, 1>>, <<1, 0>>, <<7, 1>> >>)
Twins  == Layout(<< <<1, 0>>, <<1, 0>>, <<0, 2>>, <<3, 1>> >>)
Wedges == Layout(<< <<0, 0>>, <<7, 3>>, <<2, 1>>, <<5, 0>>, <<0, 4>>, <<7, 5>> >>)

Options(graph) == [knn : {1, 2}, iterations : {0, 1, 9}, graph : {graph}]

MCTrainings ==
  [points : {Square, Line, Pairs, Twins}, mass : {[c \in 0 .. 3 |-> 1 + (c % 2)]},
   space : {8}, options : Options(TRUE)]
  \cup
  [points : {Wedges}, mass : {[c \in 0 .. 5 |-> c \div 2]}, space : {256},
   options : Options(FALSE)]
=============================================================================
