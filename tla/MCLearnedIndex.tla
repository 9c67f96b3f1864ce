--------------------------- MODULE MCLearnedIndex ---------------------------
(* Instance of LearnedIndex for TLC: four keys, so that a key of the data  *)
(* can have neighbours on both sides, up to four rows and four leaves.     *)
(* Every monotone top model, overshooting by one, and three that are not;  *)
(* a few over the splines of data of up to six rows.  Three roots over     *)
(* four pairs of models: in order or not, with and without bounds check,   *)
(* predicting between the buckets, below the first and past the last.      *)
EXTENDS LearnedIndex

Disordered ==
    {[k \in Key |-> <<0, 2, 1, 2>>[k + 1]],
     [k \in Key |-> <<1, 0, 2, 3>>[k + 1]],
     [k \in Key |-> <<2, 1, 0, 0>>[k + 1]]}

MCBoundedTops ==
    {[k \in Key |-> <<0, 0, 1, 2>>[k + 1]],
     [k \in Key |-> <<0, 1, 1, 3>>[k + 1]],
     [k \in Key |-> <<0, 2, 2, 2>>[k + 1]]}

MCTops == {f \in [Key -> 0 .. Leaves] : IsMonotone(f)} \cup Disordered

Checked(halves) == [half |-> [k \in Key |-> halves[k + 1]], checked |-> TRUE]
Unchecked(halves) == [half |-> [k \in Key |-> halves[k + 1]], checked |-> FALSE]

Roots ==
    {Checked(<<-1, 1, 2, 5>>), Unchecked(<<0, 1, 2, 4>>), Checked(<<3, 0, 2, 1>>)}

Pairs ==
    {<<Checked(<<-3, 0, 3, 7>>), Checked(<<1, 4, 5, 9>>)>>,
     <<Checked(<<0, 1, 2, 3>>), Checked(<<4, 4, 7, 7>>)>>,
     <<Checked(<<6, 0, 1, 9>>), Checked(<<0, 5, 2, 3>>)>>,
     <<Unchecked(<<0, 2, 5, 6>>), Unchecked(<<0, 1, 7, 8>>)>>}

MCUppers ==
    {<<[g \in {0} |-> root], [g \in Branches |-> pair[g + 1]]>> :
        root \in Roots, pair \in Pairs}

\* For keys past the last one: six keys, of which the last four share a leaf.
MCLastKeyUppers ==
    {<<[g \in {0} |-> Checked(<<0, 1, 2, 2, 3, 5>>)],
       [g \in Branches |-> IF g = 0 THEN Checked(<<0, 2, 4, 4, 5, 6>>)
                                 ELSE Checked(<<0, 3, 6, 6, 7, 9>>)]>>}
=============================================================================
