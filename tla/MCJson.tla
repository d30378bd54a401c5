-------------------------------- MODULE MCJson -------------------------------
(***************************************************************************)
(* JsonNodes with two labels, one of them with a dot, what an index is on  *)
(* a Map: a label, and a label with a quote that the program makes; with a *)
(* double that has more digits than are printed, and null.                 *)
(***************************************************************************)
EXTENDS JsonNodes

CONSTANTS a, b, i0, i2, m1, x1, none, q, double, rounded, null

Symmetry == Permutations(Objs)

MCTextOf == a :> <<"a">> @@ b :> <<"b", ".", "b">> @@ i0 :> <<"0", "]">>
            @@ i2 :> <<"2", "]">> @@ m1 :> <<"-", "1", "]">>
            @@ x1 :> <<"1", "x", "]">> @@ none :> <<"]">>
            @@ q :> <<"q", "\"">>

MCReprOf ==
  [value \in Primitives \cup Strings \cup Objs \cup {NoneObj} |->
     IF value = double THEN rounded ELSE value]

MCRawOf == [label \in Labels |-> IF label = q THEN Bad ELSE label]

MCIndexes == {-1, 0, 2}

MCOtherKeys ==
  {<<" ", "a", "\n">>, <<"a", ".", ".", "[", "0", "]">>, <<"[", "1", "x", "]">>,
   <<"[", "]">>, <<"[", "a">>, <<"a", "]">>, <<"a", "\"">>, <<"[", "[", "0", "]">>,
   <<"[", ".", "]">>, <<"[", "\"", "]">>}
=============================================================================
