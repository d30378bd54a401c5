------------------------------- MODULE MCValues ------------------------------
(***************************************************************************)
(* Values with every kind of byte that the escapes tell apart, and parts   *)
(* of a format with every number of arguments.                             *)
(***************************************************************************)
EXTENDS Values

MCBytes == {"a", "n", " ", "\n", "\"", "\\", CTL, LEAD, CONT}
MCTexts == {<< >>, <<"a">>, <<" ">>, <<"\n", "a">>, <<"\\">>, <<"a", "\"">>,
            <<LEAD, CONT>>, <<CTL>>, <<"n", "n">>}
MCParts == {Literal, Directive("d", "", FALSE, FALSE), Directive("x", "z", TRUE, FALSE),
            Directive("i", "l", FALSE, FALSE), Directive("f", "", TRUE, FALSE),
            Directive("s", "", FALSE, FALSE), Directive("s", "", FALSE, TRUE),
            Directive("O", "", FALSE, FALSE)}
MCPathParts == {"", ".", "..", "a", "b"}
=============================================================================
