------------------------------ MODULE MCArgparse -----------------------------
(***************************************************************************)
(* Argparse for a program with four options, and two or three arguments:   *)
(*   [-l [LEVEL]] [--all] [--pair X X] [-r] HOST [PORT] [REST [REST ...]]    *)
(* --all and -xl end like -l, which is looked for first; --pair ends like  *)
(* -r, which is looked for after it.                                       *)
(***************************************************************************)
EXTENDS Argparse

MCDashes ==
  [w \in {"-h", "-l", "-xl", "-r", "-1"} |-> 1]
    @@ [w \in {"--level", "--all", "--pair"} |-> 2] @@ [w \in {"a", "b", "bad"} |-> 0]

MCWords == DOMAIN MCDashes

MCEnds ==
  "-l" :> {"l"} @@ "-xl" :> {"l"} @@ "-r" :> {"r"} @@ "--level" :> {"l", "level"}
    @@ "--all" :> {"l", "all"} @@ "--pair" :> {"r", "pair"} @@ [w \in MCWords |-> {}]

MCBehind ==
  "-l" :> "l" @@ "-r" :> "r" @@ "--level" :> "level" @@ "--all" :> "all"
    @@ "--pair" :> "pair" @@ [w \in MCWords |-> NoName]

MCOpts ==
  << AddOpt("l", "level", "?", TRUE, "six"),
     AddOpt(NoName, "all", "NULL", FALSE, NoDefault),
     AddOpt(NoName, "pair", "2", TRUE, NoDefault),
     AddOpt("r", NoName, "NULL", FALSE, NoDefault) >>

MCArgs ==
  << AddArg("host", "NULL", TRUE, NoDefault),
     AddArg("port", "?", TRUE, "4321"),
     AddArg("rest", "*", FALSE, NoDefault) >>

\* With the last argument, and without it.
MCArgLists == {MCArgs, SubSeq(MCArgs, 1, 2)}
=============================================================================
