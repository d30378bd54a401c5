------------------------------- MODULE Argparse ------------------------------
(***************************************************************************)
(* argparse_parse (src/argparse.c): the options are looked for in the      *)
(* command line one after the other, each is taken out of it with its      *)
(* values, and what is left goes to the positional arguments.              *)
(***************************************************************************)
EXTENDS Integers, SequencesExt

CONSTANTS
  Words,      (* the words of a command line                               *)
  Dashes,     (* how many dashes each begins with, 2 if they are more      *)
  Ends,       (* the names and flags that each ends with                   *)
  Behind,     (* the name or flag that is all that stands behind the       *)
              (* dashes, NoName if there is none                           *)
  Help,       (* -h and --help                                             *)
  Refused,    (* those that the type callbacks refuse                      *)
  Opts,       (* the options in the order they were added                  *)
  ArgLists,   (* the positional arguments a program may add, in this order *)
  NoName,     (* an option without a name, or without a flag               *)
  NoDefault,  (* no default was set                                        *)
  MaxWords    (* BOUND: the length of a command line                       *)

\* aparg_parse_nargs: how many values an option or argument takes, negative for
\* all that are left, and whether it must have them.
ParseNargs(isOpt, nargs) ==
  CASE nargs = "NULL" -> [n |-> IF isOpt THEN 0 ELSE 1, required |-> ~isOpt]
    [] nargs = "*" -> [n |-> -1, required |-> FALSE]
    [] nargs = "?" -> [n |-> 1, required |-> FALSE]
    [] nargs = "+" -> [n |-> -1, required |-> TRUE]
    [] nargs = "2" -> [n |-> 2, required |-> TRUE]

\* An option or argument: what nargs means; dest, the name it has in the result;
\* typed, it has a type callback; dfl, its default.  An option has a name or a
\* flag, or both.
AddOpt(flag, name, nargs, typed, dfl) ==
  [flag |-> flag, name |-> name, dest |-> IF name # NoName THEN name ELSE flag,
   typed |-> typed, dfl |-> dfl] @@ ParseNargs(TRUE, nargs)
AddArg(dest, nargs, typed, dfl) ==
  [dest |-> dest, typed |-> typed, dfl |-> dfl] @@ ParseNargs(FALSE, nargs)

Dashed == {w \in Words : Dashes[w] > 0}

\* CONTRACT: an option takes no open number of values; an argument that takes all
\* that are left is the last one.
ASSUME ArgparseAssumption ==
  /\ Refused \cup Help \subseteq Words
  /\ Dashes \in [Words -> 0 .. 2]
  /\ \A w \in Words : Behind[w] # NoName => Behind[w] \in Ends[w]
  /\ MaxWords \in Nat
  /\ \A i \in DOMAIN Opts : Opts[i].n >= 0
  /\ \A list \in ArgLists : \A k \in DOMAIN list : list[k].n < 0 => k = Len(list)

VARIABLES
  argv,  (* the command line                                               *)
  slots, (* self->args: the positional arguments                           *)
  pc,    (* where argparse_parse is                                        *)
  at,    (* the option or argument it comes to                             *)
  args,  (* the words that were not taken yet                              *)
  out,   (* out_args: what was found for each dest                         *)
  err    (* there is an error                                              *)

vars == <<argv, slots, pc, at, args, out, err>>

True == <<"true">>
False == <<"false">>
None == <<"none">>
One(w) == <<"one", w>>
Many(ws) == <<"many">> \o ws

\* One value for a dest stands alone, several are a List.
Values(ws) == IF Len(ws) = 1 THEN One(ws[1]) ELSE Many(ws)

\* The type callback gives an error.
Fails(a, w) == a.typed /\ w \in Refused

\* The words are taken one after the other, up to one that is refused.
Taken(a, ws) ==
  LET k == SelectInSeq(ws, LAMBDA w : Fails(a, w))
  IN IF k = 0 THEN ws ELSE SubSeq(ws, 1, k)

\* _set_default
Default(a, isOpt) ==
  IF isOpt /\ a.n = 0 THEN False
  ELSE IF a.n = 1 /\ a.dfl # NoDefault THEN One(a.dfl) ELSE None

SetDefault(a, isOpt) ==
  /\ out' = a.dest :> Default(a, isOpt) @@ out
  /\ err' = (a.n = 1 /\ a.dfl # NoDefault /\ Fails(a, a.dfl))

Init ==
  /\ argv \in BoundedSeq(Words, MaxWords)
  /\ slots \in ArgLists
  /\ pc = "words"
  /\ at = 1
  /\ args = << >>
  /\ out = << >>
  /\ err = FALSE

-----------------------------------------------------------------------------
\* The words are copied, unless one asks for help.
ReadWords ==
  /\ pc = "words"
  /\ IF ToSet(argv) \cap Help # {}
     THEN pc' = "help" /\ UNCHANGED args
     ELSE pc' = "options" /\ args' = argv
  /\ UNCHANGED <<argv, slots, at, out, err>>

\* PLANTED BUG: the option itself is not taken out.
WithoutKept(ws, i, n) == SubSeq(ws, 1, i) \o SubSeq(ws, i + n + 1, Len(ws))

\* PLANTED BUG: the values are read and left where they are.
WithoutValues(ws, i, n) == RemoveAt(ws, i)

\* list_delete_at, list_remove_at: the words without the one at i and the n
\* behind it.
Without(ws, i, n) == SubSeq(ws, 1, i - 1) \o SubSeq(ws, i + n + 1, Len(ws))

\* The words behind an option that are its values.
ValuesOf(opt, i) ==
  SubSeq(args, i + 1, IF i + opt.n < Len(args) THEN i + opt.n ELSE Len(args))

\* A word is taken for an option if it ends with its name behind two dashes, or
\* with its flag behind one or more: the end of a longer word, too.
Matches(opt, w) ==
  \/ Dashes[w] = 2 /\ opt.name # NoName /\ opt.name \in Ends[w]
  \/ Dashes[w] > 0 /\ opt.flag # NoName /\ opt.flag \in Ends[w]

\* One option: the first word that matches it, and its values.  The words that
\* were taken before an error are in no result.
ParseOption ==
  /\ pc = "options"
  /\ ~err
  /\ at <= Len(Opts)
  /\ LET opt == Opts[at]
         i == SelectInSeq(args, LAMBDA w : Matches(opt, w))
     IN IF i = 0 THEN SetDefault(opt, TRUE) /\ UNCHANGED args
        ELSE LET vals == ValuesOf(opt, i) IN
             /\ args' = Without(args, i, opt.n)
             /\ err' = (Len(vals) < opt.n \/ \E k \in DOMAIN vals : Fails(opt, vals[k]))
             /\ out' = IF err' THEN out
                       ELSE opt.dest :> (IF opt.n = 0 THEN True ELSE Values(vals)) @@ out
  /\ at' = at + 1
  /\ UNCHANGED <<argv, slots, pc>>

\* What is left must be no option.
CheckOptions ==
  /\ pc = "options"
  /\ ~err
  /\ at > Len(Opts)
  /\ err' = (ToSet(args) \cap Dashed # {})
  /\ pc' = "arguments"
  /\ at' = 1
  /\ UNCHANGED <<argv, slots, args, out>>

\* An argument takes the first n words; with an error they are in no result.
TakeWords(arg, n) ==
  LET vals == Taken(arg, SubSeq(args, 1, IF n < Len(args) THEN n ELSE Len(args))) IN
  /\ args' = SubSeq(args, Len(vals) + 1, Len(args))
  /\ err' = (Len(vals) < n \/ \E k \in DOMAIN vals : Fails(arg, vals[k]))
  /\ out' = IF err' THEN out
            ELSE arg.dest :> (IF arg.n < 0 THEN Many(vals) ELSE Values(vals)) @@ out

\* One positional argument.
ParseArgument ==
  /\ pc = "arguments"
  /\ ~err
  /\ at <= Len(slots)
  /\ LET arg == slots[at] IN
     IF args = << >> /\ ~arg.required THEN SetDefault(arg, FALSE) /\ UNCHANGED args
     ELSE IF args = << >> /\ arg.n < 0 THEN err' = TRUE /\ UNCHANGED <<args, out>>
     ELSE TakeWords(arg, IF arg.n < 0 THEN Len(args) ELSE arg.n)
  /\ at' = at + 1
  /\ UNCHANGED <<argv, slots, pc>>

\* An error ends the program; without one the result is returned, whatever is
\* left of the command line.
Finish ==
  /\ \/ err /\ pc \in {"options", "arguments"} /\ pc' = "exit"
     \/ ~err /\ pc = "arguments" /\ at > Len(slots) /\ pc' = "done"
  /\ UNCHANGED <<argv, slots, at, args, out, err>>

Next == ReadWords \/ ParseOption \/ CheckOptions \/ ParseArgument \/ Finish

Spec == Init /\ [][Next]_vars

-----------------------------------------------------------------------------
\* A word names an option: its name behind two dashes, or its flag behind one.
Names(w, opt) ==
  \/ Dashes[w] = 2 /\ opt.name # NoName /\ Behind[w] = opt.name
  \/ Dashes[w] = 1 /\ opt.flag # NoName /\ Behind[w] = opt.flag

\* A command line read from left to right: opts, the values of each option;
\* words, the positional ones; clean, every option is there once at most and is
\* named by a word that no option added before it is taken for, and no value is
\* taken for an option.
IsOption(w) == \E i \in DOMAIN Opts : Matches(Opts[i], w)
Named(w) == CHOOSE i \in DOMAIN Opts : Names(w, Opts[i])
Unclean == [clean |-> FALSE, opts |-> << >>, words |-> << >>]

Reading ==
  LET from[i \in 1 .. Len(argv) + 1] ==
        IF i > Len(argv) THEN [clean |-> TRUE, opts |-> << >>, words |-> << >>]
        ELSE IF \E o \in DOMAIN Opts : Names(argv[i], Opts[o])
        THEN LET o == Named(argv[i])
                 behind == SubSeq(argv, i + 1, Len(argv))
                 vals == SubSeq(behind, 1, Opts[o].n)
                 rest == from[i + Opts[o].n + 1]
             IN IF \/ \E p \in 1 .. o - 1 : Matches(Opts[p], argv[i])
                   \/ Len(behind) < Opts[o].n
                   \/ \E k \in DOMAIN vals : IsOption(vals[k]) \/ Fails(Opts[o], vals[k])
                   \/ o \in DOMAIN rest.opts
                THEN Unclean
                ELSE [rest EXCEPT !.opts = o :> vals @@ @]
        ELSE IF argv[i] \in Dashed THEN Unclean
        ELSE LET rest == from[i + 1] IN [rest EXCEPT !.words = <<argv[i]>> \o @]
  IN from[1]

\* How many words the arguments before the k-th need.
Before(k) == FoldLeft(LAMBDA n, a : n + a.n, 0, SubSeq(slots, 1, k - 1))

\* The words the k-th argument should get, and those that are more than the
\* arguments take.
WordsFor(k, words) ==
  SubSeq(words, Before(k) + 1,
         IF slots[k].n < 0 \/ Before(k) + slots[k].n > Len(words)
         THEN Len(words) ELSE Before(k) + slots[k].n)
TooMany(words) ==
  IF \E k \in DOMAIN slots : slots[k].n < 0 THEN << >>
  ELSE SubSeq(words, Before(Len(slots) + 1) + 1, Len(words))

\* A command line with the words that the arguments need.
Fits(words) ==
  \A k \in DOMAIN slots :
    /\ slots[k].required =>
         Len(words) >= Before(k) + (IF slots[k].n < 0 THEN 1 ELSE slots[k].n)
    /\ \A w \in ToSet(WordsFor(k, words)) : ~Fails(slots[k], w)

\* The options are taken out of the line in the order in which they were added,
\* not in that of the line, and each takes the first word that ends like it;
\* nevertheless a clean line means what it means from left to right: each option
\* has its own values, each argument its words, the others their defaults, and
\* the words that are too many are left (argparse.c:177-342).
ReadAsMeant ==
  pc \in {"done", "exit"} =>
    \A meant \in {Reading} : meant.clean /\ Fits(meant.words) =>
      /\ pc = "done"
      /\ \A o \in DOMAIN Opts :
           out[Opts[o].dest] =
             IF o \notin DOMAIN meant.opts THEN Default(Opts[o], TRUE)
             ELSE IF Opts[o].n = 0 THEN True ELSE Values(meant.opts[o])
      /\ \A k \in DOMAIN slots :
           \A words \in {WordsFor(k, meant.words)} :
             out[slots[k].dest] =
               IF words = << >> /\ ~slots[k].required THEN Default(slots[k], FALSE)
               ELSE IF slots[k].n < 0 THEN Many(words) ELSE Values(words)
      /\ args = TooMany(meant.words)

\* How often a word is in a sequence.
Count(w, s) == Len(SelectSeq(s, LAMBDA x : x = w))

\* As long as there is no error, no word is lost or taken twice, on any command
\* line, also one where an option is taken for another: each word that no option
\* matches is left or in the result, as often as it was given, and at the end
\* every option and argument is in the result (argparse.c:177-342).
WordsKept ==
  ~err /\ pc \in {"options", "arguments", "done"} =>
    /\ \A w \in Words : ~IsOption(w) =>
         Count(w, argv) = FoldFunction(LAMBDA found, n : n + Count(w, found),
                                       Count(w, args), out)
    /\ pc = "done" => \A a \in ToSet(Opts \o slots) : a.dest \in DOMAIN out
=============================================================================
