------------------------------ MODULE GetoptsLib ------------------------------
(***************************************************************************)
(* GetoptsLib (.lib/getopts.c): options read off a list of arguments.      *)
(*                                                                         *)
(* An argument is a sequence of characters.  What validopts and longopts   *)
(* say of an option is its kind: a flag, one with a parameter (":" or 1),  *)
(* or one with a parameter each time (a dash or -1).  Where the code takes *)
(* any option, all are flags.  An option without parameter has no values.  *)
(* That ":" and the dash are themselves members of the string validopts is *)
(* left out.                                                               *)
(***************************************************************************)
EXTENDS Integers, Sequences, SequencesExt, TLC

Kinds == {"flag", "param", "repeat"}

\* A character of validopts and a word of longopts are different keys.
Short(char) == [long |-> FALSE, name |-> <<char>>]

Long(name) == [long |-> TRUE, name |-> name]

\* Fault: a repeated option keeps its last value only.
WithLast(options, opt, kind, values) == (opt :> values) @@ options

\* The option opt is set: what it had before is kept if it may be repeated.
With(options, opt, kind, values) ==
  LET before == IF kind = "repeat" /\ opt \in DOMAIN options THEN options[opt] ELSE <<>>
  IN  (opt :> (before \o values)) @@ options

\* The characters of a word but its last one.  getopts() takes flags only;
\* getopts_long() takes any option and sets it to 0.
Clustered(read, chars, valid, long) ==
  LET takes(c) == Short(c) \in DOMAIN valid /\ (long \/ valid[Short(c)] = "flag")
      taken == {Short(c) : c \in {chars[i] : i \in {j \in DOMAIN chars : takes(chars[j])}}}
  IN  [options |-> [o \in taken |-> <<>>] @@ read.options,
       bad |-> read.bad \o [i \in DOMAIN SelectSeq(chars, LAMBDA c : ~takes(c)) |->
                              Short(SelectSeq(chars, LAMBDA c : ~takes(c))[i])]]

\* Option opt, with the arguments behind it.
Set(read, opt, valid, behind) ==
  CASE opt \notin DOMAIN valid -> [read EXCEPT !.bad = Append(@, opt)]
    [] opt \in DOMAIN valid /\ valid[opt] = "flag" ->
         [read EXCEPT !.options = With(@, opt, "flag", <<>>)]
    [] opt \in DOMAIN valid /\ valid[opt] # "flag" ->
         IF behind = <<>> THEN [read EXCEPT !.bad = Append(@, opt)]
           ELSE [read EXCEPT !.options = With(@, opt, valid[opt], <<Head(behind)>>)]

Takes(opt, valid) == opt \in DOMAIN valid /\ valid[opt] # "flag"

Beyond(args, n) == SubSeq(args, n + 1, Len(args))

\* "--" ends the options and goes.
Ended(args) == Tail(args)

RECURSIVE read_options(_, _, _, _)
read_options(args, read, valid, long) ==
  LET word == Head(args)
      is_long == long /\ word[2] = "-"
      opt == IF is_long THEN Long(Beyond(word, 2)) ELSE Short(Last(word))
      clustered == IF is_long THEN read
                     ELSE Clustered(read, SubSeq(word, 2, Len(word) - 1), valid, long)
      used == IF Takes(opt, valid) THEN 2 ELSE 1
  IN  CASE args = <<>> -> [read |-> read, rest |-> <<>>]
        [] args # <<>> /\ (word = <<>> \/ word[1] # "-") -> [read |-> read, rest |-> args]
        [] args # <<>> /\ word = <<"-", "-">> -> [read |-> read, rest |-> Ended(args)]
        [] args # <<>> /\ word = <<"-">> -> read_options(Tail(args), read, valid, long)
        [] OTHER -> read_options(Beyond(args, used),
                                 Set(clustered, opt, valid, Tail(args)), valid, long)

Unread == [options |-> <<>>, bad |-> <<>>]

getopts(args, validopts) == read_options(args, Unread, validopts, FALSE)

getopts_long(args, validopts, longopts) ==
  read_options(args, Unread, validopts @@ longopts, TRUE)
-----------------------------------------------------------------------------
(* Arguments that were made from settings of options.                      *)

Valid == Short("a") :> "flag" @@ Short("b") :> "param" @@ Short("c") :> "repeat"

LongValid == Long(<<"a">>) :> "flag" @@ Long(<<"b">>) :> "param" @@ Long(<<"c">>) :> "repeat"

Words == {<<>>, <<"v">>, <<"-", "a">>, <<"-", "-">>}

\* One option, unknown ones ("d") included, with a flag in the same word or
\* not, and its value if it takes one.
Settings ==
  [opt : DOMAIN Valid \cup DOMAIN LongValid \cup {Short("d"), Long(<<"d">>)},
   flagged : BOOLEAN, value : Words]

Sound(s) ==
  /\ s.opt.long => ~s.flagged
  /\ ~Takes(s.opt, Valid @@ LongValid) => s.value = <<>>

WordOf(s) == (IF s.opt.long THEN <<"-", "-">> ELSE IF s.flagged THEN <<"-", "a">> ELSE <<"-">>)
               \o s.opt.name

Spelled(s) == <<WordOf(s)>> \o IF Takes(s.opt, Valid @@ LongValid) THEN <<s.value>> ELSE <<>>

\* What ends the options: nothing, a word, or "--"; or a parameter is missing.
Endings == {<<>>, <<<<"v">>, <<"-", "a">>>>, <<<<"-", "-">>, <<"-", "a">>>>, <<<<"-", "c">>>>}

Inputs ==
  [settings : UNION {[1..n -> {s \in Settings : Sound(s)}] : n \in 0..2}, ending : Endings]

Line(input) ==
  FlattenSeq([i \in DOMAIN input.settings |-> Spelled(input.settings[i])]) \o input.ending

\* The settings as one reads them.
Meant(input) ==
  LET all == Valid @@ LongValid
      of(o) == SelectSeq(input.settings, LAMBDA s : s.opt = o)
      given == {o \in DOMAIN all : of(o) # <<>>} \cup
               {o \in {Short("a")} : \E i \in DOMAIN input.settings : input.settings[i].flagged}
      values(o) == [i \in DOMAIN of(o) |-> of(o)[i].value]
      bad == SelectSeq(input.settings, LAMBDA s : s.opt \notin DOMAIN all)
      missing == input.ending = <<<<"-", "c">>>>
  IN  [read |-> [options |-> [o \in given |->
                                CASE all[o] = "flag" -> <<>>
                                  [] all[o] = "param" -> <<Last(values(o))>>
                                  [] all[o] = "repeat" -> values(o)],
                 bad |-> [i \in DOMAIN bad |-> bad[i].opt]
                           \o IF missing THEN <<Short("c")>> ELSE <<>>],
       rest |-> IF missing THEN <<>>
                  ELSE IF Line(input) # <<>> /\ input.ending # <<>> /\ Head(input.ending) = <<"-", "-">>
                    THEN Tail(input.ending) ELSE input.ending]

\* Options are read as they were meant by getopts_long(), and those of one
\* character by getopts() too, whatever their values look like: the last value
\* of an option with a parameter, all of one that may be repeated, and the
\* arguments behind the options untouched.
OptionsAreRead(input) ==
  /\ getopts_long(Line(input), Valid, LongValid) = Meant(input)
  /\ (\A i \in DOMAIN input.settings : ~input.settings[i].opt.long) =>
       getopts(Line(input), Valid) = Meant(input)
=============================================================================
