------------------------------ MODULE CommandLib ------------------------------
(***************************************************************************)
(* CommandLib (.lib/command.c): the syntaxes of a command applied to a     *)
(* line, format "explode".  The other formats hand the line to functions   *)
(* of the driver (sscanf, regmatch, parse_command) and are left out, as    *)
(* are subcommands, which the code has no support for yet.                 *)
(*                                                                         *)
(* A syntax has a fixed number of arguments or, if explode is None, a      *)
(* least and a most; opts says of the options it knows, by their strings,  *)
(* whether they take a parameter.  A character of a line is a number.      *)
(***************************************************************************)
EXTENDS TextLib, FiniteSets, TLC

None == -1

Short(char) == [long |-> FALSE, name |-> <<char>>]

Long(name) == [long |-> TRUE, name |-> name]

\* What a short option is in a line: a number, that is no option's string.
Code(char) == [code |-> char]

\* An option without parameter.
NoParam == <<"no param">>

\* Arguments are strings, but the last one of a fixed number is an array.
Word(chars) == [array |-> FALSE, words |-> <<chars>>]

Array(args) == [array |-> TRUE, words |-> [i \in DOMAIN args |-> args[i].words[1]]]

parse_param(arg, pos) ==
  LET end == match_quote(arg, pos)
  IN  [param |-> unescape(unquote(Slice(arg, pos, end))), pos |-> end + 1]

\* What the options read so far come to, and where to go on.
Given(read, opt, found) ==
  LET before == IF opt \in DOMAIN read.opts THEN read.opts[opt] ELSE <<>>
  IN  [read EXCEPT !.opts = (opt :> Append(before, found.param)) @@ @, !.pos = found.pos]

\* The parameter of an option, if it takes one and the line goes on.
Param(arg, pos, takes, missing) ==
  LET start == find_nonws(arg, pos)
  IN  CASE ~takes -> [param |-> NoParam, pos |-> pos]
        [] takes /\ start < Len(arg) -> parse_param(arg, start)
        [] takes /\ start >= Len(arg) -> [param |-> missing, pos |-> start]

\* An unknown option is bad, and among the options all the same; so is "--".
parse_longopt(arg, read, valid) ==
  LET blank == Search(arg, read.pos, LAMBDA i : At(arg, i) = " ")
      end == IF blank = -1 THEN Len(arg) ELSE blank
      opt == Long(Slice(arg, read.pos, end - 1))
      result == Given(read, opt, Param(arg, end, opt \in DOMAIN valid /\ valid[opt], <<>>))
  IN  IF opt \in DOMAIN valid THEN result ELSE [result EXCEPT !.bad = @ \cup {opt}]

\* Unknown characters are bad up to the first that is known.  None is, as the
\* known ones are looked up by number.
RECURSIVE parse_opt(_, _, _)
parse_opt(arg, read, valid) ==
  LET opt == Code(At(arg, read.pos))
  IN  CASE At(arg, read.pos) \in {" ", "end"} -> read
        [] At(arg, read.pos) \notin {" ", "end"} /\ opt \in DOMAIN valid ->
             Given(read, opt, Param(arg, read.pos + 1, valid[opt], NoParam))
        [] OTHER -> parse_opt(arg, [read EXCEPT !.bad = @ \cup {opt}, !.pos = @ + 1], valid)

At2(arg, pos) == <<At(arg, pos), At(arg, pos + 1)>>

RECURSIVE parse_opts(_, _, _)
parse_opts(arg, read, valid) ==
  LET moved(n) == [read EXCEPT !.pos = @ + n]
      next == CASE At(arg, read.pos) = " " -> moved(1)
                [] At2(arg, read.pos) = <<"-", "-">> -> parse_longopt(arg, moved(2), valid)
                [] At2(arg, read.pos) = <<"-", " ">> -> moved(2)
                [] At2(arg, read.pos) = <<"-", "end">> -> moved(1)
                [] OTHER -> parse_opt(arg, moved(1), valid)
  IN  IF At(arg, read.pos) \notin {" ", "-"} THEN read ELSE parse_opts(arg, next, valid)

\* The last of a fixed number of arguments is made of the arguments so far,
\* not of the rest of the line.
RECURSIVE hard_limit(_, _, _, _)
hard_limit(arg, pos, numargs, args) ==
  LET start == find_nonws(arg, pos)
      param == parse_param(arg, start)
  IN  CASE Len(args) >= numargs -> args
        [] Len(args) = numargs - 1 ->
             Append(args, Array(SubSeq(args, start + 1, Len(args))))
        [] OTHER -> hard_limit(arg, param.pos, numargs, Append(args, Word(param.param)))

\* Without a limit the arguments are all words of the line, options included.
parse_args_explode(arg, pos, numargs) ==
  IF numargs >= 0 THEN hard_limit(arg, pos, numargs, <<>>)
    ELSE LET words == explode_args(arg) IN [i \in DOMAIN words |-> Word(words[i])]

\* Fault: a most of arguments does not count without a least.
valid_syntax_min_first(syntax, bad, numargs) ==
  /\ bad = {}
  /\ IF syntax.explode >= 0 THEN numargs = syntax.explode
       ELSE syntax.min >= 0 => numargs \in syntax.min..syntax.max

valid_syntax(syntax, bad, numargs) ==
  /\ bad = {}
  /\ IF syntax.explode >= 0 THEN numargs = syntax.explode
       ELSE /\ syntax.min >= 0 => syntax.min <= numargs
            /\ syntax.max >= 0 => syntax.max >= numargs

ArgsBehind(read, syntax, arg) ==
  [opts |-> read.opts, bad |-> read.bad,
   args |-> parse_args_explode(arg, find_nonws(arg, read.pos), syntax.explode)]

Parsed(syntax, arg) ==
  ArgsBehind(parse_opts(arg, [opts |-> <<>>, bad |-> {}, pos |-> 0], syntax.opts), syntax, arg)

Applied(n, opts, args) == [syntax |-> n, opts |-> opts, args |-> args]

\* The mapping that get_matching_syntax() looks through keeps opts only: a
\* syntax that allows no arguments is taken to match, whatever was bad.  Which
\* one of several is the driver's.
Matching(command) == {n \in DOMAIN command : valid_syntax(command[n], {}, 0)}

Outcomes(command, parsed) ==
  LET fitting == {n \in DOMAIN command :
                    valid_syntax(command[n], parsed[n].bad, Len(parsed[n].args))}
  IN  IF fitting # {}
        THEN {Applied(Min(fitting), parsed[Min(fitting)].opts, parsed[Min(fitting)].args)}
        ELSE {Applied(n, parsed[n].opts, <<>>) : n \in Matching(command)}

\* The outcomes; none at all is a runtime error.
apply_syntax(command, arg) ==
  Outcomes(command, [n \in DOMAIN command |-> Parsed(command[n], arg)])
-----------------------------------------------------------------------------
(* Commands, and lines that were made from options and words.              *)

Known == Short("q") :> FALSE @@ Short("o") :> TRUE @@
         Long(<<"q">>) :> FALSE @@ Long(<<"o">>) :> TRUE

Knowing(opts) == [o \in opts |-> Known[o]]

Syntax(explode, min, max, opts) ==
  [explode |-> explode, min |-> min, max |-> max, opts |-> Knowing(opts)]

Shorts == {o \in DOMAIN Known : ~o.long}

Longs == DOMAIN Known \ Shorts

Commands == {
  <<Syntax(0, None, None, {}), Syntax(2, None, None, DOMAIN Known)>>,
  <<Syntax(3, None, None, Shorts), Syntax(None, 2, 3, DOMAIN Known)>>,
  <<Syntax(None, None, 1, {}), Syntax(1, None, None, Longs)>>}

Texts == {<<>>, <<"-", "q">>, <<"a", " ">>}

HasValue(option) == option.opt \in DOMAIN Known /\ Known[option.opt]

\* "d" is an option that no syntax knows.
Options ==
  {o \in [opt : DOMAIN Known \cup {Short("d"), Long(<<"d">>)}, value : Texts] :
     ~HasValue(o) => o.value = <<>>}

Inputs ==
  [command : Commands,
   options : UNION {[1..n -> Options] : n \in 0..2},
   words : UNION {[1..n -> Texts] : n \in 0..2}]

Dashed(opt) == (IF opt.long THEN <<"-", "-">> ELSE <<"-">>) \o opt.name

\* The words of the options, and their values in quotes.
Spelled(options) ==
  FlattenSeq([i \in DOMAIN options |->
    <<Dashed(options[i].opt)>> \o IF HasValue(options[i]) THEN <<Quoted(options[i].value)>> ELSE <<>>])

WordsOf(input) ==
  Spelled(input.options) \o [i \in DOMAIN input.words |-> Quoted(input.words[i])]

Line(input) == Joined(WordsOf(input), " ")

\* The same as values.
Plain(input) ==
  FlattenSeq([i \in DOMAIN input.options |->
    <<Dashed(input.options[i].opt)>>
      \o IF HasValue(input.options[i]) THEN <<input.options[i].value>> ELSE <<>>]) \o input.words

Knows(syntax, input) ==
  \A i \in DOMAIN input.options : input.options[i].opt \in DOMAIN syntax.opts

\* As parse_opt() knows no short option, a line with one fits no syntax.
Fits(syntax, input) ==
  /\ Knows(syntax, input) /\ \A i \in DOMAIN input.options : input.options[i].opt.long
  /\ syntax.explode = None =>
       Len(Plain(input)) \in (IF syntax.min = None THEN 0 ELSE syntax.min)..syntax.max

MeantOpts(input) ==
  LET of(o) == SelectSeq(input.options, LAMBDA s : s.opt = o)
  IN  [o \in {input.options[i].opt : i \in DOMAIN input.options} |->
         [i \in DOMAIN of(o) |-> IF Known[o] THEN of(o)[i].value ELSE NoParam]]

\* Without a limit all words are arguments.  Of a fixed number, each but the last
\* is a word, an empty one where the line ends before.
AsMeant(args, syntax, input) ==
  IF syntax.explode = None
    THEN args = [i \in DOMAIN Plain(input) |-> Word(Plain(input)[i])]
    ELSE /\ Len(args) = syntax.explode
         /\ \A i \in 1..(syntax.explode - 1) :
              args[i] = Word(IF i <= Len(input.words) THEN input.words[i] ELSE <<>>)

\* The first syntax that knows all options of a line, all of them long, and takes
\* as many words is applied, with the options, their parameters and the arguments
\* as they were written, but for the last of a fixed number; without one,
\* nothing is applied that does not allow for no arguments.
SyntaxIsApplied(input) ==
  LET fit == {n \in DOMAIN input.command : Fits(input.command[n], input)}
      applied == apply_syntax(input.command, Line(input))
  IN  IF fit # {}
        THEN /\ Cardinality(applied) = 1
             /\ \A a \in applied :
                  /\ a.syntax = Min(fit) /\ a.opts = MeantOpts(input)
                  /\ AsMeant(a.args, input.command[a.syntax], input)
        ELSE \A a \in applied : a.args = <<>> /\ input.command[a.syntax].min <= 0
                                  /\ input.command[a.syntax].explode <= 0
=============================================================================
