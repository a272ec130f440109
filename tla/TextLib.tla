------------------------------- MODULE TextLib -------------------------------
(***************************************************************************)
(* StringLib, ArgumentLib and what they take from ArrayLib (.lib/string.c, *)
(* .lib/argument.c, .lib/array.c): words, quotes, escapes and nesting in a *)
(* line of text.                                                           *)
(*                                                                         *)
(* A string is a sequence of characters.  Positions count from 0, as they  *)
(* do in the code, where the character at the end of a string is 0.        *)
(***************************************************************************)
EXTENDS Integers, Sequences, SequencesExt

Blank == " "

Backslash == "\\"

QUOTE_CHARS == {"\"", "'"}

DEFAULT_OPEN == <<"\"", "(", "[", "{">>

DEFAULT_CLOSE == <<"\"", ")", "]", "}">>

At(str, i) == IF i < Len(str) THEN str[i + 1] ELSE "end"

\* str[i..j] and str[i..]
Slice(str, i, j) == SubSeq(str, i + 1, j + 1)

Rest(str, i) == Slice(str, i, Len(str) - 1)

\* The first place from start on where P holds; -1 if there is none.
Search(str, start, P(_)) ==
  LET found == {i \in start..(Len(str) - 1) : P(i)}
  IN  IF found = {} THEN -1 ELSE Min(found)

\* Backwards, for another character than el.
anti_searcha(str, el, start) ==
  LET found == {i \in 0..start : At(str, i) # el}
  IN  IF found = {} THEN -1 ELSE Max(found)
-----------------------------------------------------------------------------
(* StringLib.                                                              *)

searcha_any(str, elements, start) == Search(str, start, LAMBDA i : At(str, i) \in elements)

find_nonws(str, start) ==
  LET pos == Search(str, start, LAMBDA i : At(str, i) # Blank)
  IN  IF pos # -1 THEN pos ELSE IF start < Len(str) THEN Len(str) ELSE start

\* Backslashes can be escaped too: an odd number of them escapes.
is_escaped(str, index) ==
  LET last_non_bs == anti_searcha(str, Backslash, index - 1)
  IN  (index - last_non_bs + 1) % 2 = 1

search_str_unescaped(str, el, pos) ==
  Search(str, pos, LAMBDA i : At(str, i) = el /\ ~is_escaped(str, i))

\* The last character of a quoted string or of a word.
match_quote(str, start) ==
  LET end == IF At(str, start) \in QUOTE_CHARS
               THEN search_str_unescaped(str, At(str, start), start + 1)
               ELSE search_str_unescaped(str, Blank, start + 1) - 1
  IN  IF end < 0 THEN Len(str) - 1 ELSE end

unescape(str) ==
  LET from[i \in 0..Len(str)] ==
        LET next == Search(str, i, LAMBDA j : At(str, j) = Backslash)
        IN  IF next = -1 THEN Rest(str, i)
              ELSE IF next = Len(str) - 1 THEN Slice(str, i, next - 1)
              ELSE Slice(str, i, next - 1) \o <<At(str, next + 1)>> \o from[next + 2]
  IN  from[0]

unquote(str) ==
  IF Len(str) >= 2 /\ At(str, 0) \in QUOTE_CHARS /\ Last(str) = At(str, 0)
    THEN Slice(str, 1, Len(str) - 2) ELSE str
-----------------------------------------------------------------------------
(* ArgumentLib.                                                            *)

explode_args(arg) ==
  LET from[pos \in 0..Len(arg)] ==
        LET start == find_nonws(arg, pos)
            newpos == match_quote(arg, start)
        IN  IF pos = Len(arg) THEN <<>>
              ELSE <<unescape(unquote(Slice(arg, start, newpos)))>> \o from[newpos + 1]
  IN  from[0]

Opens == Range(DEFAULT_OPEN)

Closing(c) == DEFAULT_CLOSE[CHOOSE i \in DOMAIN DEFAULT_OPEN : DEFAULT_OPEN[i] = c]

Both == Opens \cup Range(DEFAULT_CLOSE)

\* The place of the character that closes the one at start; zero or less if
\* there is none.
find_close_char(str, start) ==
  LET close[cursor \in 0..Len(str)] == [opened \in 0..(Len(str) - 1) |->
        LET first == searcha_any(str, Both, cursor)
            inner == close[first + 1][first]
        IN  IF first = -1 THEN -opened
              ELSE IF At(str, first) = Closing(At(str, opened)) THEN first
              ELSE IF At(str, first) \notin Opens THEN -opened
              ELSE IF inner < 0 THEN inner
              ELSE close[inner + 1][opened]]
      result == close[start + 1][start]
  IN  IF result <= 0 THEN result - 1 ELSE result

explode_unescaped(str, delim) ==
  LET parts[cursor \in 0..Len(str)] == [start \in 0..Len(str) |->
        LET found == Search(str, cursor, LAMBDA i : At(str, i) = delim)
        IN  IF found = -1 THEN <<Rest(str, start)>>
              ELSE IF is_escaped(str, found) THEN parts[found + 1][start]
              ELSE <<Slice(str, start, found - 1)>> \o parts[found + 1][found + 1]]
  IN  parts[0][0]

\* An opening character before the next delimiter moves the cursor behind the
\* one that closes it.  The result is empty where none does.
explode_nested(str, delim) ==
  LET parts[cursor \in 0..Len(str)] == [start \in 0..Len(str) |->
        LET next_delim == Search(str, cursor, LAMBDA i : At(str, i) = delim)
            next_open == searcha_any(str, Opens, cursor)
            close == find_close_char(str, next_open)
            rest == parts[next_delim + 1][next_delim + 1]
        IN  IF next_delim = -1 THEN <<Rest(str, start)>>
              ELSE IF is_escaped(str, next_delim) THEN parts[next_delim + 1][start]
              ELSE IF next_open # -1 /\ next_open < next_delim
                THEN IF close <= 0 THEN <<>> ELSE parts[close + 1][start]
              ELSE IF rest = <<>> THEN <<>>
              ELSE <<Slice(str, start, next_delim - 1)>> \o rest]
  IN  parts[0][0]
-----------------------------------------------------------------------------
(* What is split, and what it was made from.                               *)

Escaped(word, chars) ==
  FlattenSeq([i \in DOMAIN word |->
                IF word[i] \in chars THEN <<Backslash, word[i]>> ELSE <<word[i]>>])

Joined(parts, delim) ==
  FlattenSeq([i \in DOMAIN parts |-> IF i = 1 THEN parts[i] ELSE <<delim>> \o parts[i]])

\* How a player may write a word.
Quoted(word) == <<"\"">> \o Escaped(word, {"\"", Backslash}) \o <<"\"">>

Bare(word) == Escaped(word, {Blank, Backslash} \cup QUOTE_CHARS)

AsWritten(word, bare) == IF bare /\ word # <<>> THEN Bare(word) ELSE Quoted(word)

\* The characters still open behind the first n of str, "wrong" where one is
\* closed that is not the last opened.
Open(str) ==
  LET after[n \in 0..Len(str)] ==
        LET top == IF after[n - 1] = <<>> THEN "none" ELSE Last(after[n - 1])
        IN  CASE n = 0 -> <<>>
              [] n > 0 /\ str[n] \notin Both -> after[n - 1]
              [] n > 0 /\ str[n] \in Both ->
                   IF top \in Opens /\ str[n] = Closing(top) THEN Front(after[n - 1])
                     ELSE Append(after[n - 1], IF str[n] \in Opens THEN str[n] ELSE "wrong")
  IN  after

WellNested(str) == Open(str)[Len(str)] = <<>>

\* One character after the other goes to the last part; a delimiter outside of
\* everything begins another.
Between(str, delim) ==
  LET parts[n \in 0..Len(str)] ==
        LET before == parts[n - 1]
        IN  IF n = 0 THEN <<<<>>>>
              ELSE IF str[n] = delim /\ Open(str)[n] = <<>> THEN Append(before, <<>>)
              ELSE Append(Front(before), Append(Last(before), str[n]))
  IN  parts[Len(str)]

Chars(n, chars) == UNION {[1..k -> chars] : k \in 0..n}

Lists(n, words) == UNION {[1..k -> words] : k \in 1..n}

TextInputs ==
  [kind : {"bare", "quoted"},
   parts : Lists(2, Chars(2, {"a", Blank, "\"", Backslash}))] \cup
  [kind : {"list"}, parts : Lists(3, Chars(2, {"a", ",", Backslash}))] \cup
  [kind : {"nested"}, parts : Lists(1, Chars(5, {"a", ",", "(", ")", "\""}))]

\* Words that were quoted, or escaped, and joined by blanks are read again as
\* they were; so are the parts of a list whose delimiters are escaped; and a
\* text in which all brackets and quotes are closed in order is split at the
\* delimiters outside of them and nowhere else.
TextIsSplit(input) ==
  LET written == [i \in DOMAIN input.parts |-> AsWritten(input.parts[i], input.kind = "bare")]
      escaped == [i \in DOMAIN input.parts |-> Escaped(input.parts[i], {",", Backslash})]
      parts(texts) == [i \in DOMAIN texts |-> unescape(texts[i])]
  IN  CASE input.kind \in {"bare", "quoted"} ->
             \A blank \in {<<>>, <<Blank>>} :
               explode_args(blank \o Joined(written, Blank)) = input.parts
        [] input.kind = "list" ->
             parts(explode_unescaped(Joined(escaped, ","), ",")) = input.parts
        [] input.kind = "nested" ->
             WellNested(input.parts[1]) =>
               explode_nested(input.parts[1], ",") = Between(input.parts[1], ",")
=============================================================================
