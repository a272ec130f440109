------------------------------- MODULE JSONLib -------------------------------
(***************************************************************************)
(* JSONLib (.lib/json.c): LPC values to JSON text and back.                *)
(*                                                                         *)
(* A text is a sequence of characters, of which "lf" stands for the line   *)
(* ends and "tab" for the other control characters.  A value has a type, a *)
(* text if it is a number or a string, and parts if it is made of others:  *)
(* the elements of an array, the keys and values of a mapping in turn      *)
(* ("multi": two values for each key).  "object" is any value that JSON    *)
(* has no text for, "inner" a reference to a structure from within it.     *)
(* Left out: \uXXXX, which json_encode() does not write.                   *)
(***************************************************************************)
EXTENDS Integers, Sequences, SequencesExt

Value(t, text, parts) == [t |-> t, text |-> text, parts |-> parts]

Number(text) == Value("number", text, <<>>)

NumberZero == Number(<<"0">>)

Text(chars) == Value("string", chars, <<>>)

Quote == "\""

Backslash == "\\"

Blanks == {" ", "tab", "lf"}

Digits == {"0", "1", "2"}
-----------------------------------------------------------------------------
(* json_encode().                                                          *)

Replaced(s, c, by) == FlattenSeq([i \in DOMAIN s |-> IF s[i] = c THEN by ELSE <<s[i]>>])

\* replace_string(s, "\\\"", "\""): a backslash before a quote goes.
Unescaped(s) ==
  LET keep(i) == ~(s[i] = Backslash /\ i < Len(s) /\ s[i + 1] = Quote)
  IN  FlattenSeq([i \in DOMAIN s |-> IF keep(i) THEN <<s[i]>> ELSE <<>>])

\* Fault: the backslashes are doubled before the quotes are escaped.
EncodedStringSwapped(s) ==
  <<Quote>> \o Replaced(Unescaped(Replaced(s, Backslash, <<Backslash, Backslash>>)),
                        Quote, <<Backslash, Quote>>) \o <<Quote>>

\* The quotes are escaped, then the backslashes doubled, those before a quote
\* made single again: also the one that ends the string.
EncodedString(s) ==
  LET quoted == <<Quote>> \o Replaced(s, Quote, <<Backslash, Quote>>) \o <<Quote>>
      doubled == Unescaped(Replaced(quoted, Backslash, <<Backslash, Backslash>>))
  IN  Replaced(Replaced(doubled, "lf", <<Backslash, "n">>), "tab", <<Backslash, "t">>)

Null == <<"n", "u", "l", "l">>

True == <<"t", "r", "u", "e">>

False == <<"f", "a", "l", "s", "e">>

Width(v) == IF v.t = "multi" THEN 3 ELSE 2

\* The values filed under the i-th key of a mapping.
Filed(v, i) == SubSeq(v.parts, Width(v) * (i - 1) + 2, Width(v) * i)

Keys(v) == [i \in 1..(Len(v.parts) \div Width(v)) |-> v.parts[Width(v) * (i - 1) + 1]]

\* Keys that are no strings are skipped.
StringKeys(v) == SelectSeq([i \in 1..Len(Keys(v)) |-> i],
                           LAMBDA i : Keys(v)[i].t = "string")

\* `out` is not set where nothing is added to it, but for a mapping of one value
\* for each key: 0, which sprintf() makes a "0" of, or an error of the driver's.
\* "unset" stands for both, as json_decode() has no use for either.
Unset(text) == IF text = <<>> THEN <<"unset">> ELSE text

Commas(texts) ==
  FlattenSeq([i \in DOMAIN texts |-> IF i = 1 THEN texts[i] ELSE <<",">> \o texts[i]])

RECURSIVE json_encode(_)
json_encode(v) ==
  LET elements(parts) ==
        <<"[">> \o Unset(Commas([i \in DOMAIN parts |-> json_encode(parts[i])])) \o <<"]">>
      filed(i) == IF v.t = "multi" THEN elements(Filed(v, i))
                    ELSE json_encode(Filed(v, i)[1])
      fields == [n \in DOMAIN StringKeys(v) |->
                   EncodedString(Keys(v)[StringKeys(v)[n]].text) \o <<":">>
                     \o filed(StringKeys(v)[n])]
  IN  CASE v.t \in {"number", "float"} -> v.text
        [] v.t = "string" -> EncodedString(v.text)
        [] v.t = "mapping" -> <<"{">> \o Commas(fields) \o <<"}">>
        [] v.t = "multi" -> <<"{">> \o Unset(Commas(fields)) \o <<"}">>
        [] v.t = "array" -> elements(v.parts)
        [] OTHER -> Null
-----------------------------------------------------------------------------
(* json_decode(): each parser gives a value and where it ends, or Error.   *)

Error == [value |-> Value("error", <<>>, <<>>), next |-> 0]

At(text, pos) ==
  IF pos <= Len(text) THEN text[pos] ELSE IF pos = Len(text) + 1 THEN "end" ELSE "outside"

Result(value, next) == [value |-> value, next |-> next]

RECURSIVE skip(_, _)
skip(text, pos) == IF At(text, pos) \in Blanks THEN skip(text, pos + 1) ELSE pos

RECURSIVE string_rest(_, _, _, _)
string_rest(text, pos, esc_state, out) ==
  LET char == At(text, pos)
      plain == CASE char = "n" -> "lf" [] char = "t" -> "tab" [] OTHER -> char
  IN  CASE char = "end" -> Error
        [] char # "end" /\ esc_state ->
             string_rest(text, pos + 1, FALSE, Append(out, plain))
        [] ~esc_state /\ char = Backslash -> string_rest(text, pos + 1, TRUE, out)
        [] ~esc_state /\ char = Quote -> Result(Text(out), pos + 1)
        [] OTHER -> string_rest(text, pos + 1, FALSE, Append(out, char))

json_decode_parse_string(text, pos) ==
  IF At(text, pos) = Quote THEN string_rest(text, pos + 1, FALSE, <<>>) ELSE Error

\* The loop over the characters of a number, with the places of its dot and
\* exponent, 0 for none.
RECURSIVE number_rest(_, _, _, _, _)
number_rest(text, from, pos, dot, exp) ==
  LET ch == At(text, pos)
      number == SubSeq(text, from, pos - 1)
  IN  CASE ch = "outside" -> Error
        [] ch = "." -> IF dot # 0 \/ exp # 0 THEN Error
                         ELSE number_rest(text, from, pos + 1, pos, exp)
        [] ch \in Digits -> number_rest(text, from, pos + 1, dot, exp)
        [] ch = "e" -> IF exp # 0 THEN Error ELSE number_rest(text, from, pos + 1, dot, pos)
        [] ch = "-" /\ exp = pos - 1 -> number_rest(text, from, pos + 1, dot, exp)
        [] OTHER -> IF dot = pos - 1 THEN Error
                      ELSE Result(Value(IF dot = 0 /\ exp = 0 THEN "number" ELSE "float",
                                        number, <<>>), pos)

\* A zero must be followed by a comma, a brace or a dot; at the end of the text
\* the parser runs over it.
json_decode_parse_number(text, pos) ==
  LET zero == IF At(text, pos) = "-" /\ At(text, pos + 1) = "0" THEN pos + 1 ELSE pos
      after == At(text, zero + 1)
  IN  CASE At(text, zero) # "0" -> number_rest(text, pos, pos + 1, 0, 0)
        [] At(text, zero) = "0" /\ after \in {",", "}"} -> Result(NumberZero, zero + 1)
        [] At(text, zero) = "0" /\ after = "." ->
             number_rest(text, pos, zero + 2, zero + 1, 0)
        [] OTHER -> Error

Token(text, pos, token) == SubSeq(text, pos, pos + Len(token) - 1) = token

RECURSIVE json_decode_parse_value(_, _)
RECURSIVE elements_rest(_, _, _)
RECURSIVE fields_rest(_, _, _)

\* What follows "[" or a comma in an array, and "{" or a comma in an object.
elements_rest(text, pos, out) ==
  LET r == json_decode_parse_value(text, pos)
      next == skip(text, r.next)
  IN  CASE r = Error -> Error
        [] r # Error /\ At(text, next) = "," ->
             elements_rest(text, next + 1, Append(out, r.value))
        [] r # Error /\ At(text, next) = "]" ->
             Result(Value("array", <<>>, Append(out, r.value)), next + 1)
        [] OTHER -> Error

fields_rest(text, pos, out) ==
  LET key == json_decode_parse_string(text, skip(text, pos))
      sep == skip(text, key.next)
      r == json_decode_parse_value(text, sep + 1)
      next == skip(text, r.next)
      all == out \o <<key.value, r.value>>
  IN  IF key = Error \/ At(text, sep) # ":" THEN Error
        ELSE CASE r = Error -> Error
               [] r # Error /\ At(text, next) = "," -> fields_rest(text, next + 1, all)
               [] r # Error /\ At(text, next) = "}" ->
                    Result(Value("mapping", <<>>, all), next + 1)
               [] OTHER -> Error

json_decode_parse_object(text, pos) ==
  IF At(text, pos + 1) = "}" THEN Result(Value("mapping", <<>>, <<>>), pos + 2)
    ELSE fields_rest(text, pos + 1, <<>>)

json_decode_parse_array(text, pos) ==
  IF At(text, pos + 1) = "]" THEN Result(Value("array", <<>>, <<>>), pos + 2)
    ELSE elements_rest(text, pos + 1, <<>>)

json_decode_parse_value(text, blank) ==
  LET pos == skip(text, blank)
      ch == At(text, pos)
  IN  CASE ch = "{" -> json_decode_parse_object(text, pos)
        [] ch = "[" -> json_decode_parse_array(text, pos)
        [] ch = Quote -> json_decode_parse_string(text, pos)
        [] ch \in Digits \cup {"-"} -> json_decode_parse_number(text, pos)
        [] ch = "t" /\ Token(text, pos, True) -> Result(Number(<<"1">>), pos + 4)
        [] ch = "f" /\ Token(text, pos, False) -> Result(NumberZero, pos + 5)
        [] ch = "n" /\ Token(text, pos, Null) -> Result(NumberZero, pos + 4)
        [] OTHER -> Error

\* Only blanks may follow the value.
json_decode(text) ==
  LET r == json_decode_parse_value(text, 1)
  IN  IF r # Error /\ At(text, skip(text, r.next)) = "end" THEN r.value ELSE Error.value
-----------------------------------------------------------------------------
(* What comes back, by a definition on values.                             *)

\* The JSON text of a value with a blank after every token, as others may write
\* it: it stands for the same value.
RECURSIVE Spaced(_)
Spaced(v) ==
  LET fields == [n \in DOMAIN StringKeys(v) |->
                   EncodedString(Keys(v)[StringKeys(v)[n]].text) \o <<" ", ":", " ">>
                     \o Spaced(Filed(v, StringKeys(v)[n])[1])]
      elements == [i \in DOMAIN v.parts |-> Spaced(v.parts[i])]
  IN  CASE v.t = "array" -> <<"[", " ">> \o Commas(elements) \o <<"]", " ">>
        [] v.t = "mapping" -> <<"{", " ">> \o Commas(fields) \o <<"}", " ">>
        [] v = Number(<<"1">>) -> True \o <<" ">>
        [] v.t = "object" -> False \o <<" ">>
        [] OTHER -> json_encode(v) \o <<" ">>

\* A value is restored but for what JSON has no text for.
RECURSIVE Restored(_)
Restored(v) ==
  LET array(parts) == Value("array", <<>>, [i \in DOMAIN parts |-> Restored(parts[i])])
      value(i) == IF v.t = "multi" THEN array(Filed(v, i)) ELSE Restored(Filed(v, i)[1])
      fields == [n \in DOMAIN StringKeys(v) |->
                   <<Keys(v)[StringKeys(v)[n]], value(StringKeys(v)[n])>>]
  IN  CASE v.t \in {"number", "float", "string"} -> v
        [] v.t = "array" -> array(v.parts)
        [] v.t \in {"mapping", "multi"} -> Value("mapping", <<>>, FlattenSeq(fields))
        [] OTHER -> NumberZero

\* A string that ends in a backslash does not close, a zero must be followed by a
\* comma or a brace, and an array must have elements, and a mapping of several
\* values for each key a key that is a string.
RECURSIVE Lost(_, _)
Lost(v, after) ==
  LET lost(parts) == \E i \in DOMAIN parts :
                       Lost(parts[i], IF i < Len(parts) /\ after # " " THEN ","
                                        ELSE IF after = " " THEN " " ELSE "]")
      value(i) == IF v.t = "multi" THEN lost(Filed(v, i))
                    ELSE Lost(Filed(v, i)[1], IF after = " " THEN " " ELSE ",")
  IN  CASE v.t = "number" -> v = NumberZero /\ after \notin {",", "}"}
        [] v.t = "string" -> v.text # <<>> /\ Last(v.text) = Backslash
        [] v.t = "array" -> v.parts = <<>> \/ lost(v.parts)
        [] v.t \in {"mapping", "multi"} ->
             \/ StringKeys(v) = <<>> /\ (v.t = "multi" \/ after = " ")
             \/ \E n \in DOMAIN StringKeys(v) :
                   LET i == StringKeys(v)[n] IN Lost(Keys(v)[i], ":") \/ value(i)
        [] OTHER -> FALSE
-----------------------------------------------------------------------------
(* The values that are tried.                                              *)

Chars == {"a", Quote, Backslash, "lf"}

Texts == {Text(s) : s \in BoundedSeq(Chars, 2)}

Leaves ==
  Texts \cup {NumberZero, Number(<<"1">>), Number(<<"2", "0">>), Number(<<"-", "1">>),
              Value("float", <<"0", ".", "2">>, <<>>),
              Value("float", <<"-", "0", ".", "1">>, <<>>),
              Value("float", <<"1", "e", "-", "2">>, <<>>),
              Value("object", <<>>, <<>>)}

FewLeaves == {NumberZero, Number(<<"1">>), Text(<<Backslash>>), Text(<<Quote>>), Value("inner", <<>>, <<>>)}

KeyValues == {Text(<<"a">>), Text(<<Quote>>), Text(<<Backslash>>), Number(<<"2">>)}

Structures(of) ==
  {Value("array", <<>>, <<x>>) : x \in of} \cup
  {Value("array", <<>>, <<x, y>>) : x \in of, y \in of} \cup
  {Value("array", <<>>, <<>>), Value("mapping", <<>>, <<>>)} \cup
  {Value("mapping", <<>>, <<k, x>>) : k \in KeyValues, x \in of} \cup
  {Value("mapping", <<>>, <<k, x, Text(<<"a", "a">>), y>>) :
     k \in KeyValues, x \in FewLeaves, y \in of}

Multis == {Value("multi", <<>>, <<k, x, y>>) : k \in KeyValues, x \in FewLeaves, y \in FewLeaves}

Inputs == Leaves \cup Structures(Leaves) \cup Multis \cup
  Structures(Structures({NumberZero, Text(<<Backslash>>)}))

\* A value that is written and read again is what it was, and so is JSON text
\* with blanks, but where json_decode() refuses the text: for strings that end in
\* a backslash, for zeros, for arrays without elements (json.c:744), and for
\* mappings of several values for each key of which none is a string (705).
JSONRestores(v) ==
  /\ json_decode(json_encode(v)) =
       IF Lost(v, "end") THEN Error.value ELSE Restored(v)
  /\ v \notin Multis =>
       json_decode(Spaced(v)) = IF Lost(v, " ") THEN Error.value ELSE Restored(v)
=============================================================================
