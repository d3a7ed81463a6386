---------------------------------- MODULE Json ----------------------------------
(***************************************************************************)
(* JSON text as the writers of the repository put it together and as the   *)
(* parser in TraceJsonDiff.cpp takes it apart.  A text is a sequence of    *)
(* tokens, whitespace left out.  The contents of a string are a word that  *)
(* needs no escapes, followed by characters that may.                      *)
(***************************************************************************)
EXTENDS Integers, Sequences, SequencesExt

\* JsonValue
Null == [type |-> "null", boolean |-> FALSE, number |-> 0,
         string |-> [word |-> "", text |-> <<>>], array |-> <<>>, object |-> <<>>]

Boolean(b) == [Null EXCEPT !.type = "boolean", !.boolean = b]

Number(n) == [Null EXCEPT !.type = "number", !.number = n]

Words(w) == [word |-> w, text |-> <<>>]

Text(cs) == [word |-> "", text |-> cs]

String(s) == [Null EXCEPT !.type = "string", !.string = s]

Array(vs) == [Null EXCEPT !.type = "array", !.array = vs]

Object(f) == [Null EXCEPT !.type = "object", !.object = f]

-------------------------------------------------------------------------------
(* Writing.                                                                 *)

\* Characters that end a string, begin an escape, have an escape of their own,
\* or are control characters without one.
Quote == "\""
Backslash == "\\"
Newline == "\n"
Control == "^A"

escapeJson(cs) ==
    FlattenSeq([i \in DOMAIN cs |->
        CASE cs[i] \in {Quote, Backslash} -> <<Backslash, cs[i]>>
          [] cs[i] = Newline -> <<Backslash, "n">>
          [] cs[i] = Control -> <<Backslash, "u", Control>>
          [] OTHER -> <<cs[i]>>])

Token(sym) == [sym |-> sym, number |-> 0, word |-> "", raw |-> <<>>]

NumberToken(n) == [Token("number") EXCEPT !.number = n]

\* A string with what stands between its quotes, the closing one included.
StringToken(s) ==
    [Token("string") EXCEPT !.word = s.word, !.raw = escapeJson(s.text) \o <<Quote>>]

finishField(comma) == IF comma THEN <<Token(",")>> ELSE <<>>

Field(name, value, comma) ==
    <<StringToken(Words(name)), Token(":")>> \o value \o finishField(comma)

stringField(name, s, comma) == Field(name, <<StringToken(s)>>, comma)

\* sizeField, int64Field and uint64Field
numberField(name, n, comma) == Field(name, <<NumberToken(n)>>, comma)

boolField(name, b, comma) == Field(name, <<Token(IF b THEN "true" ELSE "false")>>, comma)

nullField(name, comma) == Field(name, <<Token("null")>>, comma)

Braces(body) == <<Token("{")>> \o body \o <<Token("}")>>

Brackets(body) == <<Token("[")>> \o body \o <<Token("]")>>

\* The loop that writes elements and a comma after all but the last.
Elements(es) ==
    FlattenSeq([i \in DOMAIN es |-> es[i] \o finishField(i < Len(es))])

\* A run of number fields, each followed by a comma.
numberFields(names, n(_)) ==
    FlattenSeq([i \in DOMAIN names |-> numberField(names[i], n(names[i]), TRUE)])

wordFields(names, w(_)) ==
    FlattenSeq([i \in DOMAIN names |-> stringField(names[i], Words(w(names[i])), TRUE)])

boolFields(names, b(_)) ==
    FlattenSeq([i \in DOMAIN names |-> boolField(names[i], b(names[i]), TRUE)])

-------------------------------------------------------------------------------
(* Parsing.                                                                 *)

RECURSIVE parseString(_, _)
\* parseString after the opening quote: the contents, and whether the quote
\* that ends them ends the token.
parseString(raw, text) ==
    IF raw = <<>> THEN [ok |-> FALSE, text |-> text]
    ELSE CASE Head(raw) = Quote -> [ok |-> Len(raw) = 1, text |-> text]
           [] Head(raw) \in {Newline, Control} -> [ok |-> FALSE, text |-> text]
           [] Head(raw) = Backslash ->
                IF Len(raw) < 2 THEN [ok |-> FALSE, text |-> text]
                ELSE CASE raw[2] \in {Quote, Backslash} ->
                            parseString(Tail(Tail(raw)), Append(text, raw[2]))
                       [] raw[2] = "n" -> parseString(Tail(Tail(raw)), Append(text, Newline))
                       [] raw[2] = "u" /\ Len(raw) > 2 ->
                            parseString(SubSeq(raw, 4, Len(raw)), Append(text, raw[3]))
                       [] OTHER -> [ok |-> FALSE, text |-> text]
           [] OTHER -> parseString(Tail(raw), Append(text, Head(raw)))

Failure == [ok |-> FALSE, value |-> Null, next |-> 0]

Parsed(v, i) == [ok |-> TRUE, value |-> v, next |-> i]

SymAt(ts, i) == IF i \in DOMAIN ts THEN ts[i].sym ELSE "end"

WithField(f, key, v) == [k \in DOMAIN f \cup {key} |-> IF k = key THEN v ELSE f[k]]

DuplicateKey(f, key) == key \in DOMAIN f

RECURSIVE parseValue(_, _), parseMembers(_, _, _), parseElements(_, _, _)

parseMembers(ts, i, f) ==
    IF SymAt(ts, i) # "string" \/ SymAt(ts, i + 1) # ":" THEN Failure
    ELSE LET v == parseValue(ts, i + 2)
             g == WithField(f, ts[i].word, v.value)
         IN IF ~v.ok \/ DuplicateKey(f, ts[i].word) THEN Failure
            ELSE CASE SymAt(ts, v.next) = "}" -> Parsed(Object(g), v.next + 1)
                   [] SymAt(ts, v.next) = "," -> parseMembers(ts, v.next + 1, g)
                   [] OTHER -> Failure

parseElements(ts, i, vs) ==
    LET v == parseValue(ts, i)
    IN IF ~v.ok THEN Failure
       ELSE CASE SymAt(ts, v.next) = "]" -> Parsed(Array(Append(vs, v.value)), v.next + 1)
              [] SymAt(ts, v.next) = "," -> parseElements(ts, v.next + 1, Append(vs, v.value))
              [] OTHER -> Failure

parseValue(ts, i) ==
    CASE SymAt(ts, i) = "{" ->
            IF SymAt(ts, i + 1) = "}" THEN Parsed(Object(<<>>), i + 2)
            ELSE parseMembers(ts, i + 1, <<>>)
      [] SymAt(ts, i) = "[" ->
            IF SymAt(ts, i + 1) = "]" THEN Parsed(Array(<<>>), i + 2)
            ELSE parseElements(ts, i + 1, <<>>)
      [] SymAt(ts, i) = "string" ->
            LET s == parseString(ts[i].raw, <<>>)
            IN IF s.ok THEN Parsed(String([word |-> ts[i].word, text |-> s.text]), i + 1)
               ELSE Failure
      [] SymAt(ts, i) = "number" -> Parsed(Number(ts[i].number), i + 1)
      [] SymAt(ts, i) = "true" -> Parsed(Boolean(TRUE), i + 1)
      [] SymAt(ts, i) = "false" -> Parsed(Boolean(FALSE), i + 1)
      [] SymAt(ts, i) = "null" -> Parsed(Null, i + 1)
      [] OTHER -> Failure

\* parse: a value and nothing behind it.
parse(ts) ==
    LET v == parseValue(ts, 1)
    IN IF v.ok /\ v.next = Len(ts) + 1 THEN v ELSE Failure
===============================================================================
