----------------------------- MODULE MCQueries -----------------------------
(***************************************************************************)
(* A project for the queries.  Each text is written as its tokens, those   *)
(* with nothing between them in one sequence; the comment at a line has    *)
(* the place of the first of its tokens.                                   *)
(***************************************************************************)
EXTENDS Queries

SequencesX == INSTANCE SequencesExt

KindOf(token) ==
    CASE token = "->" -> "arrow"
      [] token = "::" -> "scope"
      [] token \in {"{", "}", "(", ")", ";", ":", "?", "="} -> "other"
      [] token \in {"$this", "$a", "$b", "$c", "$p", "$x", "$handler"} -> "variable"
      [] OTHER -> "name"

TokensOf(pieces) ==
    SequencesX!FlattenSeq([n \in DOMAIN pieces |->
      [k \in DOMAIN pieces[n] |->
        [kind |-> KindOf(pieces[n][k]), text |-> pieces[n][k], joined |-> k > 1]]])

\* The symbols are written as rows, with the place of the name behind the kind:
\*   <<"class" or "function", at, name, start, end of the scope>>
\*   <<"method", at, name, start, end, owner, type>>
\*   <<"property" or "parameter", at, name, owner, type>>
\*   <<"local", at, name, owner, type, source>>
\*   <<"usage", at, definition>>
\*   <<"methodCall" or "propertyAccess", at, name, owner, variable, receiver>>
\*   <<"classReference" or "functionCall", at, name>>
Range(start, end) == [start |-> start, end |-> end]

SymbolOf(row) ==
    LET kind == row[1]
        span == Range(row[2], row[2] + 1)
    IN  CASE kind \in {"class", "function"} ->
               [kind |-> kind, span |-> span, name |-> row[3], scope |-> Range(row[4], row[5])]
          [] kind = "method" ->
               [kind |-> kind, span |-> span, name |-> row[3], scope |-> Range(row[4], row[5]),
                owner |-> row[6], type |-> row[7]]
          [] kind \in {"property", "parameter"} ->
               [kind |-> kind, span |-> span, name |-> row[3], owner |-> row[4], type |-> row[5]]
          [] kind = "local" ->
               [kind |-> kind, span |-> span, name |-> row[3], owner |-> row[4], type |-> row[5],
                source |-> row[6], element |-> FALSE]
          [] kind = "usage" -> [kind |-> kind, span |-> span, definition |-> row[3]]
          [] kind \in MemberKinds ->
               [kind |-> kind, span |-> span, name |-> row[3], owner |-> row[4],
                variable |-> row[5], receiver |-> row[6]]
          [] OTHER -> [kind |-> kind, span |-> span, name |-> row[3]]

PhpA == <<
    <<"class">>, <<"A">>, <<"{">>,                                                     \* 0
    <<"public">>, <<"?", "B">>, <<"$b", ";">>,                                         \* 3
    <<"function">>, <<"next", "(", ")", ":">>, <<"self">>, <<"{", "}">>,               \* 8
    <<"function">>, <<"__construct", "(", "private">>, <<"B">>, <<"$c", ")">>, <<"{">>,  \* 16
    <<"$c", "->", "run", "(", ")", ";">>, <<"}">>,                                     \* 24
    <<"}">> >>                                                                        \* 31
TextA == <<
    <<"class", 1, "A", 0, 32>>,
    <<"property", 6, "b", 1, UnionType(<<ClassType("B"), Null>>)>>,
    <<"property", 21, "c", 1, ClassType("B")>>,
    <<"method", 9, "next", 8, 16, 1, ClassType("self")>>,
    <<"method", 17, "__construct", 16, 31, 1, NONE>>,
    <<"parameter", 21, "$c", 5, ClassType("B")>>,
    <<"usage", 24, 6>>,
    <<"methodCall", 26, "run", 5, "$c", NONE>>,
    <<"classReference", 5, "B">>,
    <<"classReference", 13, "A">>,
    <<"classReference", 20, "B">> >>

PhpB == <<
    <<"class">>, <<"B">>, <<"{">>,                                                     \* 0
    <<"function">>, <<"run", "(", ")", ":">>, <<"B">>, <<"{", "}">>,                   \* 3
    <<"function">>, <<"twice", "(", ")">>, <<"{">>,                                    \* 11
    <<"$this", "->", "run", "(", ")", "->", "run", "(", ")", ";">>,                    \* 16
    <<"$this">>,                                                                       \* 26
    <<"->", "run", "(", ")", ";">>,                                                    \* 27
    <<"$this", "?", "->", "run", "(", ")", ";">>, <<"}">>,                             \* 32
    <<"}">> >>                                                                        \* 40
TextB == <<
    <<"class", 1, "B", 0, 41>>,
    <<"method", 4, "run", 3, 11, 1, ClassType("B")>>,
    <<"method", 12, "twice", 11, 40, 1, NONE>>,
    <<"usage", 16, NONE>>,
    <<"usage", 26, NONE>>,
    <<"usage", 32, NONE>>,
    <<"methodCall", 18, "run", 3, "$this", NONE>>,
    <<"methodCall", 22, "run", 3, NONE, 7>>,
    <<"methodCall", 28, "run", 3, "$this", NONE>>,
    <<"methodCall", 35, "run", 3, "$this", NONE>>,
    <<"classReference", 8, "B">> >>

PhpUse == <<
    <<"function">>, <<"f", "(", "A">>, <<"$p", ")">>, <<"{">>,                         \* 0
    <<"$x">>, <<"=">>, <<"$p", "->", "next", "(", ")", ";">>,                          \* 7
    <<"function">>, <<"g", "(", "B">>, <<"$x", ")">>, <<"{">>,                         \* 15
    <<"$x", "->", "run", "(", ")", ";">>, <<"}">>,                                     \* 22
    <<"$x", "->", "b", ";">>,                                                          \* 29
    <<"$p", "->", "$x", ";">>,                                                         \* 33
    <<"A", "::", "$x", "->", "b", ";">>,                                               \* 37
    <<"}">> >>                                                                        \* 43
TextUse == <<
    <<"function", 1, "f", 0, 44>>,
    <<"function", 16, "g", 15, 29>>,
    <<"parameter", 4, "$p", 1, ClassType("A")>>,
    <<"parameter", 19, "$x", 2, ClassType("B")>>,
    <<"local", 7, "$x", 1, NONE, 11>>,
    <<"usage", 9, 3>>,
    <<"usage", 22, 4>>,
    <<"usage", 29, 5>>,
    <<"usage", 33, 3>>,
    <<"usage", 35, 5>>,
    <<"methodCall", 11, "next", 1, "$p", NONE>>,
    <<"methodCall", 24, "run", 2, "$x", NONE>>,
    <<"propertyAccess", 31, "b", 1, "$x", NONE>>,
    <<"usage", 39, 5>>,
    <<"propertyAccess", 41, "b", 1, NONE, NONE>>,
    <<"classReference", 3, "A">>,
    <<"classReference", 18, "B">>,
    <<"classReference", 37, "A">> >>

PhpLoop == <<
    <<"$handler">>, <<"=">>, <<"function">>, <<"(", "A">>, <<"$p", ")">>, <<"{">>,      \* 0
    <<"$p", "->", "b", ";">>, <<"}", ";">>,                                            \* 8
    <<"f", "(", "$handler", ")", ";">>,                                                \* 14
    <<"function">>, <<"h", "(", "?", "A">>, <<"$a", ")">>, <<"{">>,                    \* 19
    <<"$a">>, <<"=">>, <<"$b", "->", "next", "(", ")", ";">>,                          \* 27
    <<"$b">>, <<"=">>, <<"$a", "->", "next", "(", ")", ";">>,                          \* 35
    <<"$a", "->", "b", ";">>,                                                          \* 43
    <<"new">>, <<"class">>, <<"{">>, <<"public">>, <<"$a", ";">>, <<"}", ";">>,        \* 47
    <<"}">> >>                                                                        \* 55
TextLoop == <<
    <<"function", 20, "h", 19, 56>>,
    <<"property", 51, "a", NONE, NONE>>,
    <<"parameter", 5, "$p", NONE, ClassType("A")>>,
    <<"parameter", 24, "$a", 1, UnionType(<<ClassType("A"), Null>>)>>,
    <<"local", 27, "$a", 1, NONE, 11>>,
    <<"local", 35, "$b", 1, NONE, 12>>,
    <<"usage", 29, NONE>>,
    <<"usage", 37, 5>>,
    <<"usage", 43, 5>>,
    <<"usage", 51, 5>>,
    <<"methodCall", 31, "next", 1, "$b", NONE>>,
    <<"methodCall", 39, "next", 1, "$a", NONE>>,
    <<"propertyAccess", 45, "b", 1, "$a", NONE>>,
    <<"propertyAccess", 10, "b", NONE, "$p", NONE>>,
    <<"functionCall", 14, "f">>,
    <<"classReference", 4, "A">>,
    <<"classReference", 23, "A">> >>

PhpA2 == <<
    <<"class">>, <<"A">>, <<"{">>,                                                     \* 0
    <<"function">>, <<"next", "(", ")", ":">>, <<"B">>, <<"{", "}">>, <<"}">>,         \* 3
    <<"function">>, <<"k", "(", ")">>, <<"{">>,                                        \* 12
    <<"$c">>, <<"=">>, <<"new">>, <<"A", ";">>,                                        \* 17
    <<"$c", "->", "next", "(", ")", "->", "run", "(", ")", ";">>, <<"}">> >>          \* 22
TextA2 == <<
    <<"class", 1, "A", 0, 12>>,
    <<"method", 4, "next", 3, 11, 1, ClassType("B")>>,
    <<"function", 13, "k", 12, 33>>,
    <<"local", 17, "$c", 3, ClassType("A"), NONE>>,
    <<"usage", 22, 4>>,
    <<"methodCall", 24, "next", 3, "$c", NONE>>,
    <<"methodCall", 28, "run", 3, NONE, 6>>,
    <<"classReference", 8, "B">>,
    <<"classReference", 20, "A">> >>

QueryTexts == {"", "A", "A2", "B", "use", "loop"}
QueryTokens == [ t \in QueryTexts |-> TokensOf(
    CASE t = "" -> << >>
      [] t = "A" -> PhpA
      [] t = "A2" -> PhpA2
      [] t = "B" -> PhpB
      [] t = "use" -> PhpUse
      [] t = "loop" -> PhpLoop) ]
QueryRows == [ t \in QueryTexts |->
    CASE t = "" -> << >>
      [] t = "A" -> TextA
      [] t = "A2" -> TextA2
      [] t = "B" -> TextB
      [] t = "use" -> TextUse
      [] t = "loop" -> TextLoop ]
QuerySymbols == [ t \in QueryTexts |-> [i \in DOMAIN QueryRows[t] |-> SymbolOf(QueryRows[t][i])] ]
=============================================================================
