-------------------------------- MODULE HQL ---------------------------------
(* The parser of the query language over the concept table                    *)
(* (src/internal/hql/parser.go), on sequences of tokens, against a grammar    *)
(* that says nothing of how to parse.  Lexing, letter case and the wording of *)
(* errors are left out; keywords are words, as in the lexer, so that a field  *)
(* or a value can be spelled like one.                                        *)
EXTENDS Integers, Sequences, SequencesExt

CONSTANTS
  Tokens,       \* what is typed at a time: a token, or a whole comparison
  MaxTyped,     \* bound: how often
  MaxFree       \* bound: how often in any order, sensible or not

VARIABLE typed  \* the query so far

Keywords == {"AND", "OR", "NOT", "IN", "IS", "EMPTY", "ORDER", "BY", "ASC",
             "DESC", "LIMIT"}
Numbers == {"1", "2"}
Words == Keywords \cup Numbers \cup {"x"}
Literal == "'s'"
Operator == "="

----------------------------------------------------------------------------
(* The syntax tree (ast.go).                                                  *)

And(l, r) == [node |-> "and", l |-> l, r |-> r]
Or(l, r) == [node |-> "or", l |-> l, r |-> r]
Not(x) == [node |-> "not", x |-> x]
Comparison(field, op, values) ==
  [node |-> "cmp", field |-> field, op |-> op, values |-> values]
Value(kind, raw, args) == [kind |-> kind, raw |-> raw, args |-> args]
Word(raw) == Value("word", raw, <<>>)
Call(name) == Value("func", name, <<>>)

----------------------------------------------------------------------------
(* The parser: what it read and where it stands, or where it gave up.         *)

Ok(tree, pos) == [ok |-> TRUE, tree |-> tree, pos |-> pos]
Err(pos) == [ok |-> FALSE, pos |-> pos]

At(t, i) == IF i <= Len(t) THEN t[i] ELSE "EOF"

\* Go on where `read` stopped, or pass its error on.
Then(read, Continue(_)) == IF read.ok THEN Continue(read) ELSE read
Expect(t, read, token) ==
  Then(read, LAMBDA r : IF At(t, r.pos) = token THEN Ok(r.tree, r.pos + 1)
                        ELSE Err(r.pos))

RECURSIVE parseValue(_, _), Items(_, _, _), OrRest(_, _), AndRest(_, _),
          parseAnd(_, _), parseNot(_, _), parsePrimary(_, _), OrderRest(_, _)

\* The values of a list or of a call, up to its closing parenthesis; a comma
\* may stand before it.
Items(t, i, read) ==
  IF At(t, i) = ")" THEN Ok(read, i)
  ELSE Then(parseValue(t, i), LAMBDA v :
         IF At(t, v.pos) = "," THEN Items(t, v.pos + 1, Append(read, v.tree))
         ELSE Ok(Append(read, v.tree), v.pos))

parseValue(t, i) ==
  CASE At(t, i) = Literal -> Ok(Value("string", Literal, <<>>), i + 1)
    [] At(t, i) \in Words /\ At(t, i + 1) # "(" -> Ok(Word(t[i]), i + 1)
    [] At(t, i) \in Words /\ At(t, i + 1) = "(" ->
         Then(Expect(t, Items(t, i + 2, <<>>), ")"), LAMBDA args :
           Ok(Value("func", t[i], args.tree), args.pos))
    [] OTHER -> Err(i)

parseList(t, i, field, op) ==
  IF At(t, i) # "(" THEN Err(i)
  ELSE Then(Expect(t, Items(t, i + 1, <<>>), ")"), LAMBDA list :
         IF list.tree = <<>> THEN Err(list.pos)
         ELSE Ok(Comparison(field, op, list.tree), list.pos))

parseComparison(t, i) ==
  LET field == At(t, i) IN
  CASE field \notin Words -> Err(i)
    [] field \in Words /\ At(t, i + 1) = Operator ->
         Then(parseValue(t, i + 2), LAMBDA v :
           Ok(Comparison(field, Operator, <<v.tree>>), v.pos))
    [] field \in Words /\ At(t, i + 1) = "IN" ->
         parseList(t, i + 2, field, "in")
    [] field \in Words /\ At(t, i + 1) = "NOT" ->
         IF At(t, i + 2) = "IN" THEN parseList(t, i + 3, field, "notin")
         ELSE Err(i + 2)
    [] field \in Words /\ At(t, i + 1) = "IS" ->
         LET j == IF At(t, i + 2) = "NOT" THEN i + 3 ELSE i + 2
         IN  IF At(t, j) = "EMPTY"
             THEN Ok(Comparison(field, IF j = i + 2 THEN "empty" ELSE "notempty",
                                <<>>), j + 1)
             ELSE Err(j)
    [] OTHER -> Err(i + 1)

OrRest(t, l) ==
  IF At(t, l.pos) # "OR" THEN l
  ELSE Then(parseAnd(t, l.pos + 1), LAMBDA r :
         OrRest(t, Ok(Or(l.tree, r.tree), r.pos)))

parseOr(t, i) == Then(parseAnd(t, i), LAMBDA l : OrRest(t, l))

AndRest(t, l) ==
  IF At(t, l.pos) # "AND" THEN l
  ELSE Then(parseNot(t, l.pos + 1), LAMBDA r :
         AndRest(t, Ok(And(l.tree, r.tree), r.pos)))

parseAnd(t, i) == Then(parseNot(t, i), LAMBDA l : AndRest(t, l))

\* Mutant: NOT takes the whole conjunction that follows it.
parseNotWide(t, i) ==
  IF At(t, i) = "NOT"
  THEN Then(parseAnd(t, i + 1), LAMBDA x : Ok(Not(x.tree), x.pos))
  ELSE parsePrimary(t, i)

parseNot(t, i) ==
  IF At(t, i) = "NOT"
  THEN Then(parseNot(t, i + 1), LAMBDA x : Ok(Not(x.tree), x.pos))
  ELSE parsePrimary(t, i)

parsePrimary(t, i) ==
  IF At(t, i) = "(" THEN Expect(t, parseOr(t, i + 1), ")")
  ELSE parseComparison(t, i)

OrderRest(t, read) ==
  LET field == At(t, read.pos)
      next == At(t, read.pos + 1)
      after == IF next \in {"ASC", "DESC"} THEN read.pos + 2 ELSE read.pos + 1
      terms == Append(read.tree, [field |-> field, desc |-> next = "DESC"])
  IN  IF field \notin Words THEN Err(read.pos)
      ELSE IF At(t, after) = "," THEN OrderRest(t, Ok(terms, after + 1))
      ELSE Ok(terms, after)

parseOrder(t, i) ==
  CASE At(t, i) # "ORDER" -> Ok(<<>>, i)
    [] At(t, i) = "ORDER" /\ At(t, i + 1) # "BY" -> Err(i + 1)
    [] OTHER -> OrderRest(t, Ok(<<>>, i + 2))

parseLimit(t, i) ==
  CASE At(t, i) # "LIMIT" -> Ok("none", i)
    [] At(t, i) = "LIMIT" /\ At(t, i + 1) \in Numbers -> Ok(t[i + 1], i + 2)
    [] OTHER -> Err(i + 1)

Query(where, order, limit) == [where |-> where, order |-> order, limit |-> limit]

Parsed(t) ==
  Then(parseOr(t, 1), LAMBDA where :
    Then(parseOrder(t, where.pos), LAMBDA order :
      Then(parseLimit(t, order.pos), LAMBDA limit :
        IF limit.pos <= Len(t) THEN Err(limit.pos)
        ELSE Ok(Query(where.tree, order.tree, limit.tree), limit.pos))))
----------------------------------------------------------------------------
(* The grammar of doc.go as sets of trees: every way to read a sequence, with *)
(* OR and AND taking their right operand from the next tighter level.         *)

Until(s, k) == SubSeq(s, 1, k - 1)
After(s, k) == SubSeq(s, k + 1, Len(s))
At1(s, token) == {k \in 1..Len(s) : s[k] = token}
Enclosed(s, open, close) == Len(s) >= 2 /\ s[1] = open /\ Last(s) = close
Inside(s) == SubSeq(s, 2, Len(s) - 1)

RECURSIVE ValueOf(_), ValuesOf(_), Disjunction(_), Conjunction(_), Negation(_),
          TermsOf(_)

ValuesOf(s) ==
  {<<v>> : v \in ValueOf(s)} \cup
  UNION {{Append(vs, v) : vs \in ValuesOf(Until(s, k)), v \in ValueOf(After(s, k))} :
         k \in At1(s, ",")}

ListOf(s) ==
  IF Enclosed(s, "(", ")")
  THEN ValuesOf(Inside(s)) \cup
       (IF Len(s) > 2 /\ Last(Inside(s)) = "," THEN ValuesOf(Front(Inside(s))) ELSE {})
  ELSE {}

ValueOf(s) ==
  CASE s = <<Literal>> -> {Value("string", Literal, <<>>)}
    [] Len(s) = 1 /\ s[1] \in Words -> {Word(s[1])}
    [] Len(s) > 2 /\ s[1] \in Words ->
         {Value("func", s[1], args) :
            args \in ListOf(Tail(s)) \cup (IF Tail(s) = <<"(", ")">> THEN {<<>>} ELSE {})}
    [] OTHER -> {}

ComparisonOf(s) ==
  IF s = <<>> \/ s[1] \notin Words \ {"NOT"} THEN {}
  ELSE LET field == s[1]
           rest == Tail(s)
       IN  (IF rest # <<>> /\ rest[1] = Operator
            THEN {Comparison(field, Operator, <<v>>) : v \in ValueOf(Tail(rest))} ELSE {})
           \cup (IF rest # <<>> /\ rest[1] = "IN"
                 THEN {Comparison(field, "in", vs) : vs \in ListOf(Tail(rest))} ELSE {})
           \cup (IF Len(rest) > 1 /\ SubSeq(rest, 1, 2) = <<"NOT", "IN">>
                 THEN {Comparison(field, "notin", vs) : vs \in ListOf(After(rest, 2))}
                 ELSE {})
           \cup (IF rest = <<"IS", "EMPTY">>
                 THEN {Comparison(field, "empty", <<>>)} ELSE {})
           \cup (IF rest = <<"IS", "NOT", "EMPTY">>
                 THEN {Comparison(field, "notempty", <<>>)} ELSE {})

Negation(s) ==
  (IF s # <<>> /\ s[1] = "NOT" THEN {Not(x) : x \in Negation(Tail(s))} ELSE {})
  \cup (IF Enclosed(s, "(", ")") THEN Disjunction(Inside(s)) ELSE {})
  \cup ComparisonOf(s)

Conjunction(s) ==
  Negation(s) \cup
  UNION {{And(l, r) : l \in Conjunction(Until(s, k)), r \in Negation(After(s, k))} :
         k \in At1(s, "AND")}

Disjunction(s) ==
  Conjunction(s) \cup
  UNION {{Or(l, r) : l \in Disjunction(Until(s, k)), r \in Conjunction(After(s, k))} :
         k \in At1(s, "OR")}

TermsOf(s) ==
  (IF Len(s) = 1 /\ s[1] \in Words THEN {<<[field |-> s[1], desc |-> FALSE]>>} ELSE {})
  \cup (IF Len(s) = 2 /\ s[1] \in Words /\ s[2] \in {"ASC", "DESC"}
        THEN {<<[field |-> s[1], desc |-> s[2] = "DESC"]>>} ELSE {})
  \cup UNION {{terms \o term : terms \in TermsOf(Until(s, k)),
                               term \in {u \in TermsOf(After(s, k)) : Len(u) = 1}} :
              k \in At1(s, ",")}

OrderOf(s) ==
  IF s = <<>> THEN {<<>>}
  ELSE IF Len(s) > 2 /\ SubSeq(s, 1, 2) = <<"ORDER", "BY">> THEN TermsOf(After(s, 2))
  ELSE {}

LimitOf(s) ==
  IF s = <<>> THEN {"none"}
  ELSE IF Len(s) = 2 /\ s[1] = "LIMIT" /\ s[2] \in Numbers THEN {s[2]} ELSE {}

Readings(s) ==
  UNION {{Query(where, order, limit) :
            where \in Disjunction(SubSeq(s, 1, i)),
            order \in OrderOf(SubSeq(s, i + 1, j)),
            limit \in LimitOf(After(s, j))} :
         <<i, j>> \in {p \in (1..Len(s)) \X (1..Len(s)) :
                         /\ p[1] <= p[2]
                         /\ p[1] < Len(s) => s[p[1] + 1] \in {"ORDER", "LIMIT"}
                         /\ p[2] < Len(s) => s[p[2] + 1] = "LIMIT"}}

----------------------------------------------------------------------------
(* Typing a query.  Past the first tokens only what the parser has not yet    *)
(* refused is typed on.                                                       *)

HQLInit == typed = <<>>

TypedQuery == FlattenSeq(typed)

Type(tokens) ==
  /\ Len(typed) < MaxTyped
  /\ Len(typed) < MaxFree \/ Parsed(TypedQuery).pos > Len(TypedQuery)
  /\ typed' = Append(typed, tokens)

HQLNext == \E tokens \in Tokens : Type(tokens)

\* The parser accepts a query exactly when the grammar has a reading of it, and
\* then returns the only one: NOT before AND before OR, from the left, with
\* keywords usable as fields and values wherever that leaves no doubt (Parse).
ParsesGrammar ==
  LET read == Parsed(TypedQuery)
  IN  Readings(TypedQuery) = (IF read.ok THEN {read.tree} ELSE {})
=============================================================================
