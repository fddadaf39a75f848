----------------------------- MODULE HQLCompile -----------------------------
(* The compiler of the query language (src/internal/hql/sql.go): a tree of    *)
(* comparisons becomes a fragment of SQL with numbered placeholders and the   *)
(* list of their arguments, numbered from where the caller's own arguments    *)
(* end, and the database evaluates it in three values.  A fragment is a       *)
(* record of its operator and operands; a column holds a text, a number or    *)
(* the set of tags, or NULL.                                                  *)
EXTENDS HQL

CONSTANTS
  Comparisons,  \* comparisons of the compiled expressions
  Operands,     \* those that are joined to them
  MaxNodes,     \* bound: nodes of an expression
  Rows,         \* rows of the concept table
  NULL,
  Includes,     \* pairs <<text, word>>: the text contains the word
  Wildcard,     \* the word that a LIKE pattern takes for anything
  Tagged,       \* a tag of a prefix and a value
  Prefixed,     \* tags that start with a prefix
  Instant,      \* what the dates and durations of the queries stand for
  Preceding     \* the arguments the fragment is spliced behind

VARIABLE where  \* the expression so far

\* fields (schema.go): the column, the kind and the tag prefix.
Field ==
  [intent_terms |-> [column |-> "intent_terms", kind |-> "text", prefix |-> ""],
   id      |-> [column |-> "id", kind |-> "id", prefix |-> ""],
   type    |-> [column |-> "type", kind |-> "id", prefix |-> ""],
   epoch   |-> [column |-> "epoch", kind |-> "int", prefix |-> ""],
   updated |-> [column |-> "updated", kind |-> "date", prefix |-> ""],
   tag     |-> [column |-> "tags", kind |-> "tag", prefix |-> ""],
   domain  |-> [column |-> "tags", kind |-> "tag", prefix |-> "domain:"]]

allowedOps(name) ==
  LET kind == Field[name].kind
  IN  CASE kind = "text" -> {"~", "!~", "=", "!=", "in", "notin", "empty", "notempty"}
        [] kind = "id" -> {"=", "!=", "in", "notin"} \cup
                          (IF name = "id" THEN {"~", "!~"} ELSE {})
        [] kind \in {"int", "date"} -> {"=", "!=", ">", ">=", "<", "<="}
        [] kind = "tag" -> {"=", "!=", "in", "notin", "empty", "notempty"}

funcNames == {"now", "today", "startOfDay", "endOfDay"}

----------------------------------------------------------------------------
(* The builder: the fragment and the arguments so far, or an error.           *)

Built(sql, args) == [ok |-> TRUE, tree |-> sql, args |-> args]
Refuse == [ok |-> FALSE]

\* The number of the placeholder of the argument appended last.
ph(args) == Len(Preceding) + Len(args)

Negated(neg, sql) == IF neg THEN [sql |-> "not", x |-> sql] ELSE sql

resolvable(v) == v.kind = "func" => v.raw \in funcNames /\ v.args = <<>>

\* Functions give a time, which is no tag.
isTagValue(v) == v.kind # "func"

\* Dates are resolved from the spelling alone.
isDate(v) == v.raw \in DOMAIN Instant

\* Mutant: the metacharacters of LIKE keep their meaning.
escapeLikeNot(raw) == [like |-> raw, escaped |-> FALSE]

escapeLike(raw) == [like |-> raw, escaped |-> TRUE]

textIDCmp(c, args) ==
  LET column == Field[c.field].column
      raw == [i \in 1..Len(c.values) |-> c.values[i].raw]
  IN
  CASE c.op \in {"~", "!~"} ->
         LET given == Append(args, escapeLike(raw[1]))
         IN  Built([sql |-> "ilike", column |-> column, arg |-> ph(given),
                    neg |-> c.op = "!~"], given)
    [] c.op \in {"=", "!="} /\ resolvable(c.values[1]) ->
         LET given == Append(args, raw[1])
         IN  Built([sql |-> c.op, column |-> column, arg |-> ph(given)], given)
    [] c.op \in {"in", "notin"} /\ \A i \in 1..Len(c.values) : resolvable(c.values[i]) ->
         LET given == Append(args, raw)
         IN  Built([sql |-> IF c.op = "in" THEN "= ANY" ELSE "!= ALL",
                    column |-> column, arg |-> ph(given)], given)
    [] c.op \in {"empty", "notempty"} ->
         Built(Negated(c.op = "notempty", [sql |-> "null or ''", column |-> column]), args)
    [] OTHER -> Refuse

scalarCmp(c, args) ==
  LET v == c.values[1]
      date == Field[c.field].kind = "date"
      given == Append(args, IF date /\ isDate(v) THEN Instant[v.raw] ELSE v.raw)
  IN  IF (date /\ ~isDate(v)) \/ ~resolvable(v) THEN Refuse
      ELSE Built([sql |-> c.op, column |-> Field[c.field].column, arg |-> ph(given)], given)

\* One placeholder for each tag of a list.
tagPrefixCmp(c, args) ==
  LET prefix == Field[c.field].prefix
      n == Len(c.values)
      given == args \o [i \in 1..n |-> Tagged[<<prefix, c.values[i].raw>>]]
      Holds(i) == [sql |-> "tags @>", arg |-> ph(SubSeq(given, 1, Len(args) + i))]
  IN
  CASE c.op \in {"=", "!=", "in", "notin"} /\ \A i \in 1..n : isTagValue(c.values[i]) ->
         Built(Negated(c.op \in {"!=", "notin"},
                       [sql |-> "or all", parts |-> [i \in 1..n |-> Holds(i)]]), given)
    [] c.op \in {"empty", "notempty"} /\ prefix = "" ->
         Built(Negated(c.op = "notempty", [sql |-> "no tags"]), args)
    [] c.op \in {"empty", "notempty"} /\ prefix # "" ->
         LET pattern == Append(args, prefix)
         IN  Built(Negated(c.op = "notempty", [sql |-> "no tag like", arg |-> ph(pattern)]),
                   pattern)
    [] OTHER -> Refuse

cmp(c, args) ==
  IF c.op \notin allowedOps(c.field) THEN Refuse
  ELSE CASE Field[c.field].kind \in {"text", "id"} -> textIDCmp(c, args)
         [] Field[c.field].kind \in {"int", "date"} -> scalarCmp(c, args)
         [] Field[c.field].kind = "tag" -> tagPrefixCmp(c, args)

RECURSIVE expr(_, _)
expr(e, args) ==
  CASE e.node = "cmp" -> cmp(e, args)
    [] e.node = "not" -> Then(expr(e.x, args), LAMBDA x :
                           Built(Negated(TRUE, x.tree), x.args))
    [] e.node \in {"and", "or"} ->
         Then(expr(e.l, args), LAMBDA l : Then(expr(e.r, l.args), LAMBDA r :
           Built([sql |-> e.node, l |-> l.tree, r |-> r.tree], r.args)))

ToSQLAt(e) == expr(e, <<>>)

----------------------------------------------------------------------------
(* What the database makes of it (external), in three values.                 *)

Both(a, b) == IF "F" \in {a, b} THEN "F" ELSE IF NULL \in {a, b} THEN NULL ELSE "T"
Opposite(a) == CASE a = "T" -> "F" [] a = "F" -> "T" [] OTHER -> NULL
Truth(b) == IF b THEN "T" ELSE "F"
IfKnown(value, b) == IF value = NULL THEN NULL ELSE Truth(b)

Number(raw) == CASE raw = "1" -> 1 [] raw = "2" -> 2 [] OTHER -> raw

Compare(op, a, b) ==
  CASE op = "=" -> a = b [] op = "!=" -> a # b [] op = ">" -> a > b
    [] op = ">=" -> a >= b [] op = "<" -> a < b [] op = "<=" -> a <= b

Like(text, pattern) ==
  \/ <<text, pattern.like>> \in Includes
  \/ pattern.like = Wildcard /\ ~pattern.escaped

RECURSIVE Evaluate(_, _, _)
Evaluate(s, all, row) ==
  CASE s.sql = "and" -> Both(Evaluate(s.l, all, row), Evaluate(s.r, all, row))
    [] s.sql = "or" -> Opposite(Both(Opposite(Evaluate(s.l, all, row)),
                                     Opposite(Evaluate(s.r, all, row))))
    [] s.sql = "not" -> Opposite(Evaluate(s.x, all, row))
    [] s.sql = "ilike" -> IfKnown(row[s.column], Like(row[s.column], all[s.arg]) # s.neg)
    [] s.sql \in {"=", "!=", ">", ">=", "<", "<="} ->
         IfKnown(row[s.column], Compare(s.sql, row[s.column], Number(all[s.arg])))
    [] s.sql = "= ANY" -> IfKnown(row[s.column], row[s.column] \in Range(all[s.arg]))
    [] s.sql = "!= ALL" -> IfKnown(row[s.column], row[s.column] \notin Range(all[s.arg]))
    [] s.sql = "null or ''" -> Truth(row[s.column] \in {NULL, ""})
    [] s.sql = "tags @>" -> Truth(all[s.arg] \in row.tags)
    [] s.sql = "or all" ->
         Truth(\E i \in 1..Len(s.parts) : Evaluate(s.parts[i], all, row) = "T")
    [] s.sql = "no tags" -> Truth(row.tags = {})
    [] s.sql = "no tag like" -> Truth(row.tags \cap Prefixed[all[s.arg]] = {})

\* What the compiled fragment says of a row, behind the caller's arguments.
QueryConcepts(built, row) == Evaluate(built.tree, Preceding \o built.args, row)

----------------------------------------------------------------------------
(* What a comparison says of a concept, with text it does not have as "".     *)

Text(row, column) == IF row[column] = NULL THEN "" ELSE row[column]

Meant(c, row) ==
  LET f == Field[c.field]
      value == IF f.kind = "tag" THEN "" ELSE Text(row, f.column)
      raws == {v.raw : v \in Range(c.values)}
      Has(raw) == CASE f.kind = "tag" -> Tagged[<<f.prefix, raw>>] \in row.tags
                    [] f.kind = "date" -> value = Number(Instant[raw])
                    [] OTHER -> value = Number(raw)
      empty == IF f.kind = "tag" THEN row.tags \cap Prefixed[f.prefix] = {} ELSE value = ""
  IN
  CASE c.op \in {"=", "in"} -> \E raw \in raws : Has(raw)
    [] c.op \in {"!=", "notin"} -> \A raw \in raws : ~Has(raw)
    [] c.op = "~" -> <<value, c.values[1].raw>> \in Includes
    [] c.op = "!~" -> <<value, c.values[1].raw>> \notin Includes
    [] c.op = "empty" -> empty
    [] c.op = "notempty" -> ~empty
    [] c.op \in {">", ">=", "<", "<="} ->
         Compare(c.op, value, IF f.kind = "date" THEN Number(Instant[c.values[1].raw])
                              ELSE Number(c.values[1].raw))

RECURSIVE Means(_, _)
Means(e, row) ==
  CASE e.node = "cmp" -> Meant(e, row)
    [] e.node = "not" -> ~Means(e.x, row)
    [] e.node = "and" -> Means(e.l, row) /\ Means(e.r, row)
    [] e.node = "or" -> Means(e.l, row) \/ Means(e.r, row)

----------------------------------------------------------------------------
(* Building expressions.                                                      *)

RECURSIVE Nodes(_)
Nodes(e) == CASE e.node = "cmp" -> 1
              [] e.node = "not" -> 1 + Nodes(e.x)
              [] e.node \in {"and", "or"} -> 1 + Nodes(e.l) + Nodes(e.r)

None == [node |-> "none"]

CompileInit == where = None

CompileNext ==
  \/ where = None /\ where' \in Comparisons
  \/ /\ where # None
     /\ where' \in {Not(where)} \cup
          UNION {{And(where, c), And(c, where), Or(where, c), Or(c, where)} : c \in Operands}
     /\ Nodes(where') <= MaxNodes

\* A compiled query keeps exactly the rows it means: every placeholder gets its
\* own argument although the fragment stands behind the caller's arguments, a
\* value is matched literally, IN and NOT IN are what the single comparisons
\* say, AND, OR and NOT keep their structure.  A row with a NULL column (one
\* older than the column) may drop out where the answer depends on it, but is
\* never kept against the meaning (ToSQLAt, Store.QueryConcepts).
CompiledMeans ==
  where # None =>
    LET built == ToSQLAt(where)
    IN  built.ok =>
          \A row \in Rows :
            LET answer == QueryConcepts(built, row)
            IN  \/ answer = Truth(Means(where, row))
                \/ answer = NULL /\ row.intent_terms = NULL

\* "functions now()/today()/startOfDay()/endOfDay()" (doc.go) are values of the
\* date field: a comparison of it with one of them compiles.
DateFunctions ==
  /\ where.node = "cmp"
  /\ where.field = "updated"
  /\ where.values[1] \in {Call(name) : name \in funcNames}
  => ToSQLAt(where).ok
=============================================================================
