---------------------------- MODULE MCComponents ----------------------------
(* Instances for TLC of the components that share no state with the rest: the *)
(* answer cache, the ISPB registry, the query language, the BR Code and the   *)
(* citation links.  Each behaviour is of one of the Subjects; the others rest *)
(* in their first state.                                                      *)
EXTENDS LRURecency, ISPB, HQLCompile, BRCode, Links

CONSTANT Subjects

VARIABLE subject

parsingVars == typed
compileVars == where
cacheVars == <<ll, items, history>>

CInit ==
  /\ subject \in Subjects
  /\ RInit /\ ISPBInit /\ HQLInit /\ CompileInit /\ BRInit /\ LinksInit

CNext ==
  /\ UNCHANGED subject
  /\ \/ /\ subject = "cache" /\ RNext
        /\ UNCHANGED <<ispbVars, parsingVars, compileVars, brVars, linksVars>>
     \/ /\ subject = "ispb" /\ ISPBNext
        /\ UNCHANGED <<cacheVars, parsingVars, compileVars, brVars, linksVars>>
     \/ /\ subject = "parser" /\ HQLNext
        /\ UNCHANGED <<cacheVars, ispbVars, compileVars, brVars, linksVars>>
     \/ /\ subject = "compiler" /\ CompileNext
        /\ UNCHANGED <<cacheVars, ispbVars, parsingVars, brVars, linksVars>>
     \/ /\ subject = "brcode" /\ BRNext
        /\ UNCHANGED <<cacheVars, ispbVars, parsingVars, compileVars, linksVars>>
     \/ /\ subject = "links" /\ LinksNext
        /\ UNCHANGED <<cacheVars, ispbVars, parsingVars, compileVars, brVars>>

CSpec == CInit /\ [][CNext]_<<subject, cacheVars, ispbVars, parsingVars, compileVars, brVars, linksVars>>

----------------------------------------------------------------------------
(* The registry: a participant spelled in two ways, a code that is not        *)
(* digits, a day without a list, a pending participant.                       *)

MCCodes == {"00000208", "60701190", "ABCDEFGH"}
MCSpellings == MCCodes \cup {"208", "", "123456789"}
MCPadded == [s \in MCSpellings |-> CASE s \in MCCodes -> s
                                     [] s = "208" -> "00000208" [] OTHER -> NoCode]
MCDays == 1..3
MCSTRFile ==
  <<<<Header, Cells("208", "BRB", ""), Cells("60701190", "ITAU", "")>>,
    <<Header, Cells("00000208", "BRB SA", ""), Cells("ABCDEFGH", "X", ""),
      Cells("60701190", "ITAU", "")>>,
    <<Header, Cells("", "Y", ""), Cells("60701190", "ITAU SA", ""),
      Cells("60701190", "ITAU BANK", "")>>>>
MCPixList ==
  <<[active |-> <<Cells("60701190", "ITAU PIX", "yes")>>,
     pending |-> <<Cells("208", "BRB PIX", "absent")>>],
    NoList,
    [active |-> <<Cells("208", "BRB PIX", "no"), Cells("60701190", "ITAU PIX", "yes")>>,
     pending |-> <<>>]>>

----------------------------------------------------------------------------
(* The query language.                                                        *)

MCTokens ==
  {<<t>> : t \in {"x", "1", "AND", "OR", "NOT", "IN", "IS", "EMPTY", "LIMIT",
                  Literal, Operator, "(", ")", ","}}
  \cup {<<"x", Operator, Literal>>, <<"ORDER", "BY">>, <<"x", "DESC">>}

Scalars == {"=", "!=", ">", ">=", "<", "<="}
One(field, ops, raws) == {Comparison(field, op, <<Word(raw)>>) : op \in ops, raw \in raws}
Lists(field, raws) ==
  {Comparison(field, op, vs) : op \in {"in", "notin"},
     vs \in {<<Word(r)>> : r \in raws} \cup {<<Word(r), Word(q)>> : r, q \in raws}}
Empties(field) == {Comparison(field, op, <<>>) : op \in {"empty", "notempty"}}

MCComparisons ==
  One("intent_terms", {"=", "!=", "~", "!~"}, {"a", "%"}) \cup Lists("intent_terms", {"a", "%"})
  \cup Empties("intent_terms")
  \cup One("id", {"=", "!=", "~", "!~"}, {"a"}) \cup Lists("id", {"a", "%a"})
  \cup One("type", {"=", "~"}, {"a"})
  \cup One("epoch", Scalars, {"1", "2"}) \cup One("updated", Scalars, {"2026-07-01", "-1d", "soon"})
  \cup One("tag", {"=", "!="}, {"a"}) \cup Lists("tag", {"a", "b"}) \cup Empties("tag")
  \cup One("domain", {"=", "!="}, {"a"}) \cup Lists("domain", {"a", "b"}) \cup Empties("domain")
  \cup {Comparison("updated", ">=", <<Call("now")>>), Comparison("tag", "=", <<Call("now")>>)}
MCOperands ==
  One("intent_terms", {"=", "!~"}, {"a"}) \cup One("epoch", {">"}, {"1"})
  \cup Lists("domain", {"a"}) \cup Lists("id", {"a"})

MCIncludes == {<<"a", "a">>, <<"%a", "a">>, <<"%a", "%">>}
MCTagged == [p \in {"", "domain:"} \X {"a", "b"} |->
               CASE p[1] = "" -> p[2] [] p[2] = "a" -> "domain:a" [] OTHER -> "domain:b"]
MCPrefixed == [p \in {"", "domain:"} |->
                 {"domain:a", "domain:b"} \cup (IF p = "" THEN {"a", "b"} ELSE {})]
MCInstant == [d \in {"2026-07-01", "-1d"} |-> IF d = "-1d" THEN "2" ELSE "1"]
MCPreceding == <<"query", "type">>

ARow(terms, id_, epoch, updated, tags) ==
  [intent_terms |-> terms, id |-> id_, type |-> "a", epoch |-> epoch,
   updated |-> updated, tags |-> tags]
MCRows ==
  {ARow(terms, "a", 1, 2, tags) : terms \in {NULL, "", "a", "%a"}, tags \in {{}, {"a", "domain:a"}}}
  \cup {ARow("a", "%a", epoch, updated, tags) :
          epoch, updated \in {1, 2}, tags \in {{"domain:b"}, {"b"}}}

----------------------------------------------------------------------------
(* BR Codes: texts with the digits of the tag, lengths at and past a limit,   *)
(* and one whose CRC is 6304.                                                 *)

As(n) == [i \in 1..n |-> 65]
Tag == <<54, 51, 48, 52>>
Base == [key |-> <<97, 64, 98>>, url |-> <<>>, description |-> <<>>, name |-> <<78>>,
         city |-> <<67>>, amount |-> <<>>, txid |-> <<>>, dynamic |-> FALSE, omit |-> FALSE]
MCPayloads ==
  {Base,
   [Base EXCEPT !.txid = <<49, 57, 50, 56, 55>>],
   [Base EXCEPT !.name = Tag, !.omit = TRUE],
   [Base EXCEPT !.city = Tag, !.dynamic = TRUE, !.omit = TRUE],
   [Base EXCEPT !.key = <<>>, !.url = <<98, 47>>, !.description = <<65>>, !.omit = TRUE],
   [Base EXCEPT !.amount = <<49, 48, 46, 53, 48>>, !.txid = Tag],
   [Base EXCEPT !.amount = <<46, 53>>],
   [Base EXCEPT !.name = <<195, 167>>],
   [Base EXCEPT !.name = As(25), !.city = As(15)], [Base EXCEPT !.name = As(26)],
   [Base EXCEPT !.description = As(70)], [Base EXCEPT !.description = As(71)],
   [Base EXCEPT !.txid = As(95)], [Base EXCEPT !.txid = As(96)]}
MCCorruptions == {48, 54, 32}

----------------------------------------------------------------------------
(* Citations: two concepts that each embody an instrument, one of them dated, *)
(* and bodies that cite these with and without a year.                        *)

Mention(instrument, year) == [instrument |-> instrument, year |-> year]
MCNormRef == <<Mention("RES-BCB-1", "2020"), Mention("CIR-3978", ""), NoRef>>
MCTexts == {<<Mention("RES-BCB-1", ""), Mention("CIR-3978", ""), Mention("RES-BCB-1", "2020")>>,
            <<Mention("CIR-3978", "2009")>>}
=============================================================================
