---------------------------- MODULE MCOpaqueText ----------------------------
(* Instances of OpaqueText for TLC. *)
EXTENDS OpaqueText

One == Kw("NUMBER")
Everywhere == {"alter", "insert", "show", "view"}
F(toks, reads, plain) == [toks |-> toks, reads |-> reads, plain |-> plain, qualifiers |-> {}]
X == Var("x")
T == Var("t")
InList(s) == <<X, Kw("IN")>> \o s

(* (EXPLAIN AST t) reads no table; an ALTER or a view that holds it is refused *)
(* because ClickHouse runs it.  A lookup in an ALTER or a view is refused by   *)
(* the string-lookup check of the preflight, not by these scans.               *)
MCFragments ==
    {F(<<X, Kw("EQ"), One>>, {}, TRUE),
     F(InList(Group(<<One, Kw("COMMA"), One>>)), {}, TRUE),
     F(InList(<<Kw("L_BRACKET"), One, Kw("COMMA"), Kw("DASH"), One, Kw("R_BRACKET")>>), {}, TRUE),
     F(<<X, Kw("EQ"), Str(<<"SELECT">>)>>, {}, TRUE),
     F(<<Quoted(<<"SELECT">>), Kw("EQ"), Quoted(<<"WITH">>)>>, {}, TRUE),
     F(InList(<<Kw("DASH"), One>>), {}, TRUE),
     F(InList(<<T>>), Everywhere, FALSE),
     F(InList(<<Kw("PLUS"), T>>), Everywhere, FALSE),
     F(InList(Group(<<T>>)), Everywhere, FALSE),
     F(InList(Group(<<One, Kw("COMMA")>> \o Group(<<Kw("SELECT"), One>>))), Everywhere, FALSE),
     F(<<Var("notIn")>> \o Group(<<X, Kw("COMMA"), T>>), Everywhere, FALSE),
     F(<<Quoted(<<"in">>)>> \o Group(<<X, Kw("COMMA"), T>>), Everywhere, FALSE),
     F(Group(<<Kw("SELECT"), X, Kw("FROM"), T>>), Everywhere, FALSE),
     F(Group(<<Kw("EXPLAIN"), Var("AST"), T>>), {"alter", "view"}, FALSE),
     F(<<Var("dictGet")>> \o Group(<<Str(<<"t">>), Kw("COMMA"), X>>), {"insert", "show"}, FALSE),
     F(<<Kw("L_BRACE"), Var("p"), Kw("COLON"), Var("Identifier"), Kw("R_BRACE")>>, Everywhere, FALSE),
     [F(InList(<<Var("d"), Kw("DOT"), T>>), Everywhere, FALSE) EXCEPT !.qualifiers = {<<"d">>}],
     [F(<<X, Kw("EQ"), Var("d"), Kw("DOT"), T, Kw("DOT"), Var("c")>>, {}, FALSE) EXCEPT !.qualifiers = {<<"d">>}]}

Part(verb, tail) == <<Kw(verb), Kw("PARTITION"), One>> \o tail
MCActions ==
    {F(Part("DROP", <<>>), {}, TRUE),
     F(Part("ATTACH", <<>>), {}, TRUE),
     F(Part("ATTACH", <<Kw("FROM"), T>>), Everywhere, FALSE),
     F(Part("REPLACE", <<Kw("FROM"), T>>), Everywhere, FALSE),
     F(Part("FETCH", <<Kw("FROM"), Str(<<"path">>)>>), Everywhere, FALSE),
     F(Part("MOVE", <<Kw("TO"), Kw("TABLE"), T>>), Everywhere, FALSE),
     F(Part("MOVE", <<Kw("TO"), Var("DISK"), Str(<<"k">>)>>), {}, TRUE),
     F(<<Var("FREEZE"), Kw("WITH"), Var("NAME"), Str(<<"n">>)>>, {}, TRUE),
     F(<<Var("MODIFY"), Var("QUERY"), Kw("SELECT"), One>>, Everywhere, FALSE),
     F(<<Var("MODIFY"), Kw("REFRESH"), Var("EVERY"), Var("DEPENDS"), Kw("ON"), T>>, Everywhere, FALSE),
     F(<<Var("DELETE"), Kw("IN"), Kw("PARTITION"), One, Kw("WHERE"), X>>, {}, TRUE)}

MCNames == {<<Var("v")>>, <<Kw("REFRESH")>>, <<Kw("ENGINE")>>, <<Var("d"), Kw("DOT"), Kw("REFRESH")>>, <<Quoted(<<"SELECT">>)>>,
            <<Kw("WITH")>>}
============================================================================
