---------------------------- MODULE CommandParse ----------------------------
(***************************************************************************)
(* The parsers of the commands Polyglot keeps as text: USE and SHOW        *)
(* (engine/dblevel.go), EXISTS, SHOW CREATE and DESCRIBE (objtarget.go),   *)
(* GRANT and REVOKE (grant.go).  Each reads the token stream by position   *)
(* and tells the handlers what the statement names.  A client writes a     *)
(* statement whose parts are in wrote; the preflight runs the three        *)
(* parsers on its tokens, one after the other.                             *)
(*                                                                         *)
(* A name is a sequence of tokens: one token, or the {p : Identifier} of a *)
(* query parameter, which names nothing before ClickHouse binds it.        *)
(***************************************************************************)
EXTENDS Tokens

CONSTANT Wrote  \* the statements a client writes, each as its parts

VARIABLES wrote, toks, phase, object, level, grant, spliced

cvars == <<wrote, toks, phase, object, level, grant, spliced>>

Parameter == <<Kw("{"), Var("p"), Kw(":"), Var("Identifier"), Kw("}")>>
IsStatic(name) == Len(name) = 1
Static(name) == IF IsStatic(name) THEN name[1].text ELSE <<>>
None == <<>>

---------------------------------------------------------------------------
(* What a client writes (the ClickHouse grammar, outside the repository).  *)

Opt(b, ts) == IF b THEN ts ELSE <<>>
Dotted(parts) == FoldLeft(LAMBDA acc, p : IF acc = <<>> THEN p ELSE acc \o <<Kw("DOT")>> \o p, <<>>, parts)
Commas(args) == FoldLeft(LAMBDA acc, a : IF acc = <<>> THEN a ELSE acc \o <<Kw("COMMA")>> \o a, <<>>, args)

Likes == [none |-> <<>>, like |-> <<Kw("LIKE"), Str(<<"x">>)>>, notIlike |-> <<Kw("NOT"), Kw("I_LIKE"), Str(<<"x">>)>>]
Tails == [none |-> <<>>, semicolon |-> <<Kw("SEMICOLON")>>, format |-> <<Kw("FORMAT"), Var("f")>>,
          where |-> <<Kw("WHERE"), Var("x"), Kw("IN"), Var("z")>>]

RenderTarget(w) ==
    CASE w.shape = "call"     -> <<w.fn, Kw("L_PAREN")>> \o Commas(w.args) \o <<Kw("R_PAREN")>>
      [] w.shape = "subquery" -> <<Kw("L_PAREN"), Kw("SELECT"), Var("x"), Kw("R_PAREN")>>
      [] w.shape = "entity"   -> <<w.entity, Var("u")>>
      [] OTHER                -> Dotted(w.parts)

Render(w) ==
    CASE w.verb = "USE"  -> <<Kw("USE")>> \o Dotted(w.parts) \o Tails[w.tail]
      [] w.verb = "SHOW" -> <<Kw("SHOW")>> \o w.prefix \o <<w.what>>
                            \o Opt(w.parts # <<>>, <<Kw(w.sep)>> \o Dotted(w.parts))
                            \o Opt(w.db # None, <<Kw("FROM")>> \o w.db)
                            \o Likes[w.like] \o Tails[w.tail]
      [] w.verb \in {"GRANT", "REVOKE", "ATTACH"} ->
            Opt(w.verb = "ATTACH", <<Kw("ATTACH")>>) \o <<IF w.verb = "REVOKE" THEN Kw("REVOKE") ELSE Kw("GRANT")>>
            \o Opt(w.cluster, <<Kw("ON"), Kw("CLUSTER"), Var("c")>>) \o <<Var("priv")>>
            \o Opt(w.parts # <<>>, <<Kw("ON")>> \o Dotted(w.parts))
            \o <<Kw("TO"), Var("u")>> \o Opt(w.replace, <<Kw("WITH"), Kw("REPLACE"), Kw("OPTION")>>)
      [] OTHER -> (IF w.verb = "SHOW CREATE" THEN <<Kw("SHOW"), Kw("CREATE")>> ELSE <<Kw(w.verb)>>)
                  \o Opt(w.temporary, <<Kw("TEMPORARY")>>)
                  \o Opt(w.objType # "", <<Kw(w.objType)>>) \o RenderTarget(w) \o Tails[w.tail]

---------------------------------------------------------------------------
(* USE and SHOW. *)

KeywordNames == {"FINAL"}   \* a keyword that ClickHouse also takes for a name
Semicolons == {"SEMICOLON"}
FromIn == {"FROM", "IN"}

(* The name at s[i] by the parser's own probe, <<>> if it is none. *)
parsedIdentifierAt(s, i) ==
    IF i \in DOMAIN s /\ (isNameTok(s[i]) \/ s[i].type \in KeywordNames) THEN s[i].text ELSE <<>>

isUnquotedDBKeyword(s, i, w) == Word(s, i, w)

tokensRemain(s, from) == \E i \in DOMAIN s : i >= from /\ s[i].type \notin Semicolons

(* The index after one [NOT] (I)LIKE 'pattern', or i. *)
afterLikeClause(s, i) ==
    LET j == IF TypeAt(s, i) = "NOT" THEN i + 1 ELSE i
    IN  IF TypeAt(s, j) \in {"LIKE", "I_LIKE"} /\ TypeAt(s, j + 1) = "STRING" THEN j + 2 ELSE i

isShowTableTargetKind == {<<"COLUMNS">>, <<"INDEX">>}
isShowTailToken == {"NOT", "LIKE", "I_LIKE", "WHERE", "LIMIT", "SETTINGS", "FORMAT", "INTO", "PARALLEL"}

NoLevel ==
    [kind |-> "none", what |-> <<>>, prefixed |-> FALSE, table |-> <<>>, tableResolved |-> FALSE, hasTable |-> FALSE,
     db |-> <<>>, hasDB |-> FALSE, dbResolved |-> FALSE, multiPart |-> FALSE,
     hasLike |-> FALSE, likeNot |-> FALSE, likeCI |-> FALSE, pattern |-> <<>>, trailing |-> FALSE]

(* FROM db: the database of info and the index after it. *)
databaseClause(s, i, info) ==
    LET name == parsedIdentifierAt(s, i + 1)
    IN  [info |-> [info EXCEPT !.hasDB = TRUE, !.db = name, !.dbResolved = name # <<>>],
         next |-> IF name = <<>> THEN i + 1 ELSE i + 2]

(* The dotted parts after the first two, each a table until the next one:  *)
(* the index after them and the last one read.                             *)
furtherParts(s, i) ==
    LET whole == {n \in 0..(Len(s) \div 2) :
                    \A k \in 1..n : TypeAt(s, i + 2 * k - 2) = "DOT" /\ parsedIdentifierAt(s, i + 2 * k - 1) # <<>>}
        n == CHOOSE n \in whole : \A m \in whole : m <= n
        next == i + 2 * n
    IN  [next |-> next, count |-> n, broken |-> TypeAt(s, next) = "DOT" /\ next + 1 \in DOMAIN s]

(* Mutant: a target that is no name is skipped past the tail keywords too. *)
SkipToClause(s, i) ==
    LET stops == {k \in DOMAIN s : k >= i /\ s[k].type \in FromIn}
    IN  IF stops = {} THEN Len(s) + 1 ELSE CHOOSE k \in stops : \A m \in stops : k <= m

(* The next FROM, IN or tail keyword at or after i. *)
skipTarget(s, i) ==
    LET stops == {k \in DOMAIN s : k >= i /\ s[k].type \in FromIn \cup isShowTailToken}
    IN  IF stops = {} THEN Len(s) + 1 ELSE CHOOSE k \in stops : \A m \in stops : k <= m

(* A database clause replaces the qualifier, resolved or not. *)
overridingClause(s, i, info) == databaseClause(s, i, info)

(* COLUMNS and INDEX: {FROM|IN} table [{FROM|IN} database]. *)
parseShowTableThenDatabase(s, i, info) ==
    LET name    == parsedIdentifierAt(s, i + 1)
        second  == parsedIdentifierAt(s, i + 3)
        dotted  == TypeAt(s, i + 2) = "DOT" /\ i + 3 \in DOMAIN s
        further == furtherParts(s, i + 4)
        asked   == [info EXCEPT !.hasTable = TRUE]
        read ==
            IF name # <<>> /\ dotted /\ second # <<>>
            THEN [info |-> [asked EXCEPT !.db = name, !.dbResolved = TRUE, !.hasDB = TRUE,
                              !.table = IF further.count = 0 THEN second ELSE s[further.next - 1].text,
                              !.tableResolved = ~further.broken,
                              !.multiPart = further.count > 0 \/ further.broken],
                  next |-> further.next]
            ELSE IF name # <<>> /\ ~dotted
            THEN [info |-> [asked EXCEPT !.table = name, !.tableResolved = TRUE], next |-> i + 2]
            ELSE [info |-> asked, next |-> skipTarget(s, i + 1)]
    IN  IF TypeAt(s, i) \notin FromIn THEN [info |-> info, next |-> i]
        ELSE IF TypeAt(s, read.next) \in FromIn THEN overridingClause(s, read.next, read.info)
        ELSE read

(* The tail: NOT, the first LIKE, and nothing after a clause keyword. *)
likeClause(s, i, info) ==
    LET ends == {k \in DOMAIN s : k >= i /\ s[k].type \in {"LIKE", "I_LIKE", "WHERE", "LIMIT", "SETTINGS", "FORMAT", "INTO", "PARALLEL"}}
        e == CHOOSE k \in ends : \A m \in ends : k <= m
        upto == IF ends = {} THEN Len(s) ELSE e
        negated == [info EXCEPT !.likeNot = \E k \in i..upto : s[k].type = "NOT"]
    IN  IF ends = {} \/ s[e].type \notin {"LIKE", "I_LIKE"} THEN negated
        ELSE [negated EXCEPT !.hasLike = TRUE, !.likeCI = s[e].type = "I_LIKE",
                             !.pattern = IF TypeAt(s, e + 1) = "STRING" THEN s[e + 1].text ELSE <<>>]

(* Mutant: what follows a LIKE clause is not looked at. *)
TrailingBeforeLike(s, i) == tokensRemain(s, i) /\ afterLikeClause(s, i) = i

showTrailing(s, i) == tokensRemain(s, afterLikeClause(s, i))

(* The optional EXTENDED, FULL, TEMPORARY, in this order. *)
afterPrefixes(s) ==
    FoldLeft(LAMBDA i, w : IF isUnquotedDBKeyword(s, i, w) THEN i + 1 ELSE i, 2, <<"EXTENDED", "FULL", "TEMPORARY">>)

parseShow(s) ==
    LET k    == afterPrefixes(s)
        head == [NoLevel EXCEPT !.kind = "show", !.what = TextAt(s, k), !.prefixed = k > 2]
        read == IF head.what \in isShowTableTargetKind THEN parseShowTableThenDatabase(s, k + 1, head)
                ELSE IF TypeAt(s, k + 1) \in FromIn THEN databaseClause(s, k + 1, head)
                ELSE [info |-> head, next |-> k + 1]
    IN  likeClause(s, read.next, [read.info EXCEPT !.trailing = showTrailing(s, read.next)])

parseUse(s) ==
    LET named == 2 \in DOMAIN s /\ isNameTok(s[2])
    IN  [NoLevel EXCEPT !.kind = "use", !.db = IF named THEN s[2].text ELSE <<>>,
                        !.trailing = tokensRemain(s, 3)]

ParseDBLevel(s) ==
    CASE TextAt(s, 1) = <<"USE">>  -> parseUse(s)
      [] TextAt(s, 1) = <<"SHOW">> -> parseShow(s)
      [] OTHER                     -> NoLevel

(* Mutant: the last FROM or IN of the text, which may be the database's. *)
SpliceLast(s, replacement) ==
    LET at == {i \in DOMAIN s : s[i].type \in FromIn /\ i + 1 \in DOMAIN s}
        i  == CHOOSE i \in at : \A m \in at : m <= i
    IN  IF at = {} THEN <<>> ELSE SubSeq(s, 1, i) \o replacement \o From(s, i + 2)

(* The physical name in the place of the table, <<>> for an error. *)
SpliceShowTable(s, replacement) ==
    LET at == {i \in DOMAIN s : s[i].type \in FromIn /\ i + 1 \in DOMAIN s}
        i  == CHOOSE i \in at : \A m \in at : i <= m
    IN  IF at = {} \/ ~isNameTok(s[i + 1]) \/ TypeAt(s, i + 2) = "DOT" THEN <<>>
        ELSE SubSeq(s, 1, i) \o replacement \o From(s, i + 2)

---------------------------------------------------------------------------
(* EXISTS, SHOW CREATE and DESCRIBE. *)

NoObject ==
    [verb |-> "none", temporary |-> FALSE, objType |-> <<>>, db |-> <<>>, table |-> <<>>, shape |-> "none",
     trailing |-> FALSE, accessEntity |-> FALSE, fn |-> <<>>, argDatabases |-> {}]

objectTypes == {<<"TABLE">>, <<"DATABASE">>, <<"VIEW">>, <<"DICTIONARY">>}
accessEntities == {<<"USER">>, <<"USERS">>, <<"ROLE">>, <<"QUOTA">>, <<"PROFILE">>, <<"POLICY">>, <<"ROW">>, <<"SETTINGS">>}
isAccessEntityWord(tok) == opaqueKeyword(tok) /\ tok.text \in accessEntities

(* Mutant: every SHOW is taken for a SHOW CREATE. *)
AnyShow(s) ==
    CASE TextAt(s, 1) = <<"EXISTS">> -> [verb |-> "exists", next |-> 2]
      [] TextAt(s, 1) = <<"SHOW">> -> [verb |-> "show_create", next |-> 3]
      [] TextAt(s, 1) \in {<<"DESCRIBE">>, <<"DESC">>} -> [verb |-> "describe", next |-> 2]
      [] OTHER -> [verb |-> "none", next |-> 0]

(* The verb and the index after it, 0 if the statement is none of the three. *)
verbOf(s) ==
    CASE TextAt(s, 1) = <<"EXISTS">>                                  -> [verb |-> "exists", next |-> 2]
      [] TextAt(s, 1) = <<"SHOW">> /\ TextAt(s, 2) = <<"CREATE">>     -> [verb |-> "show_create", next |-> 3]
      [] TextAt(s, 1) \in {<<"DESCRIBE">>, <<"DESC">>}                -> [verb |-> "describe", next |-> 2]
      [] OTHER                                                        -> [verb |-> "none", next |-> 0]

(* The word before the first dot of a string. *)
firstDotSegment(text) ==
    LET dots == {i \in DOMAIN text : text[i] = "."}
    IN  IF dots = {} THEN text ELSE SubSeq(text, 1, (CHOOSE i \in dots : \A m \in dots : i <= m) - 1)

(* The database an argument names: a string, a name or a qualified name. *)
argDatabase(group) ==
    CASE Len(group) = 1 /\ group[1].type = "STRING" -> {firstDotSegment(group[1].text)}
      [] Len(group) = 1 /\ isNameTok(group[1]) -> {group[1].text}
      [] Len(group) = 3 /\ isNameTok(group[1]) /\ group[2].type = "DOT" /\ isNameTok(group[3]) -> {group[1].text}
      [] OTHER -> {}

CallDepth(s, open, i) ==
    Cardinality({k \in (open + 1)..i : s[k].type = "L_PAREN"}) - Cardinality({k \in (open + 1)..(i - 1) : s[k].type = "R_PAREN"})

(* Mutant: every comma splits, whatever the depth. *)
ArgumentsAtAnyDepth(s, open) ==
    LET closes == {k \in (open + 1)..Len(s) : s[k].type = "R_PAREN"}
        close  == IF closes = {} THEN 0 ELSE CHOOSE k \in closes : \A m \in closes : k <= m
        cuts   == {open, close} \cup {k \in (open + 1)..(close - 1) : s[k].type = "COMMA"}
    IN  [ok |-> closes # {},
         databases |-> UNION {argDatabase(SubSeq(s, i + 1, j - 1)) :
                                <<i, j>> \in {p \in cuts \X cuts : p[1] < p[2] /\ ~\E k \in cuts : p[1] < k /\ k < p[2]}}]

(* The databases of the arguments of the call whose ( is s[open]. *)
objectTargetCallArgDatabases(s, open) ==
    LET closes == {k \in (open + 1)..Len(s) : s[k].type = "R_PAREN" /\ CallDepth(s, open, k) = 0}
        close  == IF closes = {} THEN 0 ELSE CHOOSE k \in closes : \A m \in closes : k <= m
        cuts   == {open, close} \cup {k \in (open + 1)..(close - 1) : s[k].type = "COMMA" /\ CallDepth(s, open, k) = 0}
    IN  [ok |-> closes # {},
         databases |-> UNION {argDatabase(SubSeq(s, i + 1, j - 1)) :
                                <<i, j>> \in {p \in cuts \X cuts : p[1] < p[2] /\ ~\E k \in cuts : p[1] < k /\ k < p[2]}}]

Signs == {"L_PAREN", "R_PAREN", "COMMA", "DOT", "*", "NUMBER", "STRING"}
looksLikeBareIdentifierText(tok) == tok.type \notin Signs /\ Len(tok.text) = 1

(* name(...) after the object type: its name and its databases. *)
parseObjectTargetFunctionCallFromTokens(s, i, info) ==
    LET args == objectTargetCallArgDatabases(s, i + 1) IN
    IF i \in DOMAIN s /\ looksLikeBareIdentifierText(s[i]) /\ TypeAt(s, i + 1) = "L_PAREN" /\ args.ok
    THEN [info EXCEPT !.fn = s[i].text, !.argDatabases = args.databases]
    ELSE info

(* db.name or name at s[i]. *)
nameRun(s, i, info) ==
    LET two  == TypeAt(s, i + 1) = "DOT" /\ TypeAt(s, i + 2) \in NameTypes
        next == IF two THEN i + 3 ELSE i + 1
    IN  [info EXCEPT !.db = IF two THEN s[i].text ELSE <<>>,
                     !.table = IF two THEN s[i + 2].text ELSE s[i].text,
                     !.shape = IF TypeAt(s, next) = "L_PAREN" THEN "call" ELSE "name",
                     !.trailing = tokensRemain(s, next)]

ParseObjectTarget(s) ==
    LET v     == verbOf(s)
        temp  == TextAt(s, v.next) = <<"TEMPORARY">>
        t     == IF temp THEN v.next + 1 ELSE v.next
        typed == TextAt(s, t) \in objectTypes
        i     == IF typed THEN t + 1 ELSE t
        head  == [NoObject EXCEPT !.verb = v.verb, !.temporary = temp,
                    !.objType = IF typed THEN TextAt(s, t) ELSE <<"TABLE">>,
                    !.accessEntity = v.verb = "show_create" /\ ~typed /\ i \in DOMAIN s /\ isAccessEntityWord(s[i])]
        named == IF TypeAt(s, i) \in NameTypes THEN nameRun(s, i, head)
                 ELSE IF TypeAt(s, i) = "L_PAREN" THEN [head EXCEPT !.shape = "subquery"]
                 ELSE head
    IN  IF v.verb = "none" THEN NoObject
        ELSE parseObjectTargetFunctionCallFromTokens(s, i, named)

---------------------------------------------------------------------------
(* GRANT and REVOKE. *)

NoSecurable == [db |-> <<>>, table |-> <<>>, allTables |-> FALSE, anyDatabase |-> FALSE, unrepresentable |-> FALSE]
NoGrant == [verb |-> FALSE, revoke |-> FALSE, attach |-> FALSE, replace |-> FALSE, hasOn |-> FALSE,
            structured |-> FALSE, securable |-> NoSecurable, marker |-> <<>>]

(* Mutant: a star is a wildcard, quoted or not. *)
StarIsWildcard(tok) ==
    IF tok.text = <<"*">> THEN [name |-> <<>>, star |-> TRUE, ok |-> TRUE]
    ELSE [name |-> tok.text, star |-> FALSE, ok |-> isNameTok(tok)]

(* One part of a securable: a name, or an unquoted *. *)
readPart(tok) ==
    IF tok.type # "QUOTED_IDENTIFIER" /\ tok.text = <<"*">> THEN [name |-> <<>>, star |-> TRUE, ok |-> TRUE]
    ELSE [name |-> IF isNameTok(tok) THEN tok.text ELSE <<>>, star |-> FALSE, ok |-> isNameTok(tok)]

Holds(text, w) == \E i \in DOMAIN text : text[i] = w

securableOns(s) == {i \in DOMAIN s : s[i].type = "ON" /\ TypeAt(s, i + 1) # "CLUSTER"}
tokensHaveSecurableOn(s) == securableOns(s) # {}
tokensHaveReplaceOption(s) == \E i \in DOMAIN s : TextAt(s, i) = <<"WITH">> /\ TextAt(s, i + 1) = <<"REPLACE">>

(* The ON target by identity: each token is one name. *)
tokenSecurable(s) ==
    LET ons == {i \in securableOns(s) : i + 1 \in DOMAIN s}
        j == 1 + CHOOSE i \in ons : \A m \in ons : i <= m
        first == readPart(s[j])
        two == TypeAt(s, j + 1) = "DOT" /\ j + 2 \in DOMAIN s /\ readPart(s[j + 2]).ok
        second == readPart(s[j + 2])
        sec == IF two THEN [NoSecurable EXCEPT !.db = first.name, !.anyDatabase = first.star,
                                               !.table = second.name, !.allTables = second.star]
               ELSE [NoSecurable EXCEPT !.table = first.name, !.allTables = first.star]
    IN  IF ons = {} \/ ~first.ok THEN NoSecurable
        ELSE [sec EXCEPT !.unrepresentable = Holds(sec.db, "*") \/ Holds(sec.table, "*")]

(* As Polyglot's generic node spells it, without quotes. *)
Flat(sec) ==
    LET table == IF sec.allTables THEN <<"*">> ELSE sec.table
        db    == IF sec.anyDatabase THEN <<"*">> ELSE sec.db
    IN  IF db = <<>> THEN table ELSE db \o <<".">> \o table

needsQuoting(text) == Len(text) # 1 \/ text = <<"*">>
(* What a plain name is to the tokenizer. *)
Retokenized(text) == IF text = <<"CLUSTER">> THEN Kw("CLUSTER") ELSE Var(text[1])
quotedPart(text, star) == IF star THEN Kw("*") ELSE IF needsQuoting(text) THEN Quoted(text) ELSE Retokenized(text)

(* Mutant: the flat name is printed as it is. *)
FlatTokens(sec) ==
    LET part(text, star) == IF star THEN Kw("*") ELSE IF Len(text) = 1 THEN Retokenized(text) ELSE Var(text[1])
    IN  IF sec.db = <<>> /\ ~sec.anyDatabase THEN <<part(sec.table, sec.allTables)>>
        ELSE <<part(sec.db, sec.anyDatabase), Kw("DOT"), part(sec.table, sec.allTables)>>

(* As ClickHouse SQL. *)
QuotedSecurable(sec) ==
    IF sec.db = <<>> /\ ~sec.anyDatabase THEN <<quotedPart(sec.table, sec.allTables)>>
    ELSE <<quotedPart(sec.db, sec.anyDatabase), Kw("DOT"), quotedPart(sec.table, sec.allTables)>>

(* The text without its ON CLUSTER name. *)
stripOnCluster(s) ==
    LET at == {i \in DOMAIN s : s[i].type = "ON" /\ TypeAt(s, i + 1) = "CLUSTER" /\ i + 2 \in DOMAIN s}
        i  == CHOOSE i \in at : \A m \in at : i <= m
    IN  IF at = {} THEN s ELSE SubSeq(s, 1, i - 1) \o From(s, i + 3)

(* Polyglot's generic grammar: the spelling of the securable, every part   *)
(* with it; <<>> where it does not parse.                                  *)
genericSecurable(s) ==
    LET on == {i \in DOMAIN s : s[i].type = "ON"}
        to == {i \in DOMAIN s : s[i].type = "TO"}
        i  == CHOOSE i \in on : \A m \in on : i <= m
        j  == CHOOSE j \in to : \A m \in to : j <= m
    IN  IF Cardinality(on) # 1 \/ to = {} \/ TypeAt(s, i + 1) = "CLUSTER" THEN <<>>
        ELSE FlattenSeq([k \in 1..(j - i - 1) |-> IF s[i + k].type = "DOT" THEN <<".">> ELSE s[i + k].text])

(* setGrantSecurableName and Generate: the text with the target quoted. *)
grantMarker(s, sec) ==
    LET i == CHOOSE i \in DOMAIN s : s[i].type = "ON"
        j == CHOOSE j \in DOMAIN s : s[j].type = "TO" /\ \A m \in 1..(j - 1) : s[m].type # "TO"
    IN  SubSeq(s, 1, i) \o QuotedSecurable(sec) \o From(s, j)

(* decodeGrantNode's name is the one the tokens spell. *)
sameTarget(sec, flat) == flat # <<>> /\ flat = Flat(sec)

ParseGrant(s) ==
    LET attach == TextAt(s, 1) = <<"ATTACH">> /\ TextAt(s, 2) = <<"GRANT">>
        verb   == TextAt(s, 1) \in {<<"GRANT">>, <<"REVOKE">>} \/ attach
        hasOn  == tokensHaveSecurableOn(s)
        head   == [NoGrant EXCEPT !.verb = TRUE, !.revoke = TextAt(s, 1) = <<"REVOKE">>, !.attach = attach,
                     !.hasOn = hasOn, !.replace = tokensHaveReplaceOption(s),
                     !.securable = IF hasOn THEN tokenSecurable(s) ELSE NoSecurable]
        cleaned == stripOnCluster(s)
    IN  IF ~verb THEN NoGrant
        ELSE IF attach \/ ~hasOn \/ head.replace THEN head
        ELSE IF sameTarget(head.securable, genericSecurable(cleaned))
             THEN [head EXCEPT !.structured = TRUE, !.marker = grantMarker(cleaned, head.securable)]
        ELSE head

---------------------------------------------------------------------------
(* The preflight reads the statement with each parser in turn; a SHOW of   *)
(* an unqualified table is then spliced.                                   *)

Physical == <<Quoted(<<"phys">>), Kw("DOT"), Quoted(<<"phys", ".", "t">>)>>

CommandInit ==
    /\ wrote \in Wrote /\ toks = Render(wrote) /\ phase = "object"
    /\ object = NoObject /\ level = NoLevel /\ grant = NoGrant /\ spliced = <<>>

ReadObjectTarget ==
    /\ phase = "object" /\ phase' = "level"
    /\ object' = ParseObjectTarget(toks)
    /\ UNCHANGED <<wrote, toks, level, grant, spliced>>

ReadDBLevel ==
    /\ phase = "level" /\ phase' = "grant"
    /\ level' = ParseDBLevel(toks)
    /\ UNCHANGED <<wrote, toks, object, grant, spliced>>

ReadGrant ==
    /\ phase = "grant" /\ phase' = "read"
    /\ grant' = ParseGrant(toks)
    /\ UNCHANGED <<wrote, toks, object, level, spliced>>

(* dispatchShowUnqualifiedTable *)
Splice ==
    /\ phase = "read" /\ phase' = "spliced"
    /\ level.kind = "show" /\ level.hasTable /\ level.tableResolved /\ ~level.hasDB
    /\ spliced' = SpliceShowTable(toks, Physical)
    /\ UNCHANGED <<wrote, toks, object, level, grant>>

CommandNext == ReadObjectTarget \/ ReadDBLevel \/ ReadGrant \/ Splice

CommandSpec == CommandInit /\ [][CommandNext]_cvars

---------------------------------------------------------------------------
Done == phase \in {"read", "spliced"}
ObjectVerbs == {"EXISTS", "SHOW CREATE", "DESCRIBE"}
GrantVerbs == {"GRANT", "REVOKE", "ATTACH"}
LastPart == wrote.parts[Len(wrote.parts)]

(* The type invariant: what is read belongs to the verb, and one parser    *)
(* claims a statement, but for SHOW CREATE, which ParseDBLevel also sees   *)
(* and its dispatcher leaves alone.                                        *)
CommandTypeOK ==
    /\ phase \in {"object", "level", "grant", "read", "spliced"}
    /\ object.shape \in {"none", "name", "call", "subquery"}
    /\ Done => /\ (object.verb # "none") = (wrote.verb \in ObjectVerbs)
               /\ (level.kind # "none") = (wrote.verb \in {"USE", "SHOW", "SHOW CREATE"})
               /\ grant.verb = (wrote.verb \in GrantVerbs)
               /\ wrote.verb = "SHOW CREATE" => level.what = <<"CREATE">>

TableKind == wrote.what.text \in isShowTableTargetKind
(* The database and table ClickHouse reads: a clause of its own, else the  *)
(* qualifier.                                                              *)
MeantDatabase ==
    IF wrote.db # None THEN Static(wrote.db)
    ELSE IF TableKind /\ Len(wrote.parts) < 2 THEN <<>>
    ELSE IF wrote.parts = <<>> THEN <<>> ELSE Static(wrote.parts[1])

(* A target of three or more parts that a parameter breaks off: no clause  *)
(* after it is read.                                                       *)
BrokenTarget == level.multiPart /\ ~level.tableResolved

(* A SHOW addresses what the parser says it does: a database or a table it *)
(* reports as resolved is the one ClickHouse goes to, whatever the WHERE   *)
(* clause holds and in whichever of the two clauses the database stands;   *)
(* a parameter leaves it unresolved.  The exception is the database of a   *)
(* broken target: it stays the qualifier's though a clause of its own      *)
(* follows, and the rest of the statement is reported as trailing.  No     *)
(* statement with a database is reported as having none.                   *)
ShowTargetRead ==
    (Done /\ wrote.verb = "SHOW") =>
        /\ level.dbResolved => level.db = MeantDatabase \/ BrokenTarget
        /\ BrokenTarget => level.trailing /\ level.db = Static(wrote.parts[1])
        /\ level.hasDB = (IF TableKind THEN wrote.db # None \/ (Len(wrote.parts) > 1 /\ level.dbResolved)
                          ELSE wrote.parts # <<>>)
        /\ level.tableResolved => TableKind /\ level.table = Static(LastPart)
        /\ level.tableResolved => level.hasDB = (wrote.db # None \/ Len(wrote.parts) > 1)

(* A statement that is printed anew from what was read loses nothing: when *)
(* no trailing token is reported, the fields say all the statement says.   *)
NothingDropped ==
    Done =>
        /\ (wrote.verb = "USE" /\ ~level.trailing) => Len(wrote.parts) = 1 /\ level.db \in {<<>>, Static(LastPart)}
        /\ (wrote.verb = "SHOW" /\ ~level.trailing) =>
              /\ wrote.tail \in {"none", "semicolon"}
              /\ level.hasLike = (wrote.like # "none")
              /\ level.likeNot = (wrote.like = "notIlike") /\ level.likeCI = (wrote.like = "notIlike")
        /\ (wrote.verb \in ObjectVerbs /\ object.shape = "name" /\ ~object.trailing) =>
              /\ wrote.shape = "name" /\ Len(wrote.parts) <= 2 /\ wrote.tail \in {"none", "semicolon"}
              /\ object.table = Static(LastPart)
              /\ object.db = IF Len(wrote.parts) = 2 THEN Static(wrote.parts[1]) ELSE <<>>

(* The databases of a table function's arguments are all found, whatever   *)
(* the arguments around them: those of strings, names and qualified names. *)
CallArgumentsRead ==
    (Done /\ wrote.verb \in ObjectVerbs /\ wrote.shape = "call") =>
        /\ object.fn = wrote.fn.text
        /\ object.argDatabases = UNION {argDatabase(wrote.args[i]) : i \in DOMAIN wrote.args}

IsStar(name) == name = <<Kw("*")>>
(* A grant the handler may turn into privileges reaches what the statement *)
(* says: one database's tables or all of them only where an unquoted star  *)
(* says so, and a name that holds a dot or a star is that one name.        *)
GrantScopeRead ==
    (Done /\ grant.structured) =>
        LET sec == grant.securable
            n   == Len(wrote.parts)
        IN  /\ n \in 1..2
            /\ sec.allTables = IsStar(LastPart)
            /\ sec.anyDatabase = (n = 2 /\ IsStar(wrote.parts[1]))
            /\ ~sec.allTables => sec.table = Static(LastPart)
            /\ sec.db = IF n = 2 /\ ~sec.anyDatabase THEN Static(wrote.parts[1]) ELSE <<>>
            /\ sec.unrepresentable = \E k \in 1..n : ~IsStar(wrote.parts[k]) /\ Holds(Static(wrote.parts[k]), "*")

(* The marker of a grant, read again, names the object of the statement    *)
(* (grant.go: "so the marker names the same object the statement did").    *)
(* The exception is an object with a name `cluster`: it is printed without *)
(* its quotes and read again as the keyword.                               *)
MarkerNamesTarget ==
    (Done /\ grant.structured) =>
        LET sec == grant.securable
        IN  <<"CLUSTER">> \notin {sec.db, sec.table} => tokenSecurable(grant.marker) = sec

(* A spliced SHOW asks for the physical table and for nothing else new.    *)
SpliceRetargets ==
    (phase = "spliced" /\ spliced # <<>>) =>
        LET again == ParseDBLevel(spliced) IN
        /\ again.db = <<"phys">> /\ again.table = <<"phys", ".", "t">>
        /\ [again EXCEPT !.db = level.db, !.table = level.table, !.hasDB = level.hasDB, !.dbResolved = level.dbResolved] = level
        /\ Len(spliced) = Len(toks) + 2

(* Each command is read as it was written: its kind, its target and scope, *)
(* the arguments of a call, and whatever follows; and what is printed from *)
(* the reading says the same.                                              *)
CommandsRead ==
    /\ CommandTypeOK /\ ShowTargetRead /\ NothingDropped /\ CallArgumentsRead
    /\ GrantScopeRead /\ MarkerNamesTarget /\ SpliceRetargets
============================================================================
