------------------------ MODULE RewritePolicyProofs ------------------------
(***************************************************************************)
(* The policy a Success has obeyed, for every set of requests: which       *)
(* databases it reaches, what it reports and what it may not touch.        *)
(***************************************************************************)
EXTENDS RewritePipelineProofs

(* The state of a finished Success. *)
LEMMA SuccessState ==
    ASSUME IInv, Behind, Succeeded
    PROVE  /\ ParsedStatement = req.st /\ req \in Requests /\ WellFormed(req.st) /\ WellFormedOptions(req.opts)
           /\ Origin /\ Valid /\ NoTail /\ Succeeding /\ pc = "done"
           /\ ~PreflightAnswer.handled /\ (Write.handled => Write.resp.Code = "Success")
<1>1. Succeeding /\ pc = "done"
  BY DEF Succeeded, Finished, Succeeding
<1>2. ParsedStatement = req.st /\ req \in Requests /\ WellFormed(req.st)
  BY <1>1, WholeParsed DEF Behind
<1>3. WellFormedOptions(req.opts)
  BY <1>2, OptionsAssumption
<1> QED BY <1>1, <1>2, <1>3 DEF Behind

---------------------------------------------------------------------------
(* Which handler a command's Success comes from. *)

LEMMA DatabaseLevelOrigin ==
    ASSUME Origin, \/ ParsedStatement.kind \in {"create_database", "drop_database"}
                   \/ ParsedStatement.kind = "command" /\ ParsedStatement.sub \in {"use", "show"}
    PROVE  \/ DBLevel.handled /\ DBLevel.resp.Code = "Success" /\ Tells(DBLevel.resp)
           \/ ~DBLevel.handled /\ PassedOn
<1>1. ~Describe.handled /\ ~Exists.handled /\ ~Grant.handled /\ ~ReadAnswer.handled
  BY DEF Describe, RewriteDescribe, Exists, RewriteExistsShowCreate,
         Grant, RewriteGrant, ReadAnswer, IsReadRoot, NotHandled
<1>2. Write.handled => Write.resp.Code # "Success"
  <2> SUFFICES ASSUME Write.handled, Write.resp.Code = "Success" PROVE FALSE
    OBVIOUS
  <2>1. WriteForm(ParsedStatement)
    BY WriteSucceeds DEF Write
  <2> QED BY <2>1 DEF WriteForm, WriteKinds
<1>3. PassedOn => ~DBLevel.handled
  BY DEF PassedOn, Later
<1> QED BY <1>1, <1>2, <1>3 DEF Origin, Later

LEMMA UseOrigin ==
    ASSUME Origin, ParsedStatement.kind = "command", ParsedStatement.sub = "use"
    PROVE  LET q == dispatchUse(ParsedStatement.cmd, FindDynamicArgs(req.opts))
           IN  q.Code = "Success" /\ Tells(q)
<1>1. DBLevel = Handled(dispatchUse(ParsedStatement.cmd, FindDynamicArgs(req.opts)))
  BY DEF DBLevel, RewriteDBLevel
<1>2. DBLevel.handled /\ DBLevel.resp = dispatchUse(ParsedStatement.cmd, FindDynamicArgs(req.opts))
  BY <1>1 DEF Handled
<1> QED BY <1>2, DatabaseLevelOrigin

(* A session moved by USE resolves its unqualified names where USE went. *)
LEMMA MovedSession ==
    ASSUME NEW a, NEW l, DOMAIN a = DOMAIN NoDynamic, ResolvePhysicalDatabase(l, a).ok,
           ~ProtectedDatabase(l, a), l \notin DOMAIN a.remote_index
    PROVE  LET p == ResolvePhysicalDatabase(l, a).db
               r == ApplyDynamic("", <<"t">>, [a EXCEPT !.ctx = l, !.pctx = p])
           IN  r.Status = "Rewrite" /\ r.PhysicalDB = p
<1> DEFINE p == ResolvePhysicalDatabase(l, a).db
           moved == [a EXCEPT !.ctx = l, !.pctx = p]
<1>0. l # ""
  BY DEF ResolvePhysicalDatabase
<1>1. /\ moved.ctx = l /\ moved.database_map = a.database_map /\ moved.known = a.known
      /\ moved.protected = a.protected /\ moved.si = a.si /\ moved.remote_index = a.remote_index
      /\ moved.extra = a.extra
  <2> HIDE DEF p
  <2> QED BY DEF NoDynamic
<1> HIDE DEF moved
<1>2. ~ProtectedDatabase(l, moved)
  <2>1. SITableDatabases(moved) = SITableDatabases(a)
    BY <1>1 DEF SITableDatabases
  <2>2. storageIntegrityReservedDatabase(l, moved) <=> storageIntegrityReservedDatabase(l, a)
    BY <1>1 DEF storageIntegrityReservedDatabase
  <2>3. IsStorageIntegrityPhysicalDatabase(l, moved) <=> IsStorageIntegrityPhysicalDatabase(l, a)
    BY <2>1, <2>2 DEF IsStorageIntegrityPhysicalDatabase
  <2> QED BY <1>1, <2>3 DEF ProtectedDatabase
<1>3. ResolvePhysicalDatabase(l, moved) = ResolvePhysicalDatabase(l, a)
  BY <1>1, <1>2 DEF ResolvePhysicalDatabase
<1>4. LogicalOf("", moved) = l
  BY <1>1 DEF LogicalOf
<1>5. LET r == ApplyDynamic("", <<"t">>, moved) IN r.Status = "Rewrite" /\ r.PhysicalDB = p
  BY <1>0, <1>1, <1>2, <1>3, <1>4 DEF ApplyDynamic, Outcome
<1> QED BY <1>5 DEF moved

(* The session USE leaves behind and the resolver of the next statement    *)
(* agree on the physical database (dispatchUse in dblevel.go).             *)
THEOREM UseMovesSession == Spec => []UseAgreesWithResolution
<1>1. IInv /\ Behind => UseAgreesWithResolution
  <2> SUFFICES ASSUME IInv, Behind, Succeeded, Sub("use"), Args.found, NEW o \in resp.After.out
               PROVE  LET moved == [Args.args EXCEPT !.ctx = req.st.cmd.db, !.pctx = o.db]
                          r     == ApplyDynamic("", <<"t">>, moved)
                      IN  r.Status = "Rewrite" /\ r.PhysicalDB = o.db
    BY DEF UseAgreesWithResolution
  <2> DEFINE c == req.st.cmd
             a == Args.args
             p == ResolvePhysicalDatabase(c.db, a).db
  <2>1. ParsedStatement = req.st /\ Origin /\ WellFormedOptions(req.opts)
    BY SuccessState
  <2>2. dispatchUse(c, Args).Code = "Success" /\ Tells(dispatchUse(c, Args))
    BY <2>1, UseOrigin DEF Sub, Args
  <2>3. /\ ResolvePhysicalDatabase(c.db, a).ok /\ ~ProtectedDatabase(c.db, a)
        /\ c.db \notin DOMAIN a.remote_index
        /\ dispatchUse(c, Args).After = Generated(UseOutput(p, c.db))
    BY <2>2, UsePassed
  <2>4. DOMAIN a = DOMAIN NoDynamic
    BY <2>1, FoundIsGiven DEF Args, WellFormedArguments
  <2>5. o.db = p
    BY <2>2, <2>3 DEF Tells, Generated, UseOutput, OutRef
  <2>6. LET r == ApplyDynamic("", <<"t">>, [a EXCEPT !.ctx = c.db, !.pctx = p])
        IN  r.Status = "Rewrite" /\ r.PhysicalDB = p
    <3> HIDE DEF a, c
    <3> QED BY <2>3, <2>4, MovedSession
  <2> HIDE DEF p
  <2> QED BY <2>5, <2>6
<1> QED BY <1>1, Provenance, PTL

---------------------------------------------------------------------------
(* The databases of the account and the commands that name them. *)

(* A logical database is entered or listed where the map puts it, and one  *)
(* that is only known is not protected.                                    *)
LEMMA ReachedIsolated ==
    ASSUME NEW a, NEW l, ResolvePhysicalDatabase(l, a).ok, a.extra \in Seq(STRING), NEW o,
           \/ o = OutRef("use", ResolvePhysicalDatabase(l, a).db, NoTable, Ref(l, NoTable), "caller")
           \/ o = OutRef("list", ResolvePhysicalDatabase(l, a).db, BuildDynamicTablePrefix(l, a),
                         Ref(l, NoTable), "caller")
    PROVE  Isolated(o, a)
<1> DEFINE p == ResolvePhysicalDatabase(l, a).db
<1>0. l # ""
  BY DEF ResolvePhysicalDatabase
<1>1. LogicalOf(o.from.db, a) = l /\ o.db = p
  <2>1. o.from.db = l /\ o.db = p
    <3> HIDE DEF p
    <3> QED BY DEF OutRef, Ref, p
  <2> QED BY <1>0, <2>1 DEF LogicalOf
<1>2. \/ l \in DOMAIN a.database_map /\ p = a.database_map[l]
      \/ p = l /\ ~ProtectedDatabase(l, a)
  BY DEF ResolvePhysicalDatabase
<1>3. CASE p = l /\ ~ProtectedDatabase(l, a)
  BY <1>0, <1>1, <1>3 DEF Isolated
<1>4. CASE l \in DOMAIN a.database_map /\ p = a.database_map[l]
  <2>1. o.how \notin {"surface", "use"} =>
          /\ Len(o.table) > Len(a.extra)
          /\ SubSeq(o.table, 1, Len(a.extra) + 1) = <<l>> \o a.extra
    <3> SUFFICES ASSUME o.how \notin {"surface", "use"}
                 PROVE  /\ Len(o.table) > Len(a.extra)
                        /\ SubSeq(o.table, 1, Len(a.extra) + 1) = <<l>> \o a.extra
      OBVIOUS
    <3>1. o.table = <<l>> \o a.extra
      BY DEF OutRef, BuildDynamicTablePrefix
    <3>2. <<l>> \in Seq(STRING \cup {l}) /\ a.extra \in Seq(STRING \cup {l})
      OBVIOUS
    <3>3. <<l>> \o a.extra \in Seq(STRING \cup {l}) /\ Len(<<l>> \o a.extra) = Len(a.extra) + 1
          /\ Len(a.extra) \in Nat
      BY <3>2
    <3> QED BY <3>1, <3>3
  <2> QED BY <1>1, <1>4, <2>1 DEF Isolated
<1> QED BY <1>2, <1>3, <1>4

LEMMA ShowOrigin ==
    ASSUME Origin, ParsedStatement.kind = "command", ParsedStatement.sub = "show"
    PROVE  LET c == ParsedStatement.cmd
               dyn == FindDynamicArgs(req.opts)
               h == dispatchShowTables(text, c, dyn)
           IN  \/ /\ c.what = "DATABASES" /\ dispatchShowDatabases(c, dyn).Code = "Success"
                  /\ Tells(dispatchShowDatabases(c, dyn))
               \/ /\ c.what # "DATABASES" /\ h.handled /\ h.resp.Code = "Success" /\ Tells(h.resp)
               \/ c.what \notin {"DATABASES", "TABLES"} /\ PassedOn
<1> DEFINE c == ParsedStatement.cmd
           dyn == FindDynamicArgs(req.opts)
           h == dispatchShowTables(text, c, dyn)
<1>1. DBLevel = IF c.what = "DATABASES" THEN Handled(dispatchShowDatabases(c, dyn)) ELSE h
  BY DEF DBLevel, RewriteDBLevel
<1>2. c.what = "TABLES" => h.handled
  BY DEF dispatchShowTables, showKindClass, ShowTargetBearing, ShowTargetLess, Handled
<1>3. \/ DBLevel.handled /\ DBLevel.resp.Code = "Success" /\ Tells(DBLevel.resp)
      \/ ~DBLevel.handled /\ PassedOn
  BY DatabaseLevelOrigin
<1> HIDE DEF c, dyn, h
<1>4. CASE c.what = "DATABASES"
  <2>1. DBLevel.handled /\ DBLevel.resp = dispatchShowDatabases(c, dyn)
    BY <1>1, <1>4 DEF Handled
  <2> QED BY <1>3, <1>4, <2>1 DEF c, dyn
<1>5. CASE c.what # "DATABASES"
  <2>1. DBLevel = h
    BY <1>1, <1>5
  <2> QED BY <1>2, <1>3, <1>5, <2>1 DEF c, dyn, h
<1> QED BY <1>4, <1>5

(* SHOW TABLES under dynamic arguments. *)
LEMMA EnumerationOrigin ==
    ASSUME Origin, ParsedStatement.kind = "command", ParsedStatement.sub = "show",
           ParsedStatement.cmd.what = "TABLES", FindDynamicArgs(req.opts).found
    PROVE  LET c == ParsedStatement.cmd
               a == FindDynamicArgs(req.opts).args
           IN  /\ ResolvePhysicalDatabase(Listed(c, a), a).ok
               /\ resp.After.out = ListOutput(c, a)
               /\ resp.DatabaseRewrites =
                     recordDatabaseRewrite(EmptyMap, Listed(c, a), ResolvePhysicalDatabase(Listed(c, a), a).db)
<1> DEFINE c == ParsedStatement.cmd
           dyn == FindDynamicArgs(req.opts)
           r == newWriteResp("show_tables")
           h == dispatchShowTables(text, c, dyn)
           e == dispatchEnumeration(r, text, c, dyn.args)
<1>1. h.handled /\ h.resp.Code = "Success" /\ Tells(h.resp)
  BY ShowOrigin
<1>2. h.resp = e
  BY <1>1, ShowTablesPassed
<1>3. Blank(r)
  BY NewRespBlank
<1> HIDE DEF c, dyn, r, h
<1>4. /\ ResolvePhysicalDatabase(Listed(c, dyn.args), dyn.args).ok
      /\ e.After = Generated(ListOutput(c, dyn.args))
      /\ e.DatabaseRewrites = recordDatabaseRewrite(EmptyMap, Listed(c, dyn.args),
                                  ResolvePhysicalDatabase(Listed(c, dyn.args), dyn.args).db)
  BY <1>1, <1>2, <1>3, EnumerationPassed
<1> QED BY <1>1, <1>2, <1>4 DEF Tells, Generated, c, dyn

(* Only these statements report databases. *)
NamesDatabase(st) ==
    \/ st.kind \in {"create_database", "drop_database"}
    \/ st.kind = "command" /\ st.sub \in {"use", "show"}

LEMMA DescribeOrigin ==
    ASSUME Describe.handled, Describe.resp.Code = "Success"
    PROVE  /\ ParsedStatement.kind = "command" /\ ParsedStatement.sub = "object"
           /\ ObjectShown(ParsedStatement.cmd, Sel, Describe.resp)
<1>1. ParsedStatement.kind = "command" /\ ParsedStatement.sub = "object" /\ ParsedStatement.cmd.verb = "describe"
  BY DEF Describe, RewriteDescribe, NotHandled
<1>2. Describe.resp = DescribeTarget(ParsedStatement.cmd, Sel)
  BY <1>1 DEF Describe, RewriteDescribe, Handled, Sel
<1> QED BY <1>1, <1>2, DescribePassed

LEMMA ExistsOrigin ==
    ASSUME Exists.handled, Exists.resp.Code = "Success"
    PROVE  /\ ParsedStatement.kind = "command" /\ ParsedStatement.sub = "object"
           /\ ObjectShown(ParsedStatement.cmd, Sel, Exists.resp)
<1>1. /\ ParsedStatement.kind = "command" /\ ParsedStatement.sub = "object"
      /\ ParsedStatement.cmd.verb \in {"exists", "show_create"}
  BY DEF Exists, RewriteExistsShowCreate, NotHandled
<1>2. Exists.resp = ExistsTarget(ParsedStatement.cmd, Sel)
  BY <1>1 DEF Exists, RewriteExistsShowCreate, Handled, Sel
<1> QED BY <1>1, <1>2, ExistsPassed

LEMMA GrantOrigin ==
    ASSUME Grant.handled
    PROVE  /\ ParsedStatement.kind = "command" /\ ParsedStatement.sub = "grant"
           /\ GrantTold(ParsedStatement.cmd, Sel, FindDynamicArgs(req.opts), Grant.resp)
<1>1. ParsedStatement.kind = "command" /\ ParsedStatement.sub = "grant"
  BY DEF Grant, RewriteGrant, NotHandled
<1>2. Grant.resp = GrantTarget(ParsedStatement.cmd, req.opts)
  BY <1>1 DEF Grant, RewriteGrant, Handled
<1> QED BY <1>1, <1>2, GrantTells DEF Sel

LEMMA WriteOrigin ==
    ASSUME Write.handled, Write.resp.Code = "Success"
    PROVE  /\ WriteForm(ParsedStatement)
           /\ Written(ParsedStatement, Sel, rewriteSelectCore(ParsedStatement, req.opts), Write.resp)
  BY WriteSucceeds DEF Write, Sel

LEMMA OthersNameNone ==
    ASSUME Origin, ~NamesDatabase(ParsedStatement)
    PROVE  resp.DatabaseRewrites = EmptyMap
<1>1. ~DBLevel.handled
  BY DEF DBLevel, RewriteDBLevel, NamesDatabase, NotHandled
<1>2. CASE PassedOn
  BY <1>2 DEF PassedOn, Fresh
<1>3. CASE Write.handled /\ Write.resp.Code = "Success" /\ Tells(Write.resp)
  BY <1>3, WriteOrigin DEF Written, Tells
<1>4. CASE Describe.handled /\ Describe.resp.Code = "Success" /\ Tells(Describe.resp)
  BY <1>4, DescribeOrigin DEF ObjectShown, Tells
<1>5. CASE Exists.handled /\ Exists.resp.Code = "Success" /\ Tells(Exists.resp)
  BY <1>5, ExistsOrigin DEF ObjectShown, Tells
<1>6. CASE Grant.handled /\ Grant.resp.Code = "Success" /\ Tells(Grant.resp)
  BY <1>6, GrantOrigin DEF GrantTold, Tells
<1>7. CASE ReadAnswer.handled
  <2>1. IsReadRoot(ParsedStatement)
    BY <1>7 DEF ReadAnswer, NotHandled
  <2>2. /\ rewriteSelectCore(ParsedStatement, req.opts).Code = "Success"
        /\ Tells(rewriteSelectCore(ParsedStatement, req.opts))
    BY <2>1, ReadOrigin
  <2> QED BY <2>2, SelectPassed DEF Tells
<1> QED BY <1>1, <1>2, <1>3, <1>4, <1>5, <1>6, <1>7 DEF Origin, Later

LEMMA MapsTrusted ==
    ASSUME Origin
    PROVE  LET dyn == FindDynamicArgs(req.opts)
           IN  /\ ~dyn.found => DOMAIN resp.DatabaseRewrites = {}
               /\ dyn.found => MapTrusted(resp, dyn.args)
               /\ /\ ParsedStatement.kind = "command" /\ ParsedStatement.sub = "show"
                  /\ ParsedStatement.cmd.what = "DATABASES" /\ dyn.found
                  => \A l \in DOMAIN resp.DatabaseRewrites : resp.DatabaseRewrites[l] \in dyn.args.known
<1> DEFINE st == ParsedStatement
           c == st.cmd
           dyn == FindDynamicArgs(req.opts)
<1>0. resp.DatabaseRewrites = EmptyMap =>
          DOMAIN resp.DatabaseRewrites = {} /\ MapTrusted(resp, dyn.args)
  BY EmptyMapTrusted
<1>a. ASSUME NEW q, Tells(q), MapTrusted(q, dyn.args) PROVE MapTrusted(resp, dyn.args)
  BY <1>a DEF Tells, MapTrusted
<1> HIDE DEF st, dyn
<1>1. CASE ~NamesDatabase(st)
  BY <1>0, <1>1, OthersNameNone DEF NamesDatabase, st, dyn
<1>2. CASE st.kind \in {"create_database", "drop_database"}
  <2>1. PICK q \in {dispatchCreateDatabase(st, dyn), dispatchDropDatabase(st, dyn)} : DBLevel = Handled(q)
    BY <1>2 DEF DBLevel, RewriteDBLevel, st, dyn
  <2>2. DBLevel.handled /\ DBLevel.resp = q
    BY <2>1 DEF Handled
  <2>3. q.Code = "Success" /\ Tells(q)
    BY <1>2, <2>2, DatabaseLevelOrigin DEF st
  <2>4. dyn.found /\ MapTrusted(q, dyn.args)
    BY <2>3, DatabasePassed
  <2> QED BY <1>2, <1>a, <2>3, <2>4 DEF st, dyn
<1>3. CASE st.kind = "command" /\ st.sub = "use"
  <2> DEFINE q == dispatchUse(c, dyn)
  <2>1. q.Code = "Success" /\ Tells(q)
    BY <1>3, UseOrigin DEF st, dyn
  <2>2. CASE dyn.found
    <3>1. /\ ResolvePhysicalDatabase(c.db, dyn.args).ok
          /\ q.DatabaseRewrites = recordDatabaseRewrite(EmptyMap, c.db, ResolvePhysicalDatabase(c.db, dyn.args).db)
      BY <2>1, <2>2, UsePassed
    <3> HIDE DEF q
    <3>2. MapTrusted(q, dyn.args)
      BY <3>1, ResolvedShape, EntryTrusted
    <3> QED BY <1>3, <1>a, <2>1, <2>2, <3>2 DEF st, dyn
  <2>3. CASE ~dyn.found
    <3>1. q = [newWriteResp("use") EXCEPT !.After = Generated(UseOutput(c.db, c.db))]
      BY <2>3 DEF dispatchUse
    <3>2. q.DatabaseRewrites = EmptyMap
      BY <3>1, NewResp DEF Blank, Fields
    <3> QED BY <1>0, <1>3, <2>1, <2>3, <3>2 DEF Tells, st, dyn
  <2> QED BY <2>2, <2>3
<1>4. CASE st.kind = "command" /\ st.sub = "show" /\ c.what = "DATABASES"
  <2> DEFINE q == dispatchShowDatabases(c, dyn)
  <2>1. q.Code = "Success" /\ Tells(q)
    BY <1>4, ShowOrigin DEF st, dyn
  <2>2. /\ ~dyn.found => q.DatabaseRewrites = EmptyMap
        /\ dyn.found => /\ MapTrusted(q, dyn.args)
                        /\ \A l \in DOMAIN q.DatabaseRewrites : q.DatabaseRewrites[l] \in dyn.args.known
    BY <2>1, ShowDatabasesPassed
  <2> HIDE DEF q
  <2> QED BY <1>0, <1>a, <2>1, <2>2 DEF Tells, dyn
<1>5. CASE st.kind = "command" /\ st.sub = "show" /\ c.what # "DATABASES"
  <2>1. CASE PassedOn
    BY <1>0, <1>5, <2>1 DEF PassedOn, Fresh, st, dyn
  <2>2. CASE dyn.found /\ c.what = "TABLES"
    <3>1. /\ ResolvePhysicalDatabase(Listed(c, dyn.args), dyn.args).ok
          /\ resp.DatabaseRewrites = recordDatabaseRewrite(EmptyMap, Listed(c, dyn.args),
                                        ResolvePhysicalDatabase(Listed(c, dyn.args), dyn.args).db)
      BY <1>5, <2>2, EnumerationOrigin DEF st, dyn
    <3>2. MapTrusted(resp, dyn.args)
      BY <3>1, ResolvedShape, EntryTrusted
    <3> QED BY <1>5, <2>2, <3>2 DEF st, dyn
  <2>3. CASE ~PassedOn /\ ~(dyn.found /\ c.what = "TABLES")
    <3> DEFINE h == dispatchShowTables(text, c, dyn)
    <3>1. h.handled /\ h.resp.Code = "Success" /\ Tells(h.resp)
      BY <1>5, <2>3, ShowOrigin DEF st, dyn
    <3>2. ShowSends(c, dyn.args, h.resp)
      BY <2>3, <3>1, ShowTablesPassed
    <3> QED BY <1>0, <1>5, <3>1, <3>2 DEF ShowSends, Tells, st, dyn
  <2> QED BY <2>1, <2>2, <2>3
<1> QED BY <1>1, <1>2, <1>3, <1>4, <1>5 DEF NamesDatabase

(* USE and SHOW TABLES reach a protected database only as a logical        *)
(* database mapped to it, even where a later static option stands the      *)
(* preflight aside; and database_rewrites says what the resolver would     *)
(* (dblevel.go, FindDynamicArgs in resolve.go 114-131).                    *)
THEOREM DatabaseCommandsStayIsolated == Spec => []DatabaseCommandsIsolated
<1>1. IInv /\ Behind => DatabaseMapTrusted
  <2> SUFFICES ASSUME IInv, Behind, Succeeded, NEW l \in DOMAIN resp.DatabaseRewrites
               PROVE  /\ Args.found
                      /\ ResolvePhysicalDatabase(l, Args.args) = [ok |-> TRUE, db |-> resp.DatabaseRewrites[l]]
                      /\ Sub("show") /\ req.st.cmd.what = "DATABASES" =>
                            resp.DatabaseRewrites[l] \in Args.args.known
    BY DEF DatabaseMapTrusted
  <2>1. ParsedStatement = req.st /\ Origin
    BY SuccessState
  <2> QED BY <2>1, MapsTrusted DEF Args, Sub, MapTrusted
<1>2. ASSUME IInv, Behind, Succeeded, Args.found, Sub("use") \/ (Sub("show") /\ req.st.cmd.what = "TABLES"),
             NEW o \in resp.After.out
      PROVE  Isolated(o, Args.args)
  <2> DEFINE c == req.st.cmd
             a == Args.args
  <2>1. ParsedStatement = req.st /\ Origin /\ a.extra \in Seq(STRING)
    BY <1>2, SuccessState, FoundIsGiven DEF Args, WellFormedArguments
  <2>2. CASE Sub("use")
    <3>1. dispatchUse(c, Args).Code = "Success" /\ Tells(dispatchUse(c, Args))
      BY <2>1, <2>2, UseOrigin DEF Sub, Args
    <3>2. /\ ResolvePhysicalDatabase(c.db, a).ok
          /\ dispatchUse(c, Args).After = Generated(UseOutput(ResolvePhysicalDatabase(c.db, a).db, c.db))
      BY <1>2, <3>1, UsePassed
    <3>3. o = OutRef("use", ResolvePhysicalDatabase(c.db, a).db, NoTable, Ref(c.db, NoTable), "caller")
      BY <1>2, <3>1, <3>2 DEF Tells, Generated, UseOutput
    <3> QED BY <2>1, <3>2, <3>3, ReachedIsolated
  <2>3. CASE Sub("show") /\ c.what = "TABLES"
    <3>1. ResolvePhysicalDatabase(Listed(c, a), a).ok /\ resp.After.out = ListOutput(c, a)
      BY <1>2, <2>1, <2>3, EnumerationOrigin DEF Sub, Args
    <3>2. o = OutRef("list", ResolvePhysicalDatabase(Listed(c, a), a).db,
                     BuildDynamicTablePrefix(Listed(c, a), a), Ref(Listed(c, a), NoTable), "caller")
      BY <1>2, <3>1 DEF ListOutput
    <3> QED BY <2>1, <3>1, <3>2, ReachedIsolated
  <2> QED BY <1>2, <2>2, <2>3
<1>3. IInv /\ Behind => DatabaseCommandsIsolated
  BY <1>1, <1>2 DEF DatabaseCommandsIsolated
<1> QED BY <1>3, Provenance, PTL

---------------------------------------------------------------------------
(* The names a statement holds and the preflight sees. *)

LEMMA DatabasesOf ==
    ASSUME NEW s \in Seq(Refs)
    PROVE  LET dbs == [i \in DOMAIN s |-> s[i].db]
           IN  dbs \in Seq(STRING) /\ Range(dbs) = {r.db : r \in Range(s)}
<1> DEFINE dbs == [i \in DOMAIN s |-> s[i].db]
<1>1. Len(s) \in Nat /\ DOMAIN s = 1..Len(s) /\ \A i \in DOMAIN s : s[i] \in Refs
  OBVIOUS
<1>2. dbs \in [1..Len(s) -> STRING]
  BY <1>1 DEF Refs
<1>3. dbs \in Seq(STRING)
  BY <1>1, <1>2, SeqDef
<1> QED BY <1>3 DEF Range

LEMMA ArgumentsOf ==
    ASSUME NEW s, ArgumentRefs(s) \in Seq(Refs)
    PROVE  /\ Len(ArgumentRefs(s)) \in Nat /\ DOMAIN s = 1..Len(ArgumentRefs(s))
           /\ \A i \in DOMAIN s : Ref(s[i].db, s[i].table) \in Range(ArgumentRefs(s))
           /\ \A i \in DOMAIN s : s[i].db \in STRING /\ s[i].table \in Seq(STRING)
<1> DEFINE t == ArgumentRefs(s)
<1>1. DOMAIN t = DOMAIN s /\ \A i \in DOMAIN s : t[i] = Ref(s[i].db, s[i].table)
  BY DEF ArgumentRefs
<1> HIDE DEF t
<1>2. t \in Seq(Refs)
  BY DEF t
<1>3. Len(t) \in Nat /\ DOMAIN t = 1..Len(t) /\ \A i \in DOMAIN t : t[i] \in Refs
  BY <1>2
<1>4. \A i \in DOMAIN s : Ref(s[i].db, s[i].table) \in Refs
  BY <1>1, <1>3
<1>5. \A i \in DOMAIN s : s[i].db \in STRING /\ s[i].table \in Seq(STRING)
  BY <1>4 DEF Refs, Ref
<1> QED BY <1>1, <1>3, <1>5 DEF Range, t

(* The references a statement of this kind names by database. *)
NamedRefs(st) ==
    IF st.kind = "command" THEN Range(st.slots) \cup Range(st.opaque)
    ELSE Range(st.slots) \cup Range(st.cross) \cup Range(st.reads) \cup Range(st.exprReads)
         \cup Range(ArgumentRefs(st.ns)) \cup Range(st.opaque) \cup Range(ArgumentRefs(st.lookups))

LEMMA NamedRange ==
    ASSUME NEW st, WellFormed(st)
    PROVE  /\ NamedDatabases(st) \in Seq(STRING)
           /\ Range(NamedDatabases(st)) = Range(CommandDatabases(st)) \cup {r.db : r \in NamedRefs(st)}
<1> DEFINE refs == IF st.kind = "command" THEN st.slots \o st.opaque
                   ELSE AllWriteTargets(st) \o st.reads \o st.exprReads
                        \o ArgumentRefs(st.ns) \o st.opaque \o ArgumentRefs(st.lookups)
<1>1. /\ st.slots \in Seq(Refs) /\ st.cross \in Seq(Refs) /\ st.reads \in Seq(Refs)
      /\ st.exprReads \in Seq(Refs) /\ st.opaque \in Seq(Refs)
      /\ ArgumentRefs(st.ns) \in Seq(Refs) /\ ArgumentRefs(st.lookups) \in Seq(Refs)
  BY DEF WellFormed
<1>2. refs \in Seq(Refs) /\ Range(refs) = NamedRefs(st)
  <2>1. CASE st.kind = "command"
    BY <1>1, <2>1, ConcatIn DEF NamedRefs
  <2>2. CASE st.kind # "command"
    <3>1. AllWriteTargets(st) \in Seq(Refs) /\ Range(AllWriteTargets(st)) = Range(st.slots) \cup Range(st.cross)
      BY <1>1, ConcatIn DEF AllWriteTargets
    <3> DEFINE a1 == AllWriteTargets(st) \o st.reads
               a2 == a1 \o st.exprReads
               a3 == a2 \o ArgumentRefs(st.ns)
               a4 == a3 \o st.opaque
               a5 == a4 \o ArgumentRefs(st.lookups)
    <3>2. a1 \in Seq(Refs) /\ Range(a1) = Range(AllWriteTargets(st)) \cup Range(st.reads)
      BY <1>1, <3>1, ConcatIn
    <3> HIDE DEF a1
    <3>3. a2 \in Seq(Refs) /\ Range(a2) = Range(a1) \cup Range(st.exprReads)
      BY <1>1, <3>2, ConcatIn
    <3> HIDE DEF a2
    <3>4. a3 \in Seq(Refs) /\ Range(a3) = Range(a2) \cup Range(ArgumentRefs(st.ns))
      BY <1>1, <3>3, ConcatIn
    <3> HIDE DEF a3
    <3>5. a4 \in Seq(Refs) /\ Range(a4) = Range(a3) \cup Range(st.opaque)
      BY <1>1, <3>4, ConcatIn
    <3> HIDE DEF a4
    <3>6. a5 \in Seq(Refs) /\ Range(a5) = Range(a4) \cup Range(ArgumentRefs(st.lookups))
      BY <1>1, <3>5, ConcatIn
    <3>7. refs = a5
      BY <2>2 DEF a1, a2, a3, a4
    <3> HIDE DEF a5, refs
    <3> QED BY <2>2, <3>1, <3>2, <3>3, <3>4, <3>5, <3>6, <3>7 DEF NamedRefs
  <2> QED BY <2>1, <2>2
<1> HIDE DEF refs
<1> DEFINE dbs == [i \in DOMAIN refs |-> refs[i].db]
<1>3. dbs \in Seq(STRING) /\ Range(dbs) = {r.db : r \in NamedRefs(st)}
  BY <1>2, DatabasesOf
<1>4. CommandDatabases(st) \in Seq(STRING)
  <2>0. <<>> \in Seq(STRING)
    OBVIOUS
  <2>1. CASE st.kind # "command"
    BY <2>0, <2>1 DEF CommandDatabases, WellFormed
  <2>2. CASE st.kind = "command"
    <3> DEFINE c == st.cmd
    <3>1. WellFormedCommand(st)
      BY <2>2 DEF WellFormed
    <3>2. CASE st.sub = "use"
      BY <3>1, <3>2 DEF CommandDatabases, WellFormedCommand
    <3>3. CASE st.sub = "show"
      <4>0. c.db \in STRING /\ c.body \in Seq(Refs)
        BY <3>1, <3>3 DEF WellFormedCommand
      <4>1. <<c.db>> \in Seq(STRING) /\ c.body \in Seq(Refs)
        BY <4>0
      <4>2. [i \in DOMAIN c.body |-> c.body[i].db] \in Seq(STRING)
        BY <4>1, DatabasesOf
      <4>3. CommandDatabases(st) = <<c.db>> \o [i \in DOMAIN c.body |-> c.body[i].db]
        BY <3>3 DEF CommandDatabases
      <4> QED BY <4>1, <4>2, <4>3, ConcatIn
    <3>4. CASE st.sub = "object"
      <4>1. c.db \in STRING /\ c.table \in Seq(STRING)
        BY <3>1, <3>4 DEF WellFormedCommand
      <4>2. c.table # NoTable => Head(c.table) \in STRING
        BY <4>1 DEF NoTable
      <4>3. CommandDatabases(st) = <<IF c.objType = "DATABASE" /\ c.table # NoTable
                                     THEN Head(c.table) ELSE c.db>>
        BY <3>4 DEF CommandDatabases
      <4>4. (IF c.objType = "DATABASE" /\ c.table # NoTable THEN Head(c.table) ELSE c.db) \in STRING
        BY <4>1, <4>2
      <4> HIDE DEF c
      <4> QED BY <4>3, <4>4
    <3>5. CASE st.sub \notin {"use", "show", "object"}
      BY <2>0, <3>5 DEF CommandDatabases
    <3> QED BY <3>2, <3>3, <3>4, <3>5
  <2> QED BY <2>1, <2>2
<1>5. NamedDatabases(st) = CommandDatabases(st) \o dbs
  BY DEF NamedDatabases, refs
<1> HIDE DEF dbs
<1> QED BY <1>3, <1>4, <1>5, ConcatIn

(* No storage-integrity database without the surface. *)
LEMMA InactiveNoSI ==
    ASSUME NEW a, ~StorageIntegritySurfaceActive(a)
    PROVE  \A db : ~IsStorageIntegrityPhysicalDatabase(db, a)
<1>1. DOMAIN a.si.tables = {} /\ a.si.version # "V2"
  BY DEF StorageIntegritySurfaceActive
<1>2. SITableDatabases(a) = {}
  BY <1>1 DEF SITableDatabases
<1> QED BY <1>1, <1>2 DEF IsStorageIntegrityPhysicalDatabase, storageIntegrityReservedDatabase

(* A database the statement names, the session's included, is protected    *)
(* only as a storage-integrity database, which the handlers judge.         *)
LEMMA NamedUnprotected ==
    ASSUME NEW st, NEW t, NEW sel, sel.Mode = "dynamic", WellFormed(st), sel.Dynamic.ctx \in STRING,
           ~PreflightTableReferences(st, t, sel).handled, ~UnmodelledCommand(st, sel),
           NEW db \in Range(NamedDatabases(st)) \cup {sel.Dynamic.ctx},
           ~IsStorageIntegrityPhysicalDatabase(db, sel.Dynamic)
    PROVE  ~ProtectedDatabase(db, sel.Dynamic)
<1> DEFINE s == NamedDatabases(st)
           dbs == s \o <<sel.Dynamic.ctx>>
<1>1. s \in Seq(STRING) /\ <<sel.Dynamic.ctx>> \in Seq(STRING)
  BY NamedRange
<1>2. dbs \in Seq(STRING) /\ Range(dbs) = Range(s) \cup Range(<<sel.Dynamic.ctx>>)
  <2> DEFINE c == <<sel.Dynamic.ctx>>
  <2>1. c \in Seq(STRING)
    BY <1>1
  <2> HIDE DEF s, c
  <2>2. s \o c \in Seq(STRING) /\ Range(s \o c) = Range(s) \cup Range(c)
    BY <1>1, <2>1, ConcatIn
  <2> QED BY <2>2 DEF c
<1>3. Range(<<sel.Dynamic.ctx>>) = {sel.Dynamic.ctx}
  BY DEF Range
<1>b. db \in Range(s) \cup {sel.Dynamic.ctx}
  OBVIOUS
<1>4. RefusedDatabases(dbs, st, sel) = {}
  BY PreflightPassed
<1> HIDE DEF dbs, s
<1>d. db \in Range(dbs)
  BY <1>2, <1>3, <1>b
<1>5. PICK i \in DOMAIN dbs : dbs[i] = db
  BY <1>d DEF Range
<1> QED BY <1>4, <1>5 DEF RefusedDatabases

---------------------------------------------------------------------------
(* Isolation of one name of the generated SQL. *)

LEMMA PrefixShape ==
    ASSUME NEW X, NEW l \in X, NEW extra \in Seq(X), NEW table \in Seq(X)
    PROVE  LET new == (<<l>> \o extra) \o table
           IN  Len(new) > Len(extra) /\ SubSeq(new, 1, Len(extra) + 1) = <<l>> \o extra
<1> DEFINE p == <<l>> \o extra
           new == p \o table
<1>1. p \in Seq(X) /\ Len(p) = Len(extra) + 1 /\ Len(extra) \in Nat /\ Len(table) \in Nat
  OBVIOUS
<1> HIDE DEF p
<1>2. new \in Seq(X) /\ Len(new) = Len(p) + Len(table)
  BY <1>1
<1>3. SubSeq(new, 1, Len(p)) = p
  BY <1>1, <1>2
<1> HIDE DEF new
<1>4. Len(new) > Len(extra) /\ SubSeq(new, 1, Len(extra) + 1) = p
  BY <1>1, <1>2, <1>3
<1> QED BY <1>4 DEF p, new

(* A table with a name, qualified or not. *)
Named(r) == (r.db = "" \/ r.db \in STRING) /\ r.table \in Seq(STRING) /\ r.table # NoTable

LEMMA RefNamed == ASSUME NEW r \in Refs, r.table # NoTable PROVE Named(r)
  BY DEF Refs, Named

(* A name the resolver gave is isolated. *)
LEMMA ResolvedIsolated ==
    ASSUME NEW a, WellFormedArguments(a), NEW r, Named(r),
           ApplyDynamic(r.db, r.table, a).Status \in {"Rewrite", "Remote"},
           NEW how, NEW by,
           NEW from, from.db = r.db
    PROVE  LET o == ApplyDynamic(r.db, r.table, a)
           IN  Isolated(OutRef(how, o.PhysicalDB, o.NewTable, from, by), a)
<1> DEFINE app == ApplyDynamic(r.db, r.table, a)
           o == OutRef(how, app.PhysicalDB, app.NewTable, from, by)
           l == LogicalOf(r.db, a)
           physical == ResolvePhysicalDatabase(l, a)
<1>1. app.PhysicalDB = physical.db /\ physical.ok /\ ~ProtectedDatabase(l, a)
      /\ app.NewTable = (<<l>> \o a.extra) \o r.table
  BY DEF Named, ApplyDynamic, Invalid, Outcome, buildDynamicTableName, BuildDynamicTablePrefix
<1>2. \/ l \in DOMAIN a.database_map /\ physical.db = a.database_map[l]
      \/ physical.db = l /\ l # ""
  BY <1>1 DEF ResolvePhysicalDatabase
<1>3. l \in STRING /\ a.extra \in Seq(STRING) /\ r.table \in Seq(STRING)
  BY DEF LogicalOf, WellFormedArguments, Named
<1> HIDE DEF l, physical, app
<1>4. /\ o.db = physical.db /\ o.table = (<<l>> \o a.extra) \o r.table
      /\ LogicalOf(o.from.db, a) = l
  BY <1>1 DEF OutRef, l
<1> HIDE DEF o
<1>5. Len(o.table) > Len(a.extra) /\ SubSeq(o.table, 1, Len(a.extra) + 1) = <<l>> \o a.extra
  <2> DEFINE X == STRING
             extra == a.extra
             table == r.table
  <2>1. l \in X /\ extra \in Seq(X) /\ table \in Seq(X)
    BY <1>3
  <2> HIDE DEF X, extra, table
  <2>2. LET new == (<<l>> \o extra) \o table
        IN  Len(new) > Len(extra) /\ SubSeq(new, 1, Len(extra) + 1) = <<l>> \o extra
    BY <2>1, PrefixShape
  <2> QED BY <1>4, <2>2 DEF extra, table
<1>6. Isolated(o, a)
  BY <1>1, <1>2, <1>4, <1>5 DEF Isolated
<1> QED BY <1>6 DEF o, app

(* A qualified name left as it was written names no protected database. *)
LEMMA WrittenIsolated ==
    ASSUME NEW a, NEW how, NEW db, db # "", ~ProtectedDatabase(db, a), NEW table, NEW from, NEW by
    PROVE  Isolated(OutRef(how, db, table, from, by), a)
  BY DEF Isolated, OutRef

LEMMA DynamicStatuses ==
    ASSUME NEW db, NEW table, NEW a
    PROVE  ApplyDynamic(db, table, a).Status \in {"Rewrite", "Remote", "Invalid"}
  BY DEF ApplyDynamic, Invalid, Outcome

(* The slots of a write. *)
LEMMA SlotsIsolated ==
    ASSUME NEW sel, sel.Mode = "dynamic", WellFormedArguments(sel.Dynamic), NEW kind,
           NEW slots, \A i \in DOMAIN slots : Named(slots[i]), SlotsClear(slots, kind, sel),
           NEW o \in SlotOutput(slots, sel)
    PROVE  Isolated(o, sel.Dynamic)
<1> DEFINE a == sel.Dynamic
<1>1. PICK i \in DOMAIN slots :
         o = LET x == Resolve(slots[i].db, slots[i].table, sel)
             IN  IF x.Status = "Rewrite"
                 THEN OutRef("table", x.PhysicalDB, x.NewTable, slots[i], "caller")
                 ELSE OutRef("table", slots[i].db, slots[i].table, slots[i], "caller")
  BY DEF SlotOutput
<1> DEFINE r == slots[i]
           x == ApplyDynamic(r.db, r.table, a)
<1>2. Resolve(r.db, r.table, sel) = x
  BY DEF Resolve
<1>3. x.Status = "Rewrite"
  BY <1>2, DynamicStatuses DEF SlotsClear, SlotRejects
<1>4. o = OutRef("table", x.PhysicalDB, x.NewTable, r, "caller")
  BY <1>1, <1>2, <1>3
<1>5. Named(r)
  OBVIOUS
<1> HIDE DEF r, a
<1> QED BY <1>3, <1>4, <1>5, ResolvedIsolated DEF a

(* The tables of a SELECT or of a body: names of the statement or of the   *)
(* injected expression.                                                    *)
TablesNamed(st, opts) ==
    \A i \in DOMAIN SelectTables(st, opts) :
        LET t == SelectTables(st, opts)[i]
        IN  \/ t.by = "option"
            \/ t.by = "caller" /\ Ref(t.db, t.table) \in Range(st.reads)

ReadTabled(r, st, opts) ==
    \/ r \in ReadRefs(SelectTables(st, opts))
    \/ \E x \in CTEOptions(opts) : r = Ref("", <<x.alias>>)

LEMMA TablesOf ==
    ASSUME NEW st, NEW opts, WellFormed(st), WellFormedOptions(opts)
    PROVE  TablesNamed(st, opts) /\ \A r \in Range(st.reads) : ReadTabled(r, st, opts)
<1> DEFINE by(s, who) == [i \in DOMAIN s |-> [db |-> s[i].db, table |-> s[i].table, by |-> who]]
           injected == {c \in CTEOptions(opts) : InjectedCTE(c, st)}
           c == CHOOSE x \in injected : TRUE
           rest == Kept(st.reads, {i \in DOMAIN st.reads : st.reads[i] # Ref("", <<c.alias>>)})
           T == [db : STRING, table : Seq(STRING), by : {"caller", "option"}]
<1>0. ASSUME NEW s \in Seq(Refs), NEW who \in {"caller", "option"}
      PROVE  /\ by(s, who) \in Seq(T)
             /\ \A t \in Range(by(s, who)) : t.by = who /\ Ref(t.db, t.table) \in Range(s)
             /\ \A r \in Range(s) : \E t \in Range(by(s, who)) : r = Ref(t.db, t.table)
  <2>1. Len(s) \in Nat /\ DOMAIN s = 1..Len(s) /\ \A i \in DOMAIN s : s[i] \in Refs
    OBVIOUS
  <2>2. by(s, who) \in [1..Len(s) -> T]
    BY <2>1 DEF Refs
  <2>3. \A i \in DOMAIN s : Ref(s[i].db, s[i].table) = s[i]
    BY <2>1 DEF Refs, Ref
  <2>4. \A i \in DOMAIN s : i \in DOMAIN by(s, who) /\ s[i] = Ref(by(s, who)[i].db, by(s, who)[i].table)
    BY <2>3 DEF Ref
  <2>5. by(s, who) \in Seq(T) /\ \A t \in Range(by(s, who)) : t.by = who /\ Ref(t.db, t.table) \in Range(s)
    BY <2>1, <2>2, <2>3, SeqDef DEF Range
  <2> HIDE DEF by
  <2>6. \A r \in Range(s) : \E t \in Range(by(s, who)) : r = Ref(t.db, t.table)
    BY <2>4 DEF Range
  <2> QED BY <2>5, <2>6
<1>1. st.reads \in Seq(Refs)
  BY DEF WellFormed
<1>2. CASE injected = {}
  <2>1. SelectTables(st, opts) = by(st.reads, "caller")
    BY <1>2 DEF SelectTables
  <2> HIDE DEF by
  <2>2. /\ \A t \in Range(by(st.reads, "caller")) : t.by = "caller" /\ Ref(t.db, t.table) \in Range(st.reads)
        /\ \A r \in Range(st.reads) : \E t \in Range(by(st.reads, "caller")) : r = Ref(t.db, t.table)
    BY <1>0, <1>1
  <2>3. \A r \in Range(st.reads) : r \in ReadRefs(SelectTables(st, opts))
    BY <2>1, <2>2 DEF Range, ReadRefs
  <2> QED BY <2>1, <2>2, <2>3 DEF Range, TablesNamed, ReadTabled
<1>3. CASE injected # {}
  <2>1. SelectTables(st, opts) = by(c.reads, "option") \o by(rest, "caller")
    BY <1>3 DEF SelectTables
  <2>2. c \in injected
    BY <1>3
  <2>3. c.reads \in Seq(Refs)
    BY <2>2 DEF WellFormedOptions, CTEOptions
  <2> HIDE DEF c
  <2>4. /\ rest \in Seq(Refs) /\ Range(rest) \subseteq Range(st.reads)
        /\ \A r \in Range(st.reads) : r \in Range(rest) \/ r = Ref("", <<c.alias>>)
    <3>1. {i \in DOMAIN st.reads : st.reads[i] # Ref("", <<c.alias>>)} \subseteq DOMAIN st.reads
      OBVIOUS
    <3>2. /\ rest \in Seq(Refs)
          /\ Range(rest) = {st.reads[i] : i \in {j \in DOMAIN st.reads : st.reads[j] # Ref("", <<c.alias>>)}}
      BY <1>1, <3>1, KeptIn
    <3> QED BY <3>2 DEF Range
  <2> HIDE DEF rest, by, T
  <2>5. /\ by(c.reads, "option") \in Seq(T) /\ by(rest, "caller") \in Seq(T)
        /\ \A t \in Range(by(c.reads, "option")) : t.by = "option"
        /\ \A t \in Range(by(rest, "caller")) : t.by = "caller" /\ Ref(t.db, t.table) \in Range(rest)
        /\ \A r \in Range(rest) : \E t \in Range(by(rest, "caller")) : r = Ref(t.db, t.table)
    BY <1>0, <2>3, <2>4
  <2>6. Range(SelectTables(st, opts)) = Range(by(c.reads, "option")) \cup Range(by(rest, "caller"))
    BY <2>1, <2>5, ConcatIn
  <2>7. \A t \in Range(SelectTables(st, opts)) :
           \/ t.by = "option"
           \/ t.by = "caller" /\ Ref(t.db, t.table) \in Range(st.reads)
    BY <2>4, <2>5, <2>6
  <2>8. \A r \in Range(rest) : \E t \in Range(SelectTables(st, opts)) : r = Ref(t.db, t.table)
    BY <2>5, <2>6
  <2>9. \A r \in Range(rest) : r \in ReadRefs(SelectTables(st, opts))
    BY <2>8 DEF Range, ReadRefs
  <2>10. c \in CTEOptions(opts)
    BY <2>2
  <2> QED BY <2>4, <2>7, <2>9, <2>10 DEF Range, TablesNamed, ReadTabled
<1> QED BY <1>2, <1>3

LEMMA LookupsOf ==
    ASSUME NEW st, WellFormed(st)
    PROVE  \A i \in DOMAIN BodyLookups(st) :
              LET c == BodyLookups(st)[i]
              IN  /\ Ref(c.db, c.table) \in Range(ArgumentRefs(st.lookups))
                  /\ c.db \in STRING /\ c.table \in Seq(STRING)
<1> DEFINE I == {i \in DOMAIN st.lookups : st.lookups[i].hasColumn}
           n == Len(ArgumentRefs(st.lookups))
<1>1. /\ n \in Nat /\ DOMAIN st.lookups = 1..n
      /\ \A i \in DOMAIN st.lookups : /\ Ref(st.lookups[i].db, st.lookups[i].table) \in Range(ArgumentRefs(st.lookups))
                                      /\ st.lookups[i].db \in STRING /\ st.lookups[i].table \in Seq(STRING)
  BY ArgumentsOf DEF WellFormed
<1>2. I \subseteq 1..n /\ I \subseteq DOMAIN st.lookups
  BY <1>1
<1> HIDE DEF n
<1>3. \A k \in DOMAIN Kept(st.lookups, I) : \E i \in I : Kept(st.lookups, I)[k] = st.lookups[i]
  <2> DEFINE s == st.lookups
  <2>1. n \in Nat /\ DOMAIN s = 1..n
    BY <1>1
  <2>2. I \subseteq 1..n
    BY <1>2
  <2> HIDE DEF s, I
  <2>3. \A k \in DOMAIN Kept(s, I) : \E i \in I : Kept(s, I)[k] = s[i]
    <3>1. KeepsOnly(s, I)
      BY <2>1, <2>2, KeptElements
    <3> QED BY <3>1 DEF KeepsOnly
  <2> QED BY <2>3 DEF s, I
<1> HIDE DEF I
<1>4. BodyLookups(st) = Kept(st.lookups, I)
  BY DEF BodyLookups, I
<1> QED BY <1>1, <1>2, <1>3, <1>4

(* The names of a successful SELECT or body. *)
LEMMA SelectIsolated ==
    ASSUME NEW st, NEW t, NEW opts, WellFormed(st), WellFormedOptions(opts),
           FindActive(opts).Mode = "dynamic", st.kind # "command",
           ~PreflightTableReferences(st, t, FindActive(opts)).handled,
           SelectClear(st, FindActive(opts), SelectTables(st, opts)),
           NEW o \in SelectOutput(st, FindActive(opts), SelectTables(st, opts))
    PROVE  Isolated(o, FindActive(opts).Dynamic)
<1> DEFINE sel == FindActive(opts)
           a == sel.Dynamic
           ts == SelectTables(st, opts)
<1>1. WellFormedArguments(a)
  BY ActiveIsFound, FoundIsGiven
<1>2. ~UnmodelledCommand(st, sel) /\ a.ctx \in STRING
  BY <1>1 DEF UnmodelledCommand, WellFormedArguments
<1>3. \A r \in Range(st.reads) : r.db \in Range(NamedDatabases(st)) /\ r \in Refs /\ r.table # NoTable
  <2>1. \A r \in Range(st.reads) : r.db \in Range(NamedDatabases(st))
    BY NamedRange DEF NamedRefs
  <2>2. st.reads \in Seq(Refs)
    BY DEF WellFormed
  <2>3. \A i \in DOMAIN st.reads : st.reads[i].table # NoTable
    BY DEF WellFormed
  <2>4. \A i \in DOMAIN st.reads : st.reads[i] \in Refs
    BY <2>2
  <2> QED BY <2>1, <2>3, <2>4 DEF Range
<1>4. PICK x \in Decided(st, sel, ts) : o \in decideTable(x, sel)
  BY DEF SelectOutput
<1>5. o.by = x.by
  BY <1>4 DEF decideTable, storageIntegritySurface, OutRef
<1> HIDE DEF sel, ts, a
<1>6. CASE x.by = "caller" /\ Ref(x.db, x.table) \in Range(st.reads)
           /\ ~RefusedSIRead(x, sel) /\ ~UnresolvedUnqualified(x, sel)
  <2> DEFINE r == Ref(x.db, x.table)
             app == ApplyDynamic(x.db, x.table, a)
  <2>1. r \in Refs /\ x.table # NoTable /\ x.db \in Range(NamedDatabases(st)) /\ r.db = x.db /\ r.table = x.table
    BY <1>3, <1>6 DEF Ref
  <2>2. Resolve(x.db, x.table, sel) = app /\ sel.Mode = "dynamic" /\ sel.Dynamic = a
    BY DEF Resolve, sel, a
  <2>3. CASE IsStorageIntegrity(x.db, x.table, a)
    <3>1. AuthorizeStorageIntegrityLogical(x.db, a)
      BY <1>6, <2>2, <2>3 DEF RefusedSIRead
    <3>2. o.how = "surface" /\ o.from = r
      BY <1>4, <2>2, <2>3 DEF decideTable, storageIntegritySurface, OutRef
    <3> QED BY <2>1, <3>1, <3>2 DEF Isolated, AuthorizeStorageIntegrityLogical, a, sel
  <2>4. CASE ~IsStorageIntegrity(x.db, x.table, a) /\ app.Status \in {"Rewrite", "Remote"}
    <3>1. PICK how : o = OutRef(how, app.PhysicalDB, app.NewTable, r, x.by)
      BY <1>4, <2>2, <2>4 DEF decideTable
    <3> HIDE DEF r
    <3> QED BY <1>1, <2>1, <2>4, <3>1, RefNamed, ResolvedIsolated DEF a, sel
  <2>5. CASE ~IsStorageIntegrity(x.db, x.table, a) /\ app.Status = "Invalid"
    <3>1. o = OutRef("table", x.db, x.table, r, x.by)
      BY <1>4, <2>2, <2>5 DEF decideTable
    <3>2. x.db # ""
      BY <1>6, <2>2, <2>5 DEF UnresolvedUnqualified
    <3>3. ~IsStorageIntegrityPhysicalDatabase(x.db, a)
      BY <1>6, <2>1, <2>2, <3>2 DEF RefusedSIRead, LookupStorageIntegrityPhysical, LogicalOf
    <3>4. ~ProtectedDatabase(x.db, a)
      BY <1>2, <2>1, <2>2, <3>3, NamedUnprotected DEF sel
    <3> QED BY <3>1, <3>2, <3>4, WrittenIsolated DEF a, sel
  <2> QED BY <2>3, <2>4, <2>5, DynamicStatuses
<1>7. CASE x.by = "option"
  BY <1>5, <1>7 DEF Isolated
<1>8. CASE x \in {[db |-> Looked(st, sel)[i].db, table |-> Looked(st, sel)[i].table, by |-> "caller"] :
                     i \in DOMAIN Looked(st, sel)}
  <2>1. sel.Mode = "dynamic" /\ sel.Dynamic = a
    BY DEF sel, a
  <2>2. PICK i \in DOMAIN BodyLookups(st) :
           LET c == BodyLookups(st)[i]
           IN  x = [db |-> c.db, table |-> c.table, by |-> "caller"]
    BY <1>8, <2>1 DEF Looked, ArgumentRefs, Ref
  <2> DEFINE c == BodyLookups(st)[i]
             r == Ref(c.db, c.table)
             app == ApplyDynamic(c.db, c.table, a)
  <2>3. decideStringLookup(c, sel)
    BY <2>1 DEF SelectClear, sel, ts
  <2>4. c.db \in STRING /\ c.table \in Seq(STRING)
    BY LookupsOf
  <2> HIDE DEF c
  <2>5. r \in Refs /\ r.db = c.db /\ r.table = c.table /\ x.db = c.db /\ x.table = c.table /\ x.by = "caller"
    BY <2>2, <2>4 DEF Ref, Refs, c
  <2>6. Resolve(c.db, c.table, sel) = app
    BY <2>1 DEF Resolve
  <2>7. c.table # NoTable /\ ~IsStorageIntegrity(c.db, c.table, a) /\ app.Status = "Rewrite"
    <3>1. Len(c.table) = 1 /\ ~IsStorageIntegrity(c.db, c.table, a) /\ app.Status = "Rewrite"
      BY <2>1, <2>3, <2>6 DEF decideStringLookup
    <3> QED BY <3>1 DEF NoTable
  <2>8. o = OutRef("table", app.PhysicalDB, app.NewTable, r, "caller")
    <3>1. Ref(x.db, x.table) = r
      BY <2>5
    <3> QED BY <1>4, <2>1, <2>5, <2>6, <2>7, <3>1 DEF decideTable
  <2> HIDE DEF r
  <2> QED BY <1>1, <2>5, <2>7, <2>8, RefNamed, ResolvedIsolated DEF a, sel
<1>9. \/ \E i \in DOMAIN ts : x = ts[i]
      \/ x \in {[db |-> Looked(st, sel)[i].db, table |-> Looked(st, sel)[i].table, by |-> "caller"] :
                     i \in DOMAIN Looked(st, sel)}
  BY <1>4 DEF Decided
<1>10. ASSUME NEW i \in DOMAIN ts, x = ts[i] PROVE Isolated(o, a)
  <2>1. ~RefusedSIRead(x, sel) /\ ~UnresolvedUnqualified(x, sel)
    BY <1>10 DEF SelectClear, sel, ts
  <2>2. \/ x.by = "option"
        \/ x.by = "caller" /\ Ref(x.db, x.table) \in Range(st.reads)
    BY <1>10, TablesOf DEF ts, TablesNamed
  <2> QED BY <1>6, <1>7, <2>1, <2>2 DEF a, sel
<1> QED BY <1>8, <1>9, <1>10 DEF a, sel

---------------------------------------------------------------------------
(* Isolation of the commands. *)

LEMMA CommandNamed ==
    ASSUME NEW st, WellFormed(st), st.kind = "command"
    PROVE  /\ st.sub = "show" => /\ st.cmd.db \in Range(NamedDatabases(st))
                                 /\ \A i \in DOMAIN st.cmd.body : st.cmd.body[i].db \in Range(NamedDatabases(st))
           /\ st.sub = "use" => st.cmd.db \in Range(NamedDatabases(st))
           /\ st.sub = "object" /\ st.cmd.objType # "DATABASE" => st.cmd.db \in Range(NamedDatabases(st))
<1> DEFINE c == st.cmd
<1>0. WellFormedCommand(st)
  BY DEF WellFormed
<1>1. Range(CommandDatabases(st)) \subseteq Range(NamedDatabases(st))
  BY NamedRange
<1>2. Range(<<c.db>>) = {c.db}
  BY DEF Range
<1>3. ASSUME st.sub = "show"
      PROVE  Range(CommandDatabases(st)) = {c.db} \cup {r.db : r \in Range(c.body)}
  <2>1. c.db \in STRING /\ c.body \in Seq(Refs)
    BY <1>0, <1>3 DEF WellFormedCommand
  <2> DEFINE one == <<c.db>>
             dbs == [i \in DOMAIN c.body |-> c.body[i].db]
  <2>2. one \in Seq(STRING)
    BY <2>1
  <2>3. dbs \in Seq(STRING) /\ Range(dbs) = {r.db : r \in Range(c.body)}
    BY <2>1, DatabasesOf
  <2>4. CommandDatabases(st) = one \o dbs
    BY <1>3 DEF CommandDatabases
  <2> HIDE DEF one, dbs
  <2>5. Range(one \o dbs) = Range(one) \cup Range(dbs)
    BY <2>2, <2>3, ConcatIn
  <2> QED BY <1>2, <2>3, <2>4, <2>5 DEF one
<1>4. ASSUME st.sub = "use" \/ (st.sub = "object" /\ c.objType # "DATABASE")
      PROVE  CommandDatabases(st) = <<c.db>>
  BY <1>4 DEF CommandDatabases
<1>5. ASSUME st.sub = "show", NEW i \in DOMAIN c.body PROVE c.body[i].db \in Range(CommandDatabases(st))
  BY <1>3, <1>5 DEF Range
<1> QED BY <1>1, <1>2, <1>3, <1>4, <1>5

(* The names a SHOW, DESCRIBE or EXISTS sends on. *)
LEMMA ShowIsolated ==
    ASSUME NEW st, NEW t, NEW sel, WellFormed(st), st.kind = "command", st.sub = "show",
           st.cmd.what \notin {"TABLES", "DATABASES"}, sel.Mode = "dynamic",
           WellFormedArguments(sel.Dynamic), ~UnmodelledCommand(st, sel),
           ~PreflightTableReferences(st, t, sel).handled,
           NEW q, ShowJudged(st.cmd, sel.Dynamic, q), NEW o \in q.After.out
    PROVE  Isolated(o, sel.Dynamic)
<1> DEFINE c == st.cmd
           a == sel.Dynamic
           new == Selection("dynamic", NoStatic, a)
           slot == <<Ref("", c.table)>>
<1>0. /\ c.db \in STRING /\ c.table \in Seq(STRING)
      /\ \A i \in DOMAIN c.body : c.body[i].db # ""
      /\ c.hasTable => c.what \in ShowTargetBearing
      /\ c.hasTable /\ c.tableResolved => c.table # NoTable
      /\ c.hasTable /\ c.hasDB /\ c.db = "" => "identParam" \in st.marks
  <2>1. WellFormedCommand(st)
    BY DEF WellFormed
  <2> QED BY <2>1 DEF WellFormedCommand, ShowTargetBearing
<1>1. "identParam" \notin st.marks /\ a.ctx \in STRING
  BY PreflightPassed DEF WellFormedArguments
<1>2. ASSUME NEW db \in Range(NamedDatabases(st)), ~IsStorageIntegrityPhysicalDatabase(db, a)
      PROVE  ~ProtectedDatabase(db, a)
  BY <1>1, <1>2, NamedUnprotected
<1>3. ASSUME NEW i \in DOMAIN c.body PROVE c.body[i].db # "" /\ ~ProtectedDatabase(c.body[i].db, a)
  <2>1. ~IsStorageIntegrityPhysicalDatabase(c.body[i].db, a)
    BY InactiveNoSI DEF ShowJudged
  <2> QED BY <1>0, <1>2, <2>1, CommandNamed
<1>4. ASSUME c.hasTable, c.hasDB PROVE c.db # "" /\ ~ProtectedDatabase(c.db, a)
  <2>1. ~IsStorageIntegrityPhysicalDatabase(c.db, a)
    BY <1>0, <1>4, InactiveNoSI DEF ShowJudged, Listed
  <2> QED BY <1>0, <1>1, <1>2, <1>4, <2>1, CommandNamed
<1>5. ASSUME NEW names, o \in AsWritten(names), \A r \in names : r.db # "" /\ ~ProtectedDatabase(r.db, a)
      PROVE  Isolated(o, a)
  <2>1. PICK r \in names : o = OutRef("table", r.db, r.table, r, "caller")
    BY <1>5 DEF AsWritten
  <2> QED BY <1>5, <2>1, WrittenIsolated
<1>6. CASE o \in AsWritten({c.body[i] : i \in DOMAIN c.body})
  <2> DEFINE names == {c.body[i] : i \in DOMAIN c.body}
  <2>1. \A r \in names : r.db # "" /\ ~ProtectedDatabase(r.db, a)
    BY <1>3
  <2> HIDE DEF names
  <2> QED BY <1>5, <1>6, <2>1 DEF names
<1>7. CASE o \in SlotOutput(slot, new) /\ SlotsClear(slot, "show", new) /\ c.hasTable /\ c.tableResolved
  <2>1. new.Mode = "dynamic" /\ new.Dynamic = a
    BY DEF Selection
  <2> DEFINE r == Ref("", c.table)
  <2>2. Named(r)
    <3>1. c.table \in Seq(STRING) /\ c.table # NoTable
      BY <1>0, <1>7
    <3> QED BY <3>1 DEF Ref, Named
  <2>3. \A i \in DOMAIN slot : slot[i] = r
    <3>1. slot = <<r>>
      OBVIOUS
    <3> HIDE DEF slot, r
    <3> QED BY <3>1
  <2> HIDE DEF new, slot, r, a, c
  <2>4. Isolated(o, new.Dynamic)
    BY <1>7, <2>1, <2>2, <2>3, SlotsIsolated DEF a
  <2> QED BY <2>1, <2>4 DEF a
<1>8. CASE o \in AsWritten(ShownNames(c)) /\ (c.hasTable /\ c.tableResolved => c.hasDB)
  <2>1. \A r \in ShownNames(c) : r.db # "" /\ ~ProtectedDatabase(r.db, a)
    <3>1. Ref(c.db, c.table).db = c.db
      BY DEF Ref
    <3> QED BY <1>3, <1>4, <1>8, <3>1 DEF ShownNames
  <2> QED BY <1>5, <1>8, <2>1
<1> QED BY <1>0, <1>6, <1>7, <1>8 DEF ShowJudged

LEMMA ObjectIsolated ==
    ASSUME NEW st, NEW t, NEW sel, WellFormed(st), st.kind = "command", st.sub = "object",
           sel.Mode = "dynamic", WellFormedArguments(sel.Dynamic), ~UnmodelledCommand(st, sel),
           ~PreflightTableReferences(st, t, sel).handled,
           NEW q, ObjectShown(st.cmd, sel, q), NEW o \in q.After.out
    PROVE  Isolated(o, sel.Dynamic)
<1> DEFINE c == st.cmd
           a == sel.Dynamic
           slot == <<Ref(c.db, c.table)>>
           r == Ref(c.db, c.table)
<1>0. c.db \in STRING /\ c.table \in Seq(STRING) /\ (c.shape = "name" => c.table # NoTable) /\ a.ctx \in STRING
  <2>1. WellFormedCommand(st)
    BY DEF WellFormed
  <2> QED BY <2>1 DEF WellFormedCommand, WellFormedArguments
<1>1. r \in Refs /\ r.db = c.db /\ r.table = c.table
  BY <1>0 DEF Ref, Refs
<1>2. c.objType = "TABLE"
  BY DEF ObjectShown
<1>3. CASE IsStorageIntegrity(c.db, c.table, a)
  <2>1. AuthorizeStorageIntegrityLogical(c.db, a) /\ o \in SafeOutput(c, a)
    BY <1>3 DEF ObjectShown
  <2>2. o.how = "surface" /\ o.from.db = c.db
    BY <1>1, <2>1 DEF SafeOutput, OutRef
  <2> QED BY <2>1, <2>2 DEF Isolated, AuthorizeStorageIntegrityLogical
<1>4. CASE /\ c.table # NoTable /\ SlotsClear(slot, c.verb, sel) /\ o \in SlotOutput(slot, sel)
  <2>1. \A i \in DOMAIN slot : slot[i] = r
    OBVIOUS
  <2> HIDE DEF slot, r, a, c
  <2>2. Isolated(o, sel.Dynamic)
    BY <1>1, <1>4, <2>1, RefNamed, SlotsIsolated DEF a
  <2> QED BY <2>2
<1>5. CASE /\ ~IsStorageIntegrity(c.db, c.table, a) /\ c.db # ""
           /\ o \in AsWritten({r})
  <2>1. ~IsStorageIntegrityPhysicalDatabase(c.db, a)
    BY <1>5 DEF ObjectShown, LogicalOf
  <2>2. c.db \in Range(NamedDatabases(st))
    BY <1>2, CommandNamed
  <2>3. ~ProtectedDatabase(c.db, a)
    BY <1>0, <2>1, <2>2, NamedUnprotected
  <2>4. o = OutRef("table", r.db, r.table, r, "caller")
    BY <1>5 DEF AsWritten
  <2> HIDE DEF r
  <2> QED BY <1>1, <1>5, <2>3, <2>4, WrittenIsolated
<1>6. CASE o \in AsWritten({})
  BY <1>6 DEF AsWritten
<1> QED BY <1>0, <1>3, <1>4, <1>5, <1>6 DEF ObjectShown

---------------------------------------------------------------------------
(* What a dynamic Success has passed. *)
LEMMA DynamicSuccess ==
    ASSUME IInv, Behind, Succeeded, Dynamic
    PROVE  /\ ParsedStatement = req.st /\ WellFormed(req.st) /\ WellFormedOptions(req.opts) /\ Origin
           /\ ~PreflightTableReferences(req.st, text, Sel).handled /\ ~UnmodelledCommand(req.st, Sel)
           /\ FindDynamicArgs(req.opts).found /\ FindDynamicArgs(req.opts).args = Sel.Dynamic
           /\ WellFormedArguments(Sel.Dynamic)
<1>1. /\ ParsedStatement = req.st /\ WellFormed(req.st) /\ WellFormedOptions(req.opts) /\ Origin
      /\ ~PreflightAnswer.handled /\ Valid
  BY SuccessState
<1>2. ~UnmodelledCommand(req.st, Sel)
  BY <1>1, SuccessModelled
<1>3. FindDynamicArgs(req.opts).found /\ FindDynamicArgs(req.opts).args = Sel.Dynamic
  BY <1>1, ActiveIsFound DEF Dynamic, Sel
<1>4. WellFormedArguments(Sel.Dynamic)
  BY <1>1, <1>3, FoundIsGiven
<1> QED BY <1>1, <1>2, <1>3, <1>4 DEF PreflightAnswer

LEMMA WriteIsolated ==
    ASSUME IInv, Behind, Succeeded, Dynamic, Write.handled, Write.resp.Code = "Success",
           NEW o \in Write.resp.After.out
    PROVE  Isolated(o, Sel.Dynamic)
<1> DEFINE st == req.st
           body == rewriteSelectCore(st, req.opts)
<1>1. /\ ParsedStatement = st /\ WellFormed(st) /\ WellFormedOptions(req.opts)
      /\ ~PreflightTableReferences(st, text, Sel).handled /\ WellFormedArguments(Sel.Dynamic)
  BY DynamicSuccess
<1>2. WriteForm(st) /\ Written(st, Sel, body, Write.resp)
  BY <1>1, WriteOrigin
<1>3. Sel.Mode = "dynamic" /\ Sel = FindActive(req.opts)
  BY DEF Dynamic, Sel
<1>4. \/ o \in SlotOutput(st.slots, Sel)
      \/ HasBody(st) /\ o \in body.After.out
  BY <1>2 DEF Written, Generated
<1>5. CASE o \in SlotOutput(st.slots, Sel)
  <2>1. st.slots \in Seq(Refs)
    BY <1>1 DEF WellFormed
  <2>2. st.kind \notin {"create_database", "drop_database"}
    BY <1>2 DEF WriteForm, WriteKinds
  <2>3. \A i \in DOMAIN st.slots : st.slots[i].table # NoTable
    BY <1>1, <2>2 DEF WellFormed
  <2>4. \A i \in DOMAIN st.slots : Named(st.slots[i])
    BY <2>1, <2>3, RefNamed
  <2>5. SlotsClear(st.slots, st.kind, Sel)
    BY <1>2 DEF Written
  <2> QED BY <1>1, <1>3, <1>5, <2>4, <2>5, SlotsIsolated
<1>6. CASE HasBody(st) /\ o \in body.After.out
  <2>1. body.Code = "Success"
    BY <1>2, <1>6 DEF Written
  <2>2. SelectClear(st, Sel, SelectTables(st, req.opts)) /\ o \in SelectOutput(st, Sel, SelectTables(st, req.opts))
    <3>1. body.After = Generated(SelectOutput(st, Sel, SelectTables(st, req.opts)))
          /\ SelectClear(st, Sel, SelectTables(st, req.opts))
      BY <1>3, <2>1, SelectPassed
    <3> HIDE DEF body
    <3> QED BY <1>6, <3>1 DEF Generated
  <2>3. st.kind # "command"
    BY <1>6 DEF HasBody
  <2> HIDE DEF st
  <2> QED BY <1>1, <1>3, <2>2, <2>3, SelectIsolated
<1> QED BY <1>4, <1>5, <1>6

LEMMA ReadIsolated ==
    ASSUME IInv, Behind, Succeeded, Dynamic, IsReadRoot(req.st), NEW o \in resp.After.out
    PROVE  Isolated(o, Sel.Dynamic)
<1> DEFINE st == req.st
           body == rewriteSelectCore(st, req.opts)
<1>1. /\ ParsedStatement = st /\ WellFormed(st) /\ WellFormedOptions(req.opts) /\ Origin
      /\ ~PreflightTableReferences(st, text, Sel).handled
  BY DynamicSuccess
<1>3. Sel.Mode = "dynamic" /\ Sel = FindActive(req.opts)
  BY DEF Dynamic, Sel
<1>4. body.Code = "Success" /\ Tells(body)
  BY <1>1, ReadOrigin
<1>5. SelectClear(st, Sel, SelectTables(st, req.opts)) /\ o \in SelectOutput(st, Sel, SelectTables(st, req.opts))
  <2>1. body.After = Generated(SelectOutput(st, Sel, SelectTables(st, req.opts)))
        /\ SelectClear(st, Sel, SelectTables(st, req.opts))
    BY <1>3, <1>4, SelectPassed
  <2> HIDE DEF body
  <2> QED BY <1>4, <2>1 DEF Generated, Tells
<1>6. st.kind # "command"
  BY DEF IsReadRoot
<1> HIDE DEF st
<1> QED BY <1>1, <1>3, <1>5, <1>6, SelectIsolated

LEMMA DatabaseLevelIsolated ==
    ASSUME IInv, Behind, Succeeded, Dynamic, DBLevel.handled, DBLevel.resp.Code = "Success",
           NEW o \in DBLevel.resp.After.out
    PROVE  Isolated(o, Sel.Dynamic)
<1> DEFINE st == req.st
           c == st.cmd
           a == Sel.Dynamic
           dyn == FindDynamicArgs(req.opts)
           q == DBLevel.resp
<1>1. /\ ParsedStatement = st /\ WellFormed(st) /\ ~UnmodelledCommand(st, Sel)
      /\ ~PreflightTableReferences(st, text, Sel).handled /\ WellFormedArguments(a)
      /\ dyn.found /\ dyn.args = a
  BY DynamicSuccess
<1>2. Sel.Mode = "dynamic" /\ a.extra \in Seq(STRING)
  BY <1>1 DEF Dynamic, WellFormedArguments
<1>3. \/ /\ st.kind \in {"create_database", "drop_database"}
         /\ q \in {dispatchCreateDatabase(st, dyn), dispatchDropDatabase(st, dyn)}
      \/ st.kind = "command" /\ st.sub = "use" /\ q = dispatchUse(c, dyn)
      \/ st.kind = "command" /\ st.sub = "show" /\ c.what = "DATABASES" /\ q = dispatchShowDatabases(c, dyn)
      \/ /\ st.kind = "command" /\ st.sub = "show" /\ c.what # "DATABASES"
         /\ DBLevel = dispatchShowTables(text, c, dyn)
  BY <1>1 DEF DBLevel, RewriteDBLevel, Handled, NotHandled
<1> HIDE DEF st, c, dyn, q, a
<1>a. q.Code = "Success" /\ o \in q.After.out
  BY DEF q
<1>4. CASE st.kind \in {"create_database", "drop_database"}
           /\ q \in {dispatchCreateDatabase(st, dyn), dispatchDropDatabase(st, dyn)}
  <2>1. dyn.found /\ q.After.out = {}
    BY <1>a, <1>4, DatabasePassed
  <2> QED BY <1>a, <2>1
<1>5. CASE q = dispatchShowDatabases(c, dyn)
  BY <1>a, <1>5, ShowDatabasesPassed
<1>6. CASE q = dispatchUse(c, dyn)
  <2>1. /\ ResolvePhysicalDatabase(c.db, a).ok
        /\ q.After = Generated(UseOutput(ResolvePhysicalDatabase(c.db, a).db, c.db))
    BY <1>1, <1>a, <1>6, UsePassed
  <2>2. o = OutRef("use", ResolvePhysicalDatabase(c.db, a).db, NoTable, Ref(c.db, NoTable), "caller")
    BY <1>a, <2>1 DEF Generated, UseOutput
  <2> QED BY <1>2, <2>1, <2>2, ReachedIsolated DEF a
<1>7. CASE DBLevel = dispatchShowTables(text, c, dyn) /\ c.what = "TABLES"
  <2> DEFINE r == newWriteResp("show_tables")
  <2>1. q = dispatchEnumeration(r, text, c, a)
    BY <1>1, <1>a, <1>7, ShowTablesPassed DEF q
  <2>2. Blank(r)
    BY NewRespBlank
  <2> HIDE DEF r
  <2>3. ResolvePhysicalDatabase(Listed(c, a), a).ok /\ q.After = Generated(ListOutput(c, a))
    BY <1>a, <2>1, <2>2, EnumerationPassed
  <2>4. o = OutRef("list", ResolvePhysicalDatabase(Listed(c, a), a).db,
                   BuildDynamicTablePrefix(Listed(c, a), a), Ref(Listed(c, a), NoTable), "caller")
    BY <1>a, <2>3 DEF Generated, ListOutput
  <2> QED BY <1>2, <2>3, <2>4, ReachedIsolated DEF a
<1>8. CASE /\ DBLevel = dispatchShowTables(text, c, dyn) /\ c.what \notin {"TABLES", "DATABASES"}
           /\ st.kind = "command" /\ st.sub = "show"
  <2>1. ShowJudged(c, dyn.args, q)
    BY <1>1, <1>8, ShowKindsJudged DEF q
  <2> QED BY <1>1, <1>2, <1>a, <1>8, <2>1, ShowIsolated DEF a, c
<1> QED BY <1>3, <1>4, <1>5, <1>6, <1>7, <1>8

(* Isolation, the purpose of dynamic mode: in the SQL of a dynamic Success *)
(* a name the caller wrote reaches a protected physical database only as a *)
(* table under the prefix of a logical database mapped for the account, or *)
(* as the read surface of an SI table of such a database (preflight.go,    *)
(* select.go, writes.go, dblevel.go, describe.go and exists.go together).  *)
THEOREM SuccessesIsolated == Spec => []Isolation
<1>1. ASSUME IInv, Behind, Succeeded, Dynamic, NEW o \in resp.After.out
      PROVE  Isolated(o, Sel.Dynamic)
  <2> DEFINE st == req.st
  <2>1. /\ ParsedStatement = st /\ WellFormed(st) /\ Origin /\ ~UnmodelledCommand(st, Sel)
        /\ ~PreflightTableReferences(st, text, Sel).handled /\ WellFormedArguments(Sel.Dynamic)
    BY <1>1, DynamicSuccess
  <2>2. Sel.Mode = "dynamic"
    BY <1>1 DEF Dynamic
  <2>3. CASE Write.handled /\ Write.resp.Code = "Success" /\ Tells(Write.resp)
    BY <1>1, <2>3, WriteIsolated DEF Tells
  <2>4. CASE DBLevel.handled /\ DBLevel.resp.Code = "Success" /\ Tells(DBLevel.resp)
    BY <1>1, <2>4, DatabaseLevelIsolated DEF Tells
  <2>5. CASE Describe.handled /\ Describe.resp.Code = "Success" /\ Tells(Describe.resp)
    <3>1. o \in Describe.resp.After.out
      BY <1>1, <2>5 DEF Tells
    <3> QED BY <2>1, <2>2, <2>5, <3>1, DescribeOrigin, ObjectIsolated
  <2>6. CASE Exists.handled /\ Exists.resp.Code = "Success" /\ Tells(Exists.resp)
    <3>1. o \in Exists.resp.After.out
      BY <1>1, <2>6 DEF Tells
    <3> QED BY <2>1, <2>2, <2>6, <3>1, ExistsOrigin, ObjectIsolated
  <2>7. CASE Grant.handled /\ Grant.resp.Code = "Success" /\ Tells(Grant.resp)
    BY <1>1, <2>7, GrantOrigin DEF GrantTold, Tells
  <2>8. CASE ReadAnswer.handled
    <3>1. IsReadRoot(st)
      BY <2>1, <2>8 DEF ReadAnswer, NotHandled
    <3> QED BY <1>1, <3>1, ReadIsolated
  <2>9. CASE PassedOn
    <3>1. st.sub = "set"
      BY <1>1, <2>1, <2>9 DEF PassedOn, sessionSet
    <3>2. st.kind = "command"
      BY <2>1, <3>1 DEF WellFormed
    <3>3. st.reads = <<>>
      BY <2>1, <3>2 DEF WellFormed
    <3> QED BY <1>1, <2>1, <2>9, <3>3 DEF PassedOn
  <2> QED BY <2>1, <2>3, <2>4, <2>5, <2>6, <2>7, <2>8, <2>9 DEF Origin, Later
<1>2. IInv /\ Behind => Isolation
  BY <1>1 DEF Isolation
<1> QED BY <1>2, Provenance, PTL

---------------------------------------------------------------------------
(* What a Success reports, and the clause it keeps.                        *)

LEMMA RecordTells ==
    ASSUME NEW acc, NEW refs, NEW sel, NEW r \in refs, r.table # NoTable
    PROVE  Reported(r, recordAccessed(acc, refs, sel))
<1> DEFINE e == ResolveAccessed(r.db, r.table, sel)
<1>1. e \in recordAccessed(acc, refs, sel)
  BY DEF recordAccessed
<1>2. e.OriginalDatabase = r.db /\ e.OriginalTable = r.table
  BY DEF ResolveAccessed, AccessedEntry
<1> HIDE DEF e
<1> QED BY <1>1, <1>2 DEF Reported

LEMMA ReportGrows ==
    ASSUME NEW r, NEW acc, Reported(r, acc), NEW more, acc \subseteq more
    PROVE  Reported(r, more)
BY DEF Reported

(* A body that the SELECT pipeline accepts has its tables reported. *)
LEMMA BodyReported ==
    ASSUME WellFormed(req.st), WellFormedOptions(req.opts),
           rewriteSelectCore(req.st, req.opts).Code = "Success", NEW r \in Range(req.st.reads)
    PROVE  Reported(r, rewriteSelectCore(req.st, req.opts).Accessed)
<1> DEFINE ts == SelectTables(req.st, req.opts)
           tables == recordAccessed({}, ReadRefs(ts), Sel)
           acc == ReadsReported(req.st, Sel, ts)
<1>1. rewriteSelectCore(req.st, req.opts).Accessed = acc
  BY SelectPassed DEF Sel
<1>2. r \in ReadRefs(ts) \/ \E x \in CTEOptions(req.opts) : r = Ref("", <<x.alias>>)
  <2>1. \A x \in Range(req.st.reads) : ReadTabled(x, req.st, req.opts)
    BY TablesOf
  <2>2. ReadTabled(r, req.st, req.opts)
    BY <2>1
  <2> QED BY <2>2 DEF ReadTabled
<1>3. r.table # NoTable
  BY DEF WellFormed, Range
<1>4. tables \subseteq acc
  BY DEF ReadsReported, recordAccessed
<1> HIDE DEF ts, tables, acc
<1>5. CASE r \in ReadRefs(ts)
  <2>1. Reported(r, tables)
    BY <1>3, <1>5, RecordTells DEF tables
  <2> QED BY <1>1, <1>4, <2>1, ReportGrows
<1>6. CASE \E x \in CTEOptions(req.opts) : r = Ref("", <<x.alias>>)
  BY <1>6 DEF Reported
<1> QED BY <1>2, <1>5, <1>6

LEMMA WriteReported ==
    ASSUME IInv, Behind, Succeeded, Write.handled, Write.resp.Code = "Success",
           NEW r \in Range(req.st.slots) \cup Range(req.st.reads)
    PROVE  Reported(r, Write.resp.Accessed)
<1> DEFINE st == req.st
           body == rewriteSelectCore(st, req.opts)
           acc == Write.resp.Accessed
<1>1. ParsedStatement = st /\ WellFormed(st) /\ WellFormedOptions(req.opts)
  BY SuccessState
<1>2. WriteForm(st) /\ Written(st, Sel, body, Write.resp)
  BY <1>1, WriteOrigin
<1>3. acc = recordAccessed({}, SlotRefs(st.slots), Sel) \cup (IF HasBody(st) THEN body.Accessed ELSE {})
  BY <1>2 DEF Written
<1> HIDE DEF acc
<1>4. CASE r \in Range(st.slots)
  <2>1. st.slots \in Seq(Refs)
    BY <1>1 DEF WellFormed
  <2>2. DOMAIN st.slots = 1..Len(st.slots)
    BY <2>1
  <2>3. r \in SlotRefs(st.slots)
    BY <1>4, <2>2 DEF SlotRefs, Range
  <2>4. st.kind \notin {"create_database", "drop_database"}
    BY <1>2 DEF WriteForm, WriteKinds
  <2>5. r.table # NoTable
    BY <1>1, <1>4, <2>4 DEF WellFormed, Range
  <2> HIDE DEF st
  <2>6. Reported(r, recordAccessed({}, SlotRefs(st.slots), Sel))
    BY <2>3, <2>5, RecordTells
  <2>7. recordAccessed({}, SlotRefs(st.slots), Sel) \subseteq acc
    BY <1>3
  <2> QED BY <2>6, <2>7, ReportGrows DEF acc
<1>5. CASE r \in Range(st.reads)
  <2>1. st.reads # <<>>
    BY <1>5 DEF Range
  <2>2. st.kind \in {"insert", "create_table", "create_view"}
    BY <1>1, <1>2, <2>1 DEF WriteForm, WriteKinds, WellFormed
  <2>3. HasBody(st)
    BY <2>1, <2>2 DEF HasBody
  <2>4. body.Code = "Success"
    BY <1>2, <2>3 DEF Written
  <2>5. Reported(r, body.Accessed)
    BY <1>1, <1>5, <2>4, BodyReported
  <2> HIDE DEF body
  <2>6. body.Accessed \subseteq acc
    BY <1>3, <2>3
  <2> QED BY <2>5, <2>6, ReportGrows DEF acc
<1> QED BY <1>4, <1>5

(* original_accessed_tables of every dynamic Success is complete: the      *)
(* tables of a body, of a read and of a write's slots, and the database of *)
(* CREATE or DROP DATABASE.                                                *)
THEOREM SuccessesReported == Spec => []AccessedComplete
<1>1. ASSUME IInv, Behind, Succeeded, Dynamic, NEW r \in Range(req.st.slots) \cup Range(req.st.reads)
      PROVE  Reported(r, resp.Accessed)
  <2> DEFINE st == req.st
             dyn == FindDynamicArgs(req.opts)
  <2>1. /\ ParsedStatement = st /\ WellFormed(st) /\ WellFormedOptions(req.opts) /\ Origin
    BY <1>1, DynamicSuccess
  <2>2. CASE Write.handled /\ Write.resp.Code = "Success" /\ Tells(Write.resp)
    BY <1>1, <2>2, WriteReported DEF Tells
  <2>3. CASE IsReadRoot(st)
    <3>1. st.slots = <<>>
      BY <2>1, <2>3 DEF IsReadRoot, WellFormed
    <3>2. r \in Range(st.reads)
      BY <1>1, <3>1 DEF Range
    <3>3. /\ rewriteSelectCore(st, req.opts).Code = "Success"
          /\ resp.Accessed = rewriteSelectCore(st, req.opts).Accessed
      BY <2>1, <2>3, ReadOrigin DEF Tells
    <3> QED BY <2>1, <3>2, <3>3, BodyReported
  <2>4. CASE st.kind \in {"create_database", "drop_database"}
    <3>1. st.reads = <<>> /\ st.slots[1].table = NoTable /\ st.slots \in Seq(Refs) /\ Len(st.slots) = 1
      BY <2>1, <2>4 DEF WellFormed
    <3>2. r = st.slots[1] /\ r.table = NoTable
      BY <1>1, <3>1 DEF Range
    <3>3. DBLevel.handled
      BY <2>1, <2>4 DEF DBLevel, RewriteDBLevel, Handled
    <3>4. DBLevel.resp.Code = "Success" /\ resp.Accessed = DBLevel.resp.Accessed
      BY <2>1, <2>4, <3>3, DatabaseLevelOrigin DEF Tells
    <3>5. DBLevel.resp \in {dispatchCreateDatabase(st, dyn), dispatchDropDatabase(st, dyn)}
      BY <2>1, <2>4 DEF DBLevel, RewriteDBLevel, Handled
    <3> HIDE DEF st, dyn
    <3>6. resp.Accessed = recordAccessedDatabase({}, r.db, dyn.args)
      BY <3>2, <3>4, <3>5, DatabasePassed
    <3>7. \E e \in recordAccessedDatabase({}, r.db, dyn.args) :
             e.OriginalDatabase = r.db /\ e.OriginalTable = NoTable
      BY DEF recordAccessedDatabase, AccessedEntry
    <3> QED BY <3>2, <3>6, <3>7 DEF Reported
  <2>5. CASE st.kind = "command" /\ st.sub \in {"use", "show", "object", "grant", "set"}
    <3>1. st.slots = <<>> /\ st.reads = <<>>
      BY <2>1, <2>5 DEF WellFormed
    <3> QED BY <1>1, <3>1 DEF Range
  <2>6. CASE DBLevel.handled \/ Describe.handled \/ Exists.handled \/ Grant.handled
    <3>1. \/ st.kind \in {"create_database", "drop_database"}
          \/ st.kind = "command" /\ st.sub \in {"use", "show", "object", "grant", "set"}
      BY <2>1, <2>6 DEF DBLevel, RewriteDBLevel, Describe, RewriteDescribe, Exists, RewriteExistsShowCreate,
                        Grant, RewriteGrant, NotHandled
    <3> QED BY <2>4, <2>5, <3>1
  <2>7. CASE ReadAnswer.handled
    BY <2>1, <2>3, <2>7 DEF ReadAnswer, NotHandled
  <2>8. CASE PassedOn
    <3>1. st.sub = "set"
      BY <1>1, <2>1, <2>8 DEF PassedOn, sessionSet
    <3>2. st.kind = "command"
      BY <2>1, <3>1 DEF WellFormed
    <3> QED BY <2>5, <3>1, <3>2
  <2> QED BY <2>1, <2>2, <2>6, <2>7, <2>8 DEF Origin, Later
<1>2. IInv /\ Behind => AccessedComplete
  BY <1>1 DEF AccessedComplete, Range
<1> QED BY <1>2, Provenance, PTL

(* A Success decided on the stripped text has its clause put back. *)
ClauseBack == pc = "done" /\ resp.Code = "Success" /\ text = "stripped" => resp.After.text = "restored"

LEMMA ClauseStays == IInv /\ ClauseBack /\ [Next]_vars => ClauseBack'
<1> SUFFICES ASSUME IInv, ClauseBack, [Next]_vars, pc' = "done", resp'.Code = "Success", text' = "stripped"
             PROVE  resp'.After.text = "restored"
  BY DEF ClauseBack
<1>1. CASE Restore
  <2>1. DOMAIN resp = Fields
    BY <1>1 DEF IInv, Carried
  <2>2. CASE resp' = [resp EXCEPT !.After = Restored(@)]
    BY <2>1, <2>2 DEF Fields, Restored
  <2>3. CASE resp' = [resp EXCEPT !.After = Echo("caller")] /\ resp.Code # "Success"
    BY <2>1, <2>3 DEF Fields
  <2>4. CASE sealCreateTableEmpty
    BY <2>4 DEF sealCreateTableEmpty, EmptyResponse
  <2> QED BY <1>1, <2>2, <2>3, <2>4 DEF Restore
<1>2. CASE UNCHANGED vars \/ Close
  BY <1>2 DEF vars, Close, ClauseBack
<1>3. CASE \/ \E r \in Requests : Call(r)
           \/ NothingToStrip \/ StripViewComment \/ StripCreateTableEmpty
           \/ ValidateRequest \/ ParseOne \/ Return
  BY <1>3 DEF Call, NothingToStrip, StripViewComment, StripCreateTableEmpty, ValidateRequest, ParseOne, Return
<1>4. ASSUME NEW r, Finalize(r) \/ sealStorageIntegrityHandlerError
      PROVE  FALSE
  BY <1>4 DEF Finalize, sealStorageIntegrityHandlerError
<1>5. ASSUME NEW stage, NEW next, next # "done", NEW result, NEW asks, Handler(stage, next, result, asks)
      PROVE  FALSE
  BY <1>4, <1>5 DEF Handler
<1>6. CASE ClassifyLiveView \/ CheckParsedInFull \/ PassThrough
  BY <1>4, <1>6 DEF ClassifyLiveView, CheckParsedInFull, PassThrough
<1>7. CASE RunPreflight \/ RunWrite \/ RunDBLevel \/ RunDescribe \/ RunExists \/ RunGrant \/ RunSelect
  BY <1>5, <1>7 DEF RunPreflight, RunWrite, RunDBLevel, RunDescribe, RunExists, RunGrant, RunSelect
<1>8. CASE SystemTableGate \/ CheckRegenerated \/ FirstDeploymentIdentityName
  BY <1>8 DEF SystemTableGate, CheckRegenerated, FirstDeploymentIdentityName, RefuseSuccess
<1> QED BY <1>1, <1>2, <1>3, <1>6, <1>7, <1>8 DEF Next, Step

(* A Success of an EMPTY or COMMENT form carries the clause again and      *)
(* reports the tables of its body, whatever fails on the way.              *)
THEOREM ClausesKept == Spec => []SuccessKeepsClause
<1>1. Spec => []ClauseBack
  <2>1. Init => ClauseBack
    BY DEF Init, ClauseBack
  <2> QED BY <2>1, ClauseStays, Provenance, PTL DEF Spec
<1>2. ASSUME IInv, Behind, ClauseBack, Succeeded, req.st.form # "plain"
      PROVE  /\ resp.After.text = "restored"
             /\ \A i \in DOMAIN req.st.reads : Reported(req.st.reads[i], resp.Accessed)
  <2> DEFINE st == req.st
  <2>1. ParsedStatement = st /\ WellFormed(st) /\ Origin /\ NoTail
    BY <1>2, SuccessState
  <2>2. st.kind \in {"create_table", "create_view"} /\ DOMAIN st = DOMAIN [st EXCEPT !.marks = {}, !.reads = {}]
    BY <1>2, <2>1 DEF WellFormed
  <2>3. text = "stripped"
    <3>1. SUFFICES ASSUME text # "stripped" PROVE "unparsedTail" \in ParsedStatement.marks
      BY <2>1 DEF NoTail
    <3>2. ParsedStatement = [req.st EXCEPT !.marks = @ \cup {"unparsedTail"},
                                           !.reads = IF req.st.form = "empty" THEN <<>> ELSE @]
      BY <1>2, <3>1 DEF ParsedStatement
    <3>3. {"marks", "reads"} \subseteq DOMAIN req.st
      BY <2>1 DEF WellFormed
    <3> QED BY <3>2, <3>3
  <2>4. resp.After.text = "restored"
    BY <1>2, <2>3 DEF ClauseBack, Succeeded, Finished
  <2>5. /\ ~DBLevel.handled /\ ~Describe.handled /\ ~Exists.handled /\ ~Grant.handled /\ ~ReadAnswer.handled
        /\ Write.handled
    <3>1. ~DBLevel.handled /\ ~Describe.handled /\ ~Exists.handled /\ ~Grant.handled /\ ~ReadAnswer.handled
      BY <2>1, <2>2 DEF DBLevel, RewriteDBLevel, Describe, RewriteDescribe, Exists, RewriteExistsShowCreate,
                        Grant, RewriteGrant, ReadAnswer, IsReadRoot, NotHandled
    <3>2. Write.handled
      BY <2>1, <2>2 DEF Write, RewriteWrite, WriteUnder, DispatchWrite, Handled
    <3> QED BY <3>1, <3>2
  <2>6. Write.resp.Code = "Success" /\ resp.Accessed = Write.resp.Accessed
    BY <2>1, <2>5 DEF Origin, Later, PassedOn, Tells
  <2>7. \A i \in DOMAIN req.st.reads : req.st.reads[i] \in Range(req.st.slots) \cup Range(req.st.reads)
    BY DEF Range
  <2> QED BY <1>2, <2>4, <2>5, <2>6, <2>7, WriteReported
<1>3. IInv /\ Behind /\ ClauseBack => SuccessKeepsClause
  BY <1>2 DEF SuccessKeepsClause
<1> QED BY <1>1, <1>3, Provenance, PTL

---------------------------------------------------------------------------
(* Storage integrity: no Success names a physical database of it. *)

LEMMA EmptyDomain == ASSUME NEW s, s = <<>> PROVE DOMAIN s = {}
  OBVIOUS

(* Each target of a statement that succeeds has been admitted. *)
LEMMA TargetsJudged ==
    ASSUME IInv, Behind, Succeeded, Dynamic, NEW i \in DOMAIN AllWriteTargets(req.st)
    PROVE  TargetAdmitted(AllWriteTargets(req.st)[i], Sel,
                          req.st.kind = "insert" \/ storageIntegrityDropAllowed(req.st, Sel))
<1> DEFINE st == req.st
           targets == AllWriteTargets(st)
           siDrop == storageIntegrityDropAllowed(st, Sel)
<1>1. ParsedStatement = st /\ WellFormed(st) /\ (Write.handled => Write.resp.Code = "Success")
  BY SuccessState
<1>2. st.slots \in Seq(Refs) /\ st.cross \in Seq(Refs)
  BY <1>1 DEF WellFormed
<1>3. targets \in Seq(Refs) /\ Len(targets) \in Nat /\ DOMAIN targets = 1..Len(targets)
  <2>1. targets \in Seq(Refs)
    BY <1>2, ConcatIn DEF AllWriteTargets
  <2> HIDE DEF targets
  <2> QED BY <2>1
<1>4. ~IsReadRoot(st)
  <2> SUFFICES ASSUME st.kind = "select" PROVE FALSE
    BY DEF IsReadRoot
  <2>1. st.slots = <<>> /\ st.cross = <<>>
    BY <1>1 DEF WellFormed
  <2>2. targets = <<>>
    BY <2>1 DEF AllWriteTargets
  <2> QED BY <2>2
<1>5. preflightStorageIntegrityWrite(st, Sel, siDrop).Code = "Success"
  BY <1>1, WritePassed DEF Write, Sel
<1>6. FirstRefusal(targets, newWriteResp("UNSPECIFIED"), Sel, st.kind = "insert" \/ siDrop).Code = "Success"
  BY <1>4, <1>5, SIWritePassed DEF Dynamic
<1> HIDE DEF targets, siDrop
<1>7. TargetAdmitted(targets[i], Sel, st.kind = "insert" \/ siDrop)
  BY <1>3, <1>6, FirstRefusalPassed DEF targets
<1> QED BY <1>7 DEF targets, siDrop

LEMMA AdmittedNotPhysical ==
    ASSUME NEW r, NEW sel, NEW allow, TargetAdmitted(r, sel, allow)
    PROVE  ~IsStorageIntegrityPhysicalDatabase(r.db, sel.Dynamic)
  BY DEF TargetAdmitted, LookupStorageIntegrityPhysical, LogicalOf, IsStorageIntegrityPhysicalDatabase

(* A statement with a body, or a SELECT, has had its tables judged. *)
LEMMA BodyJudged ==
    ASSUME IInv, Behind, Succeeded, Dynamic, req.st.reads # <<>>
    PROVE  SelectClear(req.st, Sel, SelectTables(req.st, req.opts))
<1> DEFINE st == req.st
           body == rewriteSelectCore(st, req.opts)
<1>1. /\ ParsedStatement = st /\ WellFormed(st) /\ Origin
  BY SuccessState
<1>2. body.Code = "Success"
  <2>1. CASE Write.handled /\ Write.resp.Code = "Success"
    <3>1. WriteForm(st) /\ Written(st, Sel, body, Write.resp)
      BY <1>1, <2>1, WriteOrigin
    <3>2. HasBody(st)
      BY <1>1, <3>1 DEF WriteForm, WriteKinds, WellFormed, HasBody
    <3> QED BY <3>1, <3>2 DEF Written
  <2>2. CASE st.kind \in {"command", "create_database", "drop_database"}
    BY <1>1, <2>2 DEF WellFormed
  <2>3. CASE IsReadRoot(st)
    BY <1>1, <2>3, ReadOrigin
  <2>4. DBLevel.handled \/ Describe.handled \/ Exists.handled \/ Grant.handled \/ PassedOn =>
           st.kind \in {"command", "create_database", "drop_database"}
    <3>1. PassedOn => st.kind = "command"
      BY <1>1 DEF PassedOn, sessionSet, WellFormed
    <3> QED BY <1>1, <3>1 DEF DBLevel, Describe, Exists, Grant, RewriteDBLevel, RewriteDescribe,
              RewriteExistsShowCreate, RewriteGrant, NotHandled
  <2>5. ReadAnswer.handled => IsReadRoot(st)
    BY <1>1 DEF ReadAnswer, NotHandled
  <2> QED BY <1>1, <2>1, <2>2, <2>3, <2>4, <2>5 DEF Origin, Later
<1> QED BY <1>2, SelectPassed DEF Sel

LEMMA ReadJudged ==
    ASSUME IInv, Behind, Succeeded, Dynamic, NEW r \in Range(req.st.reads)
    PROVE  r.db = "" \/ ~RefusedSIRead(r, Sel)
<1> DEFINE ts == SelectTables(req.st, req.opts)
<1>1. WellFormed(req.st) /\ WellFormedOptions(req.opts)
  BY SuccessState
<1>2. req.st.reads # <<>>
  BY DEF Range
<1>3. SelectClear(req.st, Sel, ts)
  BY <1>2, BodyJudged
<1>4. r \in ReadRefs(ts) \/ \E x \in CTEOptions(req.opts) : r = Ref("", <<x.alias>>)
  <2>1. \A x \in Range(req.st.reads) : ReadTabled(x, req.st, req.opts)
    BY <1>1, TablesOf
  <2>2. ReadTabled(r, req.st, req.opts)
    BY <2>1
  <2> QED BY <2>2 DEF ReadTabled
<1> HIDE DEF ts
<1>5. CASE r \in ReadRefs(ts)
  <2>1. PICK k \in DOMAIN ts : r = Ref(ts[k].db, ts[k].table)
    BY <1>5 DEF ReadRefs
  <2>2. ~RefusedSIRead(ts[k], Sel)
    BY <1>3 DEF SelectClear, Dynamic
  <2>3. r.db = ts[k].db /\ r.table = ts[k].table
    BY <2>1 DEF Ref
  <2> QED BY <2>2, <2>3 DEF RefusedSIRead
<1>6. CASE \E x \in CTEOptions(req.opts) : r = Ref("", <<x.alias>>)
  <2>1. PICK x \in CTEOptions(req.opts) : r = Ref("", <<x.alias>>)
    BY <1>6
  <2> QED BY <2>1 DEF Ref
<1> QED BY <1>4, <1>5, <1>6

(* What an AST names outside its targets and reads is judged on its own:   *)
(* the preflight and the gates leave none of it for a Success.             *)
LEMMA AsidesNotPhysical ==
    ASSUME IInv, Behind, Succeeded, Dynamic
    PROVE  /\ req.st.ns = <<>> /\ req.st.exprReads = <<>>
           /\ \A i \in DOMAIN req.st.opaque :
                 ~IsStorageIntegrityPhysicalDatabase(req.st.opaque[i].db, Sel.Dynamic)
           /\ \A i \in DOMAIN req.st.lookups :
                 ~IsStorageIntegrityPhysicalDatabase(req.st.lookups[i].db, Sel.Dynamic)
<1> DEFINE st == req.st
           a == Sel.Dynamic
<1>1. /\ ParsedStatement = st /\ WellFormed(st) /\ ~UnmodelledCommand(st, Sel)
      /\ ~PreflightTableReferences(st, text, Sel).handled /\ WellFormedArguments(a)
  BY DynamicSuccess
<1>2. Succeeding
  BY SuccessState
<1>3. ~rejectDisallowedCarriers(st) /\ ~rejectUngovernedReads(st, Sel)
  BY <1>1, <1>2, CarriersChecked
<1>4. Sel.Mode = "dynamic" /\ a.ctx \in STRING
  BY <1>1 DEF Dynamic, WellFormedArguments
<1>5. st.ns = <<>> /\ st.exprReads = <<>>
  BY <1>3 DEF rejectDisallowedCarriers, rejectUngovernedReads
<1>6. ASSUME NEW i \in DOMAIN st.opaque PROVE ~IsStorageIntegrityPhysicalDatabase(st.opaque[i].db, a)
  <2>1. CASE SIActive(Sel)
    BY <1>3, <2>1 DEF rejectUngovernedReads, OpaqueReserved
  <2>2. CASE ~SIActive(Sel)
    BY <1>4, <2>2, InactiveNoSI DEF SIActive
  <2> QED BY <2>1, <2>2
<1>7. ASSUME NEW i \in DOMAIN st.lookups PROVE ~IsStorageIntegrityPhysicalDatabase(st.lookups[i].db, a)
  <2> DEFINE db == st.lookups[i].db
  <2>1. ~RefusedLookup(st) /\ RefusedDatabases(NamedDatabases(st) \o <<a.ctx>>, st, Sel) = {}
    BY <1>1, <1>4, PreflightPassed
  <2>2. st.kind # "command"
    BY <1>1, <2>1 DEF WellFormed, RefusedLookup
  <2>3. SUFFICES ASSUME db # "" PROVE ~ProtectedDatabase(db, a)
    BY DEF ProtectedDatabase, IsStorageIntegrityPhysicalDatabase
  <2>4. db \in BlindDatabases(st)
    BY <2>2, <2>3 DEF BlindDatabases
  <2>5. db \in Range(NamedDatabases(st))
    <3>1. Ref(db, st.lookups[i].table) \in NamedRefs(st)
      BY <1>1, <2>2, ArgumentsOf DEF NamedRefs, WellFormed
    <3>2. Ref(db, st.lookups[i].table).db = db
      BY DEF Ref
    <3>3. Range(NamedDatabases(st)) = Range(CommandDatabases(st)) \cup {r.db : r \in NamedRefs(st)}
      BY <1>1, NamedRange
    <3> HIDE DEF db, st
    <3> QED BY <3>1, <3>2, <3>3
  <2> DEFINE dbs == NamedDatabases(st) \o <<a.ctx>>
  <2>6. Range(dbs) = Range(NamedDatabases(st)) \cup Range(<<a.ctx>>)
    <3> DEFINE s == NamedDatabases(st)
               c == <<a.ctx>>
    <3>1. s \in Seq(STRING) /\ c \in Seq(STRING)
      BY <1>1, <1>4, NamedRange
    <3> HIDE DEF s, c
    <3>2. Range(s \o c) = Range(s) \cup Range(c)
      BY <3>1, ConcatIn
    <3> QED BY <3>2 DEF s, c
  <2> HIDE DEF dbs, db
  <2>7. PICK k \in DOMAIN dbs : dbs[k] = db
    BY <2>5, <2>6 DEF Range
  <2>8. RefusedDatabases(dbs, st, Sel) = {}
    BY <2>1 DEF dbs
  <2> QED BY <2>4, <2>7, <2>8 DEF RefusedDatabases
<1> QED BY <1>5, <1>6, <1>7

(* A name of a command that succeeds is in no SI physical database. *)
LEMMA ShownNotPhysical ==
    ASSUME IInv, Behind, Succeeded, Dynamic, Sub("show"), NamesOnlyItsTarget(req.st)
    PROVE  /\ ~IsStorageIntegrityPhysicalDatabase(req.st.cmd.db, Sel.Dynamic)
           /\ \A i \in DOMAIN req.st.cmd.body :
                 ~IsStorageIntegrityPhysicalDatabase(req.st.cmd.body[i].db, Sel.Dynamic)
<1> DEFINE st == req.st
           c == st.cmd
           a == Sel.Dynamic
           dyn == FindDynamicArgs(req.opts)
           h == dispatchShowTables(text, c, dyn)
<1>1. /\ ParsedStatement = st /\ WellFormed(st) /\ Origin /\ dyn.found /\ dyn.args = a
  BY DynamicSuccess
<1>2. st.kind = "command" /\ st.sub = "show"
  BY DEF Sub
<1>3. WellFormedCommand(st)
  BY <1>1, <1>2 DEF WellFormed
<1>4. /\ ~c.hasDB => c.db = ""
      /\ c.what \in {"TABLES", "DATABASES"} /\ ~c.trailing => c.body = <<>>
  BY <1>2, <1>3 DEF WellFormedCommand
<1>5. ~IsStorageIntegrityPhysicalDatabase("", a)
  BY DEF IsStorageIntegrityPhysicalDatabase
<1>6. c.hasDB => c.what \in ShowTargetBearing \cup {"TABLES", "DATABASES"}
  BY <1>2 DEF NamesOnlyItsTarget
<1>7. \/ c.what = "DATABASES" /\ dispatchShowDatabases(c, dyn).Code = "Success"
      \/ c.what # "DATABASES" /\ h.handled /\ h.resp.Code = "Success"
      \/ c.what \notin {"DATABASES", "TABLES"} /\ PassedOn
  BY <1>1, <1>2, ShowOrigin
<1>8. ~PassedOn
  BY <1>1, <1>2 DEF PassedOn, sessionSet, Dynamic
<1> HIDE DEF st, c, a, dyn
<1>9. CASE c.what = "DATABASES" /\ dispatchShowDatabases(c, dyn).Code = "Success"
  <2>1. ~c.trailing /\ ~c.hasDB
    BY <1>1, <1>9, ShowDatabasesPassed
  <2>2. c.body = <<>> /\ c.db = ""
    BY <1>4, <1>9, <2>1
  <2>3. ~IsStorageIntegrityPhysicalDatabase(c.db, a)
    BY <1>5, <2>2
  <2>4. DOMAIN c.body = {}
    BY <2>2, EmptyDomain
  <2> QED BY <2>3, <2>4 DEF a, c, st
<1>10. CASE c.what = "TABLES" /\ h.handled /\ h.resp.Code = "Success"
  <2> DEFINE r == newWriteResp("show_tables")
  <2>1. h.resp = dispatchEnumeration(r, text, c, a)
    BY <1>1, <1>10, ShowTablesPassed
  <2>2. Blank(r)
    BY NewRespBlank
  <2> HIDE DEF r
  <2>3. ~c.trailing /\ ~IsStorageIntegrityPhysicalDatabase(Listed(c, a), a)
    BY <1>10, <2>1, <2>2, EnumerationPassed
  <2>4. c.body = <<>> /\ (c.db = "" \/ c.db = Listed(c, a))
    BY <1>4, <1>10, <2>3 DEF Listed
  <2>5. ~IsStorageIntegrityPhysicalDatabase(c.db, a)
    BY <1>5, <2>3, <2>4
  <2>6. DOMAIN c.body = {}
    BY <2>4, EmptyDomain
  <2> QED BY <2>5, <2>6 DEF a, c, st
<1>11. CASE c.what \notin {"TABLES", "DATABASES"} /\ h.handled /\ h.resp.Code = "Success"
  <2>1. ShowJudged(c, a, h.resp)
    BY <1>1, <1>11, ShowKindsJudged
  <2>2. CASE StorageIntegritySurfaceActive(a)
    <3>1. \A i \in DOMAIN c.body : ~IsStorageIntegrityPhysicalDatabase(c.body[i].db, a)
      BY <2>1, <2>2 DEF ShowJudged
    <3>2. c.hasDB => ~IsStorageIntegrityPhysicalDatabase(c.db, a)
      BY <1>6, <1>11, <2>1, <2>2 DEF ShowJudged, Listed
    <3> QED BY <1>4, <1>5, <3>1, <3>2 DEF a, c, st
  <2>3. CASE ~StorageIntegritySurfaceActive(a)
    BY <2>3, InactiveNoSI DEF a
  <2> QED BY <2>2, <2>3
<1> QED BY <1>7, <1>8, <1>9, <1>10, <1>11

LEMMA ObjectOrigin ==
    ASSUME Origin, Dynamic, ParsedStatement.kind = "command", ParsedStatement.sub = "object"
    PROVE  \E q : ObjectShown(ParsedStatement.cmd, Sel, q) /\ Tells(q)
<1> DEFINE st == ParsedStatement
<1>1. CASE Write.handled /\ Write.resp.Code = "Success"
  BY <1>1, WriteOrigin DEF WriteForm, WriteKinds
<1>2. ~DBLevel.handled
  BY DEF DBLevel, RewriteDBLevel, NotHandled
<1>3. ~Grant.handled
  BY DEF Grant, RewriteGrant, NotHandled
<1>4. ~ReadAnswer.handled
  BY DEF ReadAnswer, IsReadRoot, NotHandled
<1>5. ~PassedOn
  BY DEF PassedOn, sessionSet
<1>6. CASE Describe.handled /\ Describe.resp.Code = "Success" /\ Tells(Describe.resp)
  BY <1>6, DescribeOrigin
<1>7. CASE Exists.handled /\ Exists.resp.Code = "Success" /\ Tells(Exists.resp)
  BY <1>7, ExistsOrigin
<1> QED BY <1>1, <1>2, <1>3, <1>4, <1>5, <1>6, <1>7 DEF Origin, Later

LEMMA GrantAnswered ==
    ASSUME Origin, ParsedStatement.kind = "command", ParsedStatement.sub = "grant"
    PROVE  Grant.handled /\ Grant.resp.Code = "Success" /\ Tells(Grant.resp)
<1>1. CASE Write.handled /\ Write.resp.Code = "Success"
  BY <1>1, WriteOrigin DEF WriteForm, WriteKinds
<1>2. ~DBLevel.handled
  BY DEF DBLevel, RewriteDBLevel, NotHandled
<1>3. ~Describe.handled /\ ~Exists.handled
  BY DEF Describe, RewriteDescribe, Exists, RewriteExistsShowCreate, NotHandled
<1>4. ~ReadAnswer.handled
  BY DEF ReadAnswer, IsReadRoot, NotHandled
<1>5. ~PassedOn
  BY DEF PassedOn, Later, Grant, RewriteGrant, Handled
<1> QED BY <1>1, <1>2, <1>3, <1>4, <1>5 DEF Origin, Later

LEMMA GrantOnSIPassed ==
    ASSUME NEW c, NEW sel, NEW stmt, GrantOnSI(c, sel, newWriteResp(stmt)).Code = "Success",
           sel.Mode = "dynamic", c.hasOn, ~c.anyDatabase, c.table # NoTable
    PROVE  /\ ~IsStorageIntegrityPhysicalDatabase(LogicalOf(c.db, sel.Dynamic), sel.Dynamic)
           /\ ~c.allTables => ~IsStorageIntegrity(c.db, c.table, sel.Dynamic)
<1> DEFINE r == newWriteResp(stmt)
           a == sel.Dynamic
           named == [r EXCEPT !.Accessed = recordAccessed(@, {Ref(c.db, c.table)}, sel)]
           si == GrantOnSI(c, sel, r)
           scope == [Rejected(r, "UnsupportedStatement", "siPhysical") EXCEPT
                       !.Accessed = recordAccessedDatabase(@, LogicalOf(c.db, a), a)]
<1>1. DOMAIN r = Fields
  BY NewRespBlank DEF Blank
<1>2. si = IF c.allTables
           THEN IF IsStorageIntegrityPhysicalDatabase(LogicalOf(c.db, a), a) THEN scope ELSE r
           ELSE IF LookupStorageIntegrityPhysical(c.db, c.table, a)
                THEN Rejected(named, "UnsupportedStatement", "siPhysical")
           ELSE IF IsStorageIntegrity(c.db, c.table, a)
                THEN IF AuthorizeStorageIntegrityLogical(c.db, a)
                     THEN Rejected(named, "UnsupportedStatement", "siWrite")
                     ELSE Rejected(named, "InvalidRewriteRequest", "siUnauthorized")
           ELSE r
  BY DEF GrantOnSI, scopeDatabase
<1> HIDE DEF r
<1>3. DOMAIN named = Fields
  BY <1>1 DEF Fields
<1>4. scope.Code # "Success"
  BY <1>1 DEF Rejected, Fields
<1> HIDE DEF named, scope
<1>5. ASSUME NEW code \in {"UnsupportedStatement", "InvalidRewriteRequest"}, NEW msg
      PROVE  Rejected(named, code, msg).Code # "Success"
  BY <1>3, RejectedFails
<1>6. si.Code = "Success"
  BY DEF r
<1> QED BY <1>2, <1>4, <1>5, <1>6 DEF LookupStorageIntegrityPhysical

LEMMA CommandNamesClear ==
    ASSUME IInv, Behind, Succeeded, Dynamic, NamesOnlyItsTarget(req.st), req.st.kind = "command",
           NEW r \in CommandNames(req.st)
    PROVE  ~IsStorageIntegrityPhysicalDatabase(r.db, Sel.Dynamic)
<1> DEFINE st == req.st
           c == st.cmd
           a == Sel.Dynamic
           dyn == FindDynamicArgs(req.opts)
<1>1. /\ ParsedStatement = st /\ WellFormed(st) /\ Origin /\ dyn.found /\ dyn.args = a
      /\ ~UnmodelledCommand(st, Sel) /\ ~PreflightTableReferences(st, text, Sel).handled
  BY DynamicSuccess
<1>2. WellFormedCommand(st) /\ Sel.Mode = "dynamic"
  BY <1>1 DEF WellFormed, Dynamic
<1>3. ASSUME NEW db, NEW table PROVE Ref(db, table).db = db
  BY DEF Ref
<1>4. CASE st.sub = "use"
  <2>1. r.db = c.db
    BY <1>3, <1>4 DEF CommandNames
  <2>2. dispatchUse(c, dyn).Code = "Success"
    BY <1>1, <1>4, UseOrigin
  <2>3. ~ProtectedDatabase(c.db, a)
    BY <1>1, <2>2, UsePassed
  <2> QED BY <2>1, <2>3 DEF ProtectedDatabase, IsStorageIntegrityPhysicalDatabase
<1>5. CASE st.sub = "show"
  <2>1. r.db = c.db \/ \E i \in DOMAIN c.body : r = c.body[i]
    BY <1>3, <1>5 DEF CommandNames
  <2> QED BY <1>5, <2>1, ShownNotPhysical DEF Sub
<1>6. CASE st.sub = "object"
  <2>1. PICK q : ObjectShown(c, Sel, q)
    BY <1>1, <1>6, ObjectOrigin
  <2>2. c.shape \in {"name", "call"}
    BY <1>2, <1>6, <2>1 DEF ObjectShown, WellFormedCommand
  <2>3. c.shape = "call" => c.fnClass = "allowed"
    BY <1>1, <1>2, <1>6, PreflightPassed DEF TargetIsFunctionCall
  <2>4. c.body = <<>>
    BY <1>6, <2>2, <2>3 DEF NamesOnlyItsTarget
  <2>5. DOMAIN c.body = {}
    BY <2>4, EmptyDomain
  <2>6. r.db = c.db
    BY <1>3, <1>6, <2>5 DEF CommandNames
  <2>7. ~IsStorageIntegrityPhysicalDatabase(LogicalOf(c.db, a), a)
    BY <1>2, <2>1 DEF ObjectShown
  <2> QED BY <2>6, <2>7 DEF LogicalOf, IsStorageIntegrityPhysicalDatabase
<1>7. CASE st.sub = "grant"
  <2>1. Grant.handled /\ Grant.resp.Code = "Success"
    BY <1>1, <1>7, GrantAnswered
  <2>2. GrantTold(c, Sel, dyn, Grant.resp)
    BY <1>1, <2>1, GrantOrigin
  <2>3. c.hasOn /\ ~c.anyDatabase /\ \E stmt : GrantOnSI(c, Sel, newWriteResp(stmt)).Code = "Success"
    BY <2>1, <2>2 DEF GrantTold
  <2>4. c.table # NoTable
    BY <1>2, <1>7, <2>3 DEF WellFormedCommand
  <2>5. ~IsStorageIntegrityPhysicalDatabase(LogicalOf(c.db, a), a)
    BY <1>2, <2>3, <2>4, GrantOnSIPassed
  <2>6. r.db = c.db
    BY <1>3, <1>7, <2>3 DEF CommandNames
  <2> QED BY <2>5, <2>6 DEF LogicalOf, IsStorageIntegrityPhysicalDatabase
<1>8. st.sub \in {"use", "show", "object", "grant"}
  BY DEF CommandNames
<1> QED BY <1>4, <1>5, <1>6, <1>7, <1>8

(* The names of a statement, by where it has them. *)
LEMMA NamesOf ==
    ASSUME NEW st, WellFormed(st), NEW r \in AllNames(st)
    PROVE  \/ r \in CommandNames(st) /\ st.kind = "command"
           \/ \E i \in DOMAIN AllWriteTargets(st) : r = AllWriteTargets(st)[i]
           \/ r \in Range(st.reads) \/ r \in Range(st.exprReads) \/ r \in Range(st.opaque)
           \/ \E i \in DOMAIN st.ns : r = Ref(st.ns[i].db, st.ns[i].table)
           \/ \E i \in DOMAIN st.lookups : r = Ref(st.lookups[i].db, st.lookups[i].table)
<1> DEFINE refs(s) == {Ref(s[i].db, s[i].table) : i \in DOMAIN s}
<1>1. /\ st.slots \in Seq(Refs) /\ st.cross \in Seq(Refs) /\ st.reads \in Seq(Refs)
      /\ st.exprReads \in Seq(Refs) /\ st.opaque \in Seq(Refs)
  BY DEF WellFormed
<1>2. ASSUME NEW s \in Seq(Refs), NEW x \in refs(s) PROVE x \in Range(s)
  <2>1. PICK i \in DOMAIN s : x = Ref(s[i].db, s[i].table)
    BY <1>2
  <2>2. s[i] \in Refs
    OBVIOUS
  <2> QED BY <2>1, <2>2 DEF Ref, Refs, Range
<1>3. Range(AllWriteTargets(st)) = Range(st.slots) \cup Range(st.cross)
  BY <1>1, ConcatIn DEF AllWriteTargets
<1>4. \A x \in Range(AllWriteTargets(st)) : \E i \in DOMAIN AllWriteTargets(st) : x = AllWriteTargets(st)[i]
  BY DEF Range
<1>5. st.kind # "command" => st.sub = ""
  BY DEF WellFormed
<1>6. CommandNames(st) # {} => st.sub \in {"use", "show", "object", "grant"}
  BY DEF CommandNames
<1>7. \/ r \in CommandNames(st)
      \/ r \in refs(st.slots) \cup refs(st.cross)
      \/ r \in refs(st.reads) \/ r \in refs(st.exprReads) \/ r \in refs(st.opaque)
      \/ r \in refs(st.ns) \/ r \in refs(st.lookups)
  BY DEF AllNames
<1>8. r \in refs(st.slots) \cup refs(st.cross) => r \in Range(AllWriteTargets(st))
  BY <1>1, <1>2, <1>3
<1>9. /\ r \in refs(st.reads) => r \in Range(st.reads)
      /\ r \in refs(st.exprReads) => r \in Range(st.exprReads)
      /\ r \in refs(st.opaque) => r \in Range(st.opaque)
  BY <1>1, <1>2
<1>10. r \in CommandNames(st) => st.kind = "command"
  BY <1>5, <1>6
<1> QED BY <1>4, <1>7, <1>8, <1>9, <1>10

LEMMA NoPhysicalNamed ==
    ASSUME IInv, Behind, Succeeded, Dynamic, NamesOnlyItsTarget(req.st), NEW r \in AllNames(req.st)
    PROVE  ~IsStorageIntegrityPhysicalDatabase(r.db, Sel.Dynamic)
<1> DEFINE st == req.st
           a == Sel.Dynamic
<1>0. WellFormed(st)
  BY SuccessState
<1>1. CASE r \in CommandNames(st) /\ st.kind = "command"
  BY <1>1, CommandNamesClear
<1>2. CASE \E i \in DOMAIN AllWriteTargets(st) : r = AllWriteTargets(st)[i]
  <2>1. PICK i \in DOMAIN AllWriteTargets(st) : r = AllWriteTargets(st)[i]
    BY <1>2
  <2>2. TargetAdmitted(AllWriteTargets(st)[i], Sel, st.kind = "insert" \/ storageIntegrityDropAllowed(st, Sel))
    BY TargetsJudged
  <2> QED BY <2>1, <2>2, AdmittedNotPhysical
<1>3. CASE r \in Range(st.reads)
  <2>1. r.db = "" \/ ~RefusedSIRead(r, Sel)
    BY <1>3, ReadJudged
  <2>2. r.table # NoTable
    BY <1>0, <1>3 DEF WellFormed, Range
  <2> QED BY <2>1, <2>2 DEF RefusedSIRead, LookupStorageIntegrityPhysical, LogicalOf,
                            IsStorageIntegrityPhysicalDatabase
<1>4. CASE r \in Range(st.exprReads) \/ \E i \in DOMAIN st.ns : r = Ref(st.ns[i].db, st.ns[i].table)
  <2>1. st.exprReads = <<>> /\ st.ns = <<>>
    BY AsidesNotPhysical
  <2>2. DOMAIN st.exprReads = {} /\ DOMAIN st.ns = {}
    BY <2>1, EmptyDomain
  <2> QED BY <1>4, <2>2 DEF Range
<1>5. CASE r \in Range(st.opaque)
  BY <1>5, AsidesNotPhysical DEF Range
<1>6. CASE \E i \in DOMAIN st.lookups : r = Ref(st.lookups[i].db, st.lookups[i].table)
  <2>1. PICK i \in DOMAIN st.lookups : r = Ref(st.lookups[i].db, st.lookups[i].table)
    BY <1>6
  <2>2. r.db = st.lookups[i].db
    BY <2>1 DEF Ref
  <2> QED BY <2>2, AsidesNotPhysical
<1> HIDE DEF st
<1> QED BY <1>0, <1>1, <1>2, <1>3, <1>4, <1>5, <1>6, NamesOf DEF st

(* Where a command names only its target, a statement that succeeds        *)
(* changes an SI table only as INSERT or, under contract V2, plain DROP    *)
(* TABLE, with the account mapped to its logical database, and names no SI *)
(* physical database anywhere (preflightStorageIntegrityWrite and          *)
(* inspectTarget in writes.go, the reads of select.go, the lookups and     *)
(* opaque names of preflight.go, dblevel.go, describe.go, exists.go and    *)
(* grant.go together).                                                     *)
THEOREM WritesGuarded ==
    ASSUME \A r \in Requests : NamesOnlyItsTarget(r.st)
    PROVE  Spec => []SIWritesGuarded
<1>1. ASSUME IInv, Behind, Succeeded, Dynamic
      PROVE  LET a == Sel.Dynamic
                 targets == {AllWriteTargets(req.st)[i] : i \in DOMAIN AllWriteTargets(req.st)}
             IN  /\ \A r \in targets : IsStorageIntegrity(r.db, r.table, a) =>
                      /\ \/ req.st.kind = "insert"
                         \/ /\ req.st.kind = "drop_table" /\ a.si.version = "V2"
                            /\ "plainDrop" \in req.st.marks
                      /\ LogicalOf(r.db, a) \in DOMAIN a.database_map
                 /\ \A r \in AllNames(req.st) : ~IsStorageIntegrityPhysicalDatabase(r.db, a)
  <2> DEFINE a == Sel.Dynamic
             allow == req.st.kind = "insert" \/ storageIntegrityDropAllowed(req.st, Sel)
  <2>1. req \in Requests
    BY <1>1, SuccessState
  <2>2. \A r \in AllNames(req.st) : ~IsStorageIntegrityPhysicalDatabase(r.db, a)
    BY <1>1, <2>1, NoPhysicalNamed
  <2>3. ASSUME NEW i \in DOMAIN AllWriteTargets(req.st),
               IsStorageIntegrity(AllWriteTargets(req.st)[i].db, AllWriteTargets(req.st)[i].table, a)
        PROVE  /\ \/ req.st.kind = "insert"
                  \/ req.st.kind = "drop_table" /\ a.si.version = "V2" /\ "plainDrop" \in req.st.marks
               /\ LogicalOf(AllWriteTargets(req.st)[i].db, a) \in DOMAIN a.database_map
    <3> DEFINE r == AllWriteTargets(req.st)[i]
    <3>1. TargetAdmitted(r, Sel, allow)
      BY <1>1, TargetsJudged
    <3> HIDE DEF r, allow
    <3>2. IsStorageIntegrity(r.db, r.table, a)
      BY <2>3 DEF r
    <3>3. r.table # NoTable
      BY <3>2 DEF IsStorageIntegrity, LookupStorageIntegrity
    <3>4. allow /\ AuthorizeStorageIntegrityLogical(r.db, a)
      BY <3>1, <3>2, <3>3 DEF TargetAdmitted
    <3> QED BY <3>4 DEF allow, r, AuthorizeStorageIntegrityLogical, storageIntegrityDropAllowed,
                        StorageIntegrityDropContract
  <2> QED BY <2>2, <2>3
<1>2. IInv /\ Behind => SIWritesGuarded
  BY <1>1 DEF SIWritesGuarded
<1> QED BY <1>2, Provenance, PTL

---------------------------------------------------------------------------
(* Storage integrity: what a command may do to a table of it. *)

(* A name that hits a key of valid options is in a logical SI database. *)
LEMMA KeyedIsLogical ==
    ASSUME NEW a, ValidateStorageIntegrity(a), NEW db, NEW table \in Seq(STRING),
           IsStorageIntegrity(db, table, a)
    PROVE  /\ IsStorageIntegrityLogicalDatabase(LogicalOf(db, a), a) /\ StorageIntegritySurfaceActive(a)
           /\ LookupStorageIntegrity(db, table, a) = <<LogicalOf(db, a)>> \o table
           /\ <<LogicalOf(db, a)>> \o table \in DOMAIN a.si.tables
<1> DEFINE l == LogicalOf(db, a)
           k == <<l>> \o table
<1>1. k \in DOMAIN a.si.tables /\ l # "" /\ LookupStorageIntegrity(db, table, a) = k
  BY DEF IsStorageIntegrity, LookupStorageIntegrity
<1>2. exactQualifiedTable(k) /\ DOMAIN a.si.tables # {}
  BY <1>1 DEF ValidateStorageIntegrity
<1>3. k[1] = l
  OBVIOUS
<1> HIDE DEF k
<1>4. \E x \in DOMAIN a.si.tables : exactQualifiedTable(x) /\ x[1] = l
  BY <1>1, <1>2, <1>3
<1> HIDE DEF l
<1> QED BY <1>1, <1>2, <1>4 DEF IsStorageIntegrityLogicalDatabase, StorageIntegritySurfaceActive, k, l

LEMMA CommandNamesSafe ==
    ASSUME IInv, Behind, Succeeded, Dynamic, NamesOnlyItsTarget(req.st), ClausesClear(req),
           req.st.kind = "command", NEW r \in CommandNames(req.st),
           IsStorageIntegrity(r.db, r.table, Sel.Dynamic)
    PROVE  /\ Sub("object") /\ req.st.cmd.verb # "show_create"
           /\ AuthorizeStorageIntegrityLogical(r.db, Sel.Dynamic)
           /\ resp.After.out = SafeOutput(req.st.cmd, Sel.Dynamic)
           /\ r.db = req.st.cmd.db /\ r.table = req.st.cmd.table
<1> DEFINE st == req.st
           c == st.cmd
           a == Sel.Dynamic
           dyn == FindDynamicArgs(req.opts)
           h == dispatchShowTables(text, c, dyn)
<1>1. /\ ParsedStatement = st /\ WellFormed(st) /\ Origin /\ dyn.found /\ dyn.args = a
      /\ ~UnmodelledCommand(st, Sel) /\ ~PreflightTableReferences(st, text, Sel).handled
  BY DynamicSuccess
<1>2. WellFormedCommand(st) /\ Sel.Mode = "dynamic"
  BY <1>1 DEF WellFormed, Dynamic
<1>3. ValidateStorageIntegrity(a)
  <2>1. DOMAIN a.si.tables # {}
    BY DEF IsStorageIntegrity, LookupStorageIntegrity
  <2>2. SIActive(Sel) /\ Valid
    BY <1>2, <2>1, SuccessState DEF SIActive, StorageIntegritySurfaceActive
  <2> QED BY <2>2 DEF Valid
<1>4. ASSUME NEW db, NEW table PROVE Ref(db, table).db = db /\ Ref(db, table).table = table
  BY DEF Ref
<1>5. r.table # NoTable
  BY DEF IsStorageIntegrity, LookupStorageIntegrity
<1>6. CASE st.sub = "use"
  BY <1>4, <1>5, <1>6 DEF CommandNames
<1>7. CASE st.sub = "show"
  <2>1. ASSUME NEW i \in DOMAIN c.body, r = c.body[i] PROVE FALSE
    BY <1>7, <2>1 DEF ClausesClear, Sel
  <2>2. c.hasTable /\ r.db = c.db /\ r.table = c.table
    BY <1>4, <1>5, <1>7, <2>1 DEF CommandNames
  <2>3. /\ c.what \in ShowTargetBearing \ {"TABLES", "DATABASES"} /\ c.table \in Seq(STRING)
        /\ ~c.hasDB => c.db = ""
    BY <1>2, <1>7, <2>2 DEF WellFormedCommand, ShowTargetBearing
  <2>4. h.handled /\ h.resp.Code = "Success"
    <3>1. ~PassedOn
      BY <1>1, <1>7 DEF PassedOn, sessionSet, Dynamic
    <3> QED BY <1>1, <1>7, <2>3, <3>1, ShowOrigin
  <2>5. ShowJudged(c, a, h.resp)
    BY <1>1, <2>3, <2>4, ShowKindsJudged
  <2>6. StorageIntegritySurfaceActive(a) /\ IsStorageIntegrityLogicalDatabase(LogicalOf(c.db, a), a)
    BY <1>3, <2>2, <2>3, KeyedIsLogical
  <2>7. LogicalOf(c.db, a) = Listed(c, a)
    BY <2>3, <2>5, <2>6 DEF ShowJudged, Listed, LogicalOf
  <2> QED BY <2>3, <2>5, <2>6, <2>7 DEF ShowJudged
<1>8. CASE st.sub = "object"
  <2>1. PICK q : ObjectShown(c, Sel, q) /\ Tells(q)
    BY <1>1, <1>8, ObjectOrigin
  <2>2. c.shape \in {"name", "call"}
    BY <1>2, <1>8, <2>1 DEF ObjectShown, WellFormedCommand
  <2>3. c.shape = "call" => c.fnClass = "allowed"
    BY <1>1, <1>2, <1>8, PreflightPassed DEF TargetIsFunctionCall
  <2>4. DOMAIN c.body = {}
    <3>1. c.body = <<>>
      BY <1>8, <2>2, <2>3 DEF NamesOnlyItsTarget
    <3> QED BY <3>1, EmptyDomain
  <2>5. r.db = c.db /\ r.table = c.table
    BY <1>4, <1>8, <2>4 DEF CommandNames
  <2> HIDE DEF c, a
  <2>6. IsStorageIntegrity(c.db, c.table, a)
    BY <2>5 DEF a
  <2>7. /\ c.verb # "show_create" /\ AuthorizeStorageIntegrityLogical(c.db, a)
        /\ q.After.out = SafeOutput(c, a)
    BY <1>2, <2>1, <2>6 DEF ObjectShown, a
  <2> QED BY <1>8, <2>1, <2>5, <2>7 DEF Sub, Tells, a, c
<1>9. CASE st.sub = "grant"
  <2>1. Grant.handled /\ Grant.resp.Code = "Success"
    BY <1>1, <1>9, GrantAnswered
  <2>2. GrantTold(c, Sel, dyn, Grant.resp)
    BY <1>1, <2>1, GrantOrigin
  <2>3. c.hasOn /\ ~c.anyDatabase /\ \E stmt : GrantOnSI(c, Sel, newWriteResp(stmt)).Code = "Success"
    BY <2>1, <2>2 DEF GrantTold
  <2>4. c.table # NoTable /\ (c.allTables => c.table = <<"*">>) /\ c.table \in Seq(STRING)
    BY <1>2, <1>9, <2>3 DEF WellFormedCommand
  <2>5. r.db = c.db /\ r.table = c.table
    BY <1>4, <1>9, <2>3 DEF CommandNames
  <2>6. c.allTables
    BY <1>2, <2>3, <2>4, <2>5, GrantOnSIPassed
  <2>7. <<LogicalOf(c.db, a)>> \o c.table \in DOMAIN a.si.tables
    BY <1>3, <2>4, <2>5, KeyedIsLogical
  <2>8. exactQualifiedTable(<<LogicalOf(c.db, a)>> \o <<"*">>)
    BY <1>3, <2>4, <2>6, <2>7 DEF ValidateStorageIntegrity
  <2> DEFINE l == LogicalOf(c.db, a)
  <2> HIDE DEF l
  <2>9. (<<l>> \o <<"*">>)[2] = "*"
    OBVIOUS
  <2>10. simpleIdentifier("*")
    BY <2>8, <2>9 DEF exactQualifiedTable, l
  <2> QED BY <2>10, NotSimpleAssumption DEF simpleIdentifier
<1>10. st.sub \in {"use", "show", "object", "grant"}
  BY DEF CommandNames
<1> QED BY <1>6, <1>7, <1>8, <1>9, <1>10

(* Where a command names only its target and no clause of it spells an SI  *)
(* table, a command that succeeds names no SI physical database, and       *)
(* addresses an SI table only to describe it or to ask whether it exists,  *)
(* through its safe half, with the account mapped to its database          *)
(* (describe.go, exists.go, dispatchTargetBearing in dblevel.go,           *)
(* inspectTarget in writes.go, grantOnStorageIntegrity in grant.go).       *)
THEOREM CommandsGuarded ==
    ASSUME \A r \in Requests : NamesOnlyItsTarget(r.st) /\ ClausesClear(r)
    PROVE  Spec => []SICommandsGuarded
<1>1. ASSUME IInv, Behind, Succeeded, Dynamic, req.st.kind = "command", NEW r \in AllNames(req.st)
      PROVE  /\ ~IsStorageIntegrityPhysicalDatabase(r.db, Sel.Dynamic)
             /\ IsStorageIntegrity(r.db, r.table, Sel.Dynamic) =>
                   /\ Sub("object") /\ req.st.cmd.verb # "show_create"
                   /\ LogicalOf(r.db, Sel.Dynamic) \in DOMAIN Sel.Dynamic.database_map
                   /\ \A o \in resp.After.out :
                         qualify(o.db, o.table) =
                         Sel.Dynamic.si.tables[LookupStorageIntegrity(r.db, r.table, Sel.Dynamic)].safe
  <2> DEFINE st == req.st
             c == st.cmd
             a == Sel.Dynamic
  <2>1. req \in Requests /\ WellFormed(st)
    BY <1>1, SuccessState
  <2>2. NamesOnlyItsTarget(st) /\ ClausesClear(req)
    BY <2>1
  <2>3. ~IsStorageIntegrityPhysicalDatabase(r.db, a)
    BY <1>1, <2>2, NoPhysicalNamed
  <2>4. SUFFICES ASSUME IsStorageIntegrity(r.db, r.table, a)
        PROVE  /\ Sub("object") /\ c.verb # "show_create"
               /\ LogicalOf(r.db, a) \in DOMAIN a.database_map
               /\ \A o \in resp.After.out :
                     qualify(o.db, o.table) = a.si.tables[LookupStorageIntegrity(r.db, r.table, a)].safe
    BY <2>3
  <2>5. CASE r \in CommandNames(st)
    <3>1. /\ Sub("object") /\ c.verb # "show_create" /\ AuthorizeStorageIntegrityLogical(r.db, a)
          /\ resp.After.out = SafeOutput(c, a) /\ r.db = c.db /\ r.table = c.table
      BY <1>1, <2>2, <2>4, <2>5, CommandNamesSafe
    <3> DEFINE safe == SafeTable(c, a)
               k == LookupStorageIntegrity(c.db, c.table, a)
    <3>2. k \in DOMAIN a.si.tables /\ safe = a.si.tables[k].safe
      BY <2>4, <3>1 DEF IsStorageIntegrity, LookupStorageIntegrity, SafeTable
    <3>3. ValidateStorageIntegrity(a)
      <4>1. SIActive(Sel) /\ Valid
        BY <1>1, <3>2, SuccessState DEF SIActive, StorageIntegritySurfaceActive, Dynamic
      <4> QED BY <4>1 DEF Valid
    <3>4. exactQualifiedTable(safe) /\ safe \in Seq(STRING)
      BY <1>1, <3>2, <3>3, DynamicSuccess DEF ValidateStorageIntegrity, WellFormedArguments
    <3> HIDE DEF safe, k, a, c
    <3>5. ASSUME NEW o \in resp.After.out PROVE qualify(o.db, o.table) = safe
      <4>1. o = OutRef("surface", Head(safe), Tail(safe), Ref(c.db, c.table), "caller")
        BY <3>1 DEF SafeOutput, safe
      <4>2. o.db = Head(safe) /\ o.table = Tail(safe)
        BY <4>1 DEF OutRef
      <4> DEFINE S == STRING
      <4>3. safe \in Seq(S) /\ Len(safe) = 2 /\ safe[1] # ""
        BY <3>4 DEF exactQualifiedTable, simpleIdentifier
      <4> HIDE DEF S
      <4>4. Head(safe) # "" /\ <<Head(safe)>> \o Tail(safe) = safe
        BY <4>3, PairRejoins
      <4> QED BY <4>2, <4>4 DEF qualify
    <3> QED BY <3>1, <3>2, <3>5 DEF a, c, k, AuthorizeStorageIntegrityLogical
  <2>6. CASE \E i \in DOMAIN AllWriteTargets(st) : r = AllWriteTargets(st)[i]
    <3>1. PICK i \in DOMAIN AllWriteTargets(st) : r = AllWriteTargets(st)[i]
      BY <2>6
    <3>2. TargetAdmitted(r, Sel, st.kind = "insert" \/ storageIntegrityDropAllowed(st, Sel))
      BY <1>1, <3>1, TargetsJudged
    <3>3. ~(st.kind = "insert" \/ storageIntegrityDropAllowed(st, Sel))
      BY <1>1 DEF storageIntegrityDropAllowed
    <3>4. r.table # NoTable
      BY <2>4 DEF IsStorageIntegrity, LookupStorageIntegrity
    <3> QED BY <2>4, <3>2, <3>3, <3>4 DEF TargetAdmitted
  <2>7. st.reads = <<>> /\ \A i \in DOMAIN st.lookups : ~st.lookups[i].inBody
    BY <1>1, <2>1 DEF WellFormed
  <2>8. r \notin Range(st.reads)
    <3>1. DOMAIN st.reads = {}
      BY <2>7, EmptyDomain
    <3> QED BY <3>1 DEF Range
  <2>9. r \notin Range(st.exprReads) /\ ~\E i \in DOMAIN st.ns : r = Ref(st.ns[i].db, st.ns[i].table)
    <3>1. st.exprReads = <<>> /\ st.ns = <<>>
      BY <1>1, AsidesNotPhysical
    <3>2. DOMAIN st.exprReads = {} /\ DOMAIN st.ns = {}
      BY <3>1, EmptyDomain
    <3> QED BY <3>2 DEF Range
  <2>10. r \notin Range(st.opaque)
    BY <1>1, <2>2, <2>4 DEF ClausesClear, Range, Sel
  <2>11. DOMAIN st.lookups = {}
    <3>1. ~RefusedLookup(st)
      BY <1>1, DynamicSuccess, PreflightPassed DEF Dynamic
    <3> QED BY <2>7, <3>1 DEF RefusedLookup
  <2> HIDE DEF st
  <2> QED BY <2>1, <2>5, <2>6, <2>8, <2>9, <2>10, <2>11, NamesOf DEF st
<1>2. IInv /\ Behind => SICommandsGuarded
  BY <1>1 DEF SICommandsGuarded
<1> QED BY <1>2, Provenance, PTL

---------------------------------------------------------------------------
(* System tables: every name of a statement is one the scan collects, or  *)
(* one that resolves in the session's database.                            *)

ObjectRefs == [db : STRING, table : Seq(STRING), exact : BOOLEAN]

LEMMA ObjectsOf ==
    ASSUME NEW s, NEW n \in Nat, DOMAIN s = 1..n, NEW I, I \subseteq DOMAIN s,
           \A i \in DOMAIN s : s[i].db \in STRING /\ s[i].table \in Seq(STRING)
    PROVE  LET objs == [i \in DOMAIN Kept(s, I) |-> ObjectRef(Kept(s, I)[i], TRUE)]
           IN  objs \in Seq(ObjectRefs) /\ \A i \in I : ObjectRef(s[i], TRUE) \in Range(objs)
<1> DEFINE K == Kept(s, I)
           X == ObjectRefs
           objs == [i \in DOMAIN K |-> ObjectRef(K[i], TRUE)]
           m == Cardinality(I)
<1>1. /\ m \in Nat /\ DOMAIN K = 1..m
      /\ \A k \in DOMAIN K : \E i \in I : K[k] = s[i]
      /\ \A i \in I : \E k \in DOMAIN K : K[k] = s[i]
  BY KeptElements DEF KeepsOnly, KeepsAll
<1> HIDE DEF K, m
<1>2. \A i \in DOMAIN s : ObjectRef(s[i], TRUE) \in X
  <2> SUFFICES ASSUME NEW i \in DOMAIN s PROVE ObjectRef(s[i], TRUE) \in X
    OBVIOUS
  <2>1. s[i].db \in STRING /\ s[i].table \in Seq(STRING)
    OBVIOUS
  <2> QED BY <2>1 DEF ObjectRef, ObjectRefs
<1> HIDE DEF X
<1>3. \A k \in DOMAIN K : ObjectRef(K[k], TRUE) \in X
  BY <1>1, <1>2
<1>4. DOMAIN objs = 1..m /\ \A k \in DOMAIN K : objs[k] = ObjectRef(K[k], TRUE)
  BY <1>1
<1>5. objs \in Seq(X)
  <2>1. objs \in [1..m -> X]
    BY <1>1, <1>3
  <2> HIDE DEF objs
  <2> QED BY <1>1, <2>1, SeqDef
<1>6. ASSUME NEW i \in I PROVE ObjectRef(s[i], TRUE) \in Range(objs)
  <2>1. PICK k \in DOMAIN K : K[k] = s[i]
    BY <1>1
  <2>2. k \in DOMAIN objs /\ objs[k] = ObjectRef(s[i], TRUE)
    BY <2>1
  <2> HIDE DEF objs
  <2> QED BY <2>2 DEF Range
<1> QED BY <1>5, <1>6 DEF K, X

(* The same of a whole sequence, as commands collect their names. *)
LEMMA NamedObjects ==
    ASSUME NEW s \in Seq(Refs)
    PROVE  LET objs == [i \in DOMAIN s |-> ObjectRef(s[i], TRUE)]
           IN  objs \in Seq(ObjectRefs) /\ \A i \in DOMAIN s : ObjectRef(s[i], TRUE) \in Range(objs)
<1> DEFINE X == ObjectRefs
           objs == [i \in DOMAIN s |-> ObjectRef(s[i], TRUE)]
           n == Len(s)
<1>1. n \in Nat /\ DOMAIN s = 1..n /\ \A i \in DOMAIN s : s[i] \in Refs
  OBVIOUS
<1> HIDE DEF n
<1>2. \A i \in DOMAIN s : ObjectRef(s[i], TRUE) \in X
  BY <1>1 DEF ObjectRef, ObjectRefs, Refs
<1> HIDE DEF X
<1>3. objs \in [1..n -> X]
  BY <1>1, <1>2
<1>4. \A i \in DOMAIN s : i \in DOMAIN objs /\ objs[i] = ObjectRef(s[i], TRUE)
  OBVIOUS
<1> HIDE DEF objs
<1>5. objs \in Seq(X)
  BY <1>1, <1>3, SeqDef
<1>6. \A i \in DOMAIN s : ObjectRef(s[i], TRUE) \in Range(objs)
  BY <1>4 DEF Range
<1> QED BY <1>5, <1>6 DEF objs, X

LEMMA OneObject ==
    ASSUME NEW X, NEW x, NEW p, p => x \in X
    PROVE  LET s == IF p THEN <<x>> ELSE <<>>
           IN  s \in Seq(X) /\ (p => x \in Range(s))
<1>1. CASE p
  <2>1. <<x>> \in Seq(X) /\ 1 \in DOMAIN <<x>> /\ <<x>>[1] = x
    BY <1>1
  <2> QED BY <1>1, <2>1 DEF Range
<1>2. CASE ~p
  BY <1>2
<1> QED BY <1>1, <1>2

(* What the scan of a command collects. *)
LEMMA CommandCollected ==
    ASSUME NEW st, WellFormed(st), st.kind = "command"
    PROVE  LET c == st.cmd
           IN  /\ CommandObjectRefs(st) \in Seq(ObjectRefs)
               /\ st.sub \in {"show", "object"} =>
                     \A i \in DOMAIN c.body : ObjectRef(c.body[i], TRUE) \in Range(CommandObjectRefs(st))
               /\ st.sub = "show" /\ c.hasTable /\ c.tableResolved =>
                     ObjectRef(Ref(c.db, c.table), TRUE) \in Range(CommandObjectRefs(st))
               /\ st.sub = "object" /\ c.objType # "DATABASE" /\ c.shape = "name" =>
                     ObjectRef(Ref(c.db, c.table), TRUE) \in Range(CommandObjectRefs(st))
               /\ st.sub = "grant" /\ c.hasOn /\ c.db # "" =>
                     ObjectRef(Ref(c.db, c.table), ~c.allTables) \in Range(CommandObjectRefs(st))
<1> DEFINE c == st.cmd
           X == ObjectRefs
           named == [i \in DOMAIN c.body |-> ObjectRef(c.body[i], TRUE)]
           one(e, p) == IF p THEN <<ObjectRef(Ref(c.db, c.table), e)>> ELSE <<>>
           refs == CommandObjectRefs(st)
           r == Ref(c.db, c.table)
           whole == c.hasTable /\ c.tableResolved
           object == c.objType # "DATABASE" /\ c.shape = "name" /\ c.table # NoTable
           granted == c.hasOn /\ c.db # ""
<1>1. WellFormedCommand(st)
  BY DEF WellFormed
<1>2. st.sub \in {"show", "object"} => c.body \in Seq(Refs)
  BY <1>1 DEF WellFormedCommand
<1>3. st.sub \in {"show", "object", "grant"} => c.db \in STRING /\ c.table \in Seq(STRING)
  BY <1>1 DEF WellFormedCommand
<1>4. st.sub = "object" /\ c.shape = "name" => c.table # NoTable
  BY <1>1 DEF WellFormedCommand
<1>5. /\ st.sub = "show" => refs = named \o one(TRUE, whole)
      /\ st.sub = "object" => refs = named \o one(TRUE, object)
      /\ st.sub = "grant" => refs = one(~c.allTables, granted)
      /\ st.sub \notin {"show", "object", "grant"} => refs = <<>>
  BY DEF CommandObjectRefs
<1> HIDE DEF refs, c, whole, object, granted
<1>6. st.sub \in {"show", "object", "grant"} => \A e \in BOOLEAN : ObjectRef(r, e) \in X
  BY <1>3 DEF ObjectRef, ObjectRefs, Ref
<1>7. st.sub \in {"show", "object"} =>
         named \in Seq(X) /\ \A i \in DOMAIN c.body : ObjectRef(c.body[i], TRUE) \in Range(named)
  BY <1>2, NamedObjects
<1> DEFINE flag == ~c.allTables
<1>8. flag \in BOOLEAN
  OBVIOUS
<1> HIDE DEF X, named, r, flag
<1> DEFINE x(e) == ObjectRef(r, e)
<1>9. ASSUME NEW e \in BOOLEAN, NEW p, st.sub \in {"show", "object", "grant"}
      PROVE  one(e, p) \in Seq(X) /\ (p => x(e) \in Range(one(e, p)))
  <2>1. x(e) \in X
    BY <1>6, <1>9
  <2>2. one(e, p) = IF p THEN <<x(e)>> ELSE <<>>
    BY DEF r
  <2> HIDE DEF x, one
  <2> QED BY <2>1, <2>2, OneObject
<1> HIDE DEF one
<1>10. CASE st.sub = "show"
  <2>1. one(TRUE, whole) \in Seq(X) /\ (whole => x(TRUE) \in Range(one(TRUE, whole)))
    <3> DEFINE t == TRUE
    <3>1. t \in BOOLEAN
      OBVIOUS
    <3> HIDE DEF t
    <3>2. one(t, whole) \in Seq(X) /\ (whole => x(t) \in Range(one(t, whole)))
      BY <1>9, <1>10, <3>1
    <3> QED BY <3>2 DEF t
  <2> DEFINE tail == one(TRUE, whole)
             y == x(TRUE)
  <2> HIDE DEF tail, y
  <2>2. named \o tail \in Seq(X) /\ Range(named \o tail) = Range(named) \cup Range(tail)
    <3>1. named \in Seq(X) /\ tail \in Seq(X)
      BY <1>7, <1>10, <2>1 DEF tail
    <3> QED BY <3>1, ConcatIn
  <2>3. refs = named \o tail
    BY <1>5, <1>10 DEF tail
  <2>4. refs \in Seq(X) /\ (whole => y \in Range(refs))
        /\ \A i \in DOMAIN c.body : ObjectRef(c.body[i], TRUE) \in Range(refs)
    BY <1>7, <1>10, <2>1, <2>2, <2>3 DEF tail, y
  <2> QED BY <1>10, <2>4 DEF refs, X, whole, y, r, c
<1>11. CASE st.sub = "object"
  <2>1. one(TRUE, object) \in Seq(X) /\ (object => x(TRUE) \in Range(one(TRUE, object)))
    <3> DEFINE t == TRUE
    <3>1. t \in BOOLEAN
      OBVIOUS
    <3> HIDE DEF t
    <3>2. one(t, object) \in Seq(X) /\ (object => x(t) \in Range(one(t, object)))
      BY <1>9, <1>11, <3>1
    <3> QED BY <3>2 DEF t
  <2> DEFINE tail == one(TRUE, object)
             y == x(TRUE)
  <2> HIDE DEF tail, y
  <2>2. named \o tail \in Seq(X) /\ Range(named \o tail) = Range(named) \cup Range(tail)
    <3>1. named \in Seq(X) /\ tail \in Seq(X)
      BY <1>7, <1>11, <2>1 DEF tail
    <3> QED BY <3>1, ConcatIn
  <2>3. refs = named \o tail
    BY <1>5, <1>11 DEF tail
  <2>4. refs \in Seq(X) /\ (object => y \in Range(refs))
        /\ \A i \in DOMAIN c.body : ObjectRef(c.body[i], TRUE) \in Range(refs)
    BY <1>7, <1>11, <2>1, <2>2, <2>3 DEF tail, y
  <2> QED BY <1>4, <1>11, <2>4 DEF refs, X, object, y, r, c
<1>12. CASE st.sub = "grant"
  <2>1. one(flag, granted) \in Seq(X) /\ (granted => x(flag) \in Range(one(flag, granted)))
    BY <1>8, <1>9, <1>12
  <2>2. refs = one(flag, granted)
    BY <1>5, <1>12 DEF flag
  <2> QED BY <1>12, <2>1, <2>2 DEF refs, X, granted, r, c, flag
<1>13. CASE st.sub \notin {"show", "object", "grant"}
  <2>1. refs = <<>>
    BY <1>5, <1>13
  <2>2. refs \in Seq(X)
    BY <2>1
  <2> QED BY <1>13, <2>2 DEF refs, X
<1> QED BY <1>10, <1>11, <1>12, <1>13

(* What the scan of a whole statement collects, where no function or       *)
(* engine names a table.                                                   *)
LEMMA StatementCollected ==
    ASSUME NEW st, WellFormed(st), st.ns = <<>>
    PROVE  LET found == Range(CollectObjectRefs(st))
           IN  /\ st.kind = "command" =>
                     /\ Range(CommandObjectRefs(st)) \subseteq found
                     /\ \A r \in Range(st.slots) \cup Range(st.opaque) :
                           r.table # NoTable /\ r.db # "" => ObjectRef(r, TRUE) \in found
               /\ st.kind # "command" =>
                     \A r \in Range(AllWriteTargets(st)) \cup Range(st.reads) \cup Range(st.exprReads)
                              \cup Range(st.opaque) \cup Range(st.lookups) :
                        r.table # NoTable => ObjectRef(r, TRUE) \in found
<1> DEFINE X == ObjectRefs
           objs(s, I) == [i \in DOMAIN Kept(s, I) |-> ObjectRef(Kept(s, I)[i], TRUE)]
           exact(s) == {i \in DOMAIN s : s[i].table # NoTable}
           qual(s) == {i \in DOMAIN s : s[i].table # NoTable /\ s[i].db # ""}
           N == {i \in DOMAIN st.ns : st.ns[i].db # "" \/ st.ns[i].current}
           carriers == Kept(st.ns, N)
           carried == [i \in DOMAIN carriers |-> ObjectRef(carriers[i], carriers[i].resolved)]
           found == CollectObjectRefs(st)
<1>1. /\ st.slots \in Seq(Refs) /\ st.cross \in Seq(Refs) /\ st.reads \in Seq(Refs)
      /\ st.exprReads \in Seq(Refs) /\ st.opaque \in Seq(Refs)
      /\ ArgumentRefs(st.lookups) \in Seq(Refs)
  BY DEF WellFormed
<1>2. AllWriteTargets(st) \in Seq(Refs)
  <2> DEFINE R == Refs
  <2>1. st.slots \in Seq(R) /\ st.cross \in Seq(R)
    BY <1>1
  <2> HIDE DEF R
  <2>2. st.slots \o st.cross \in Seq(R)
    BY <2>1, ConcatIn
  <2> QED BY <2>2 DEF AllWriteTargets, R
<1>3. ASSUME NEW s, NEW n \in Nat, DOMAIN s = 1..n, NEW I, I \subseteq DOMAIN s,
             \A i \in DOMAIN s : s[i].db \in STRING /\ s[i].table \in Seq(STRING)
      PROVE  objs(s, I) \in Seq(X) /\ \A i \in I : ObjectRef(s[i], TRUE) \in Range(objs(s, I))
  BY <1>3, ObjectsOf
<1>4. ASSUME NEW s \in Seq(Refs), NEW I, I \subseteq DOMAIN s
      PROVE  objs(s, I) \in Seq(X) /\ \A i \in I : ObjectRef(s[i], TRUE) \in Range(objs(s, I))
  <2>1. Len(s) \in Nat /\ DOMAIN s = 1..Len(s) /\ \A i \in DOMAIN s : s[i] \in Refs
    OBVIOUS
  <2>2. \A i \in DOMAIN s : s[i].db \in STRING /\ s[i].table \in Seq(STRING)
    BY <2>1 DEF Refs
  <2> HIDE DEF objs, X
  <2> QED BY <1>3, <1>4, <2>1, <2>2
<1> HIDE DEF objs, X
<1>5. ASSUME NEW s \in Seq(Refs)
      PROVE  /\ objs(s, exact(s)) \in Seq(X) /\ objs(s, qual(s)) \in Seq(X)
             /\ \A r \in Range(s) : r.table # NoTable => ObjectRef(r, TRUE) \in Range(objs(s, exact(s)))
             /\ \A r \in Range(s) : r.table # NoTable /\ r.db # "" =>
                   ObjectRef(r, TRUE) \in Range(objs(s, qual(s)))
  <2>1. exact(s) \subseteq DOMAIN s /\ qual(s) \subseteq DOMAIN s
    OBVIOUS
  <2>2. \A r \in Range(s) : \E i \in DOMAIN s : r = s[i]
    BY DEF Range
  <2>3. \A i \in DOMAIN s : /\ s[i].table # NoTable => i \in exact(s)
                            /\ s[i].table # NoTable /\ s[i].db # "" => i \in qual(s)
    OBVIOUS
  <2> HIDE DEF exact, qual
  <2>4. objs(s, exact(s)) \in Seq(X) /\ \A i \in exact(s) : ObjectRef(s[i], TRUE) \in Range(objs(s, exact(s)))
    BY <1>4, <2>1
  <2>5. objs(s, qual(s)) \in Seq(X) /\ \A i \in qual(s) : ObjectRef(s[i], TRUE) \in Range(objs(s, qual(s)))
    BY <1>4, <2>1
  <2> QED BY <2>2, <2>3, <2>4, <2>5
<1>6. ASSUME st.kind = "command"
      PROVE  /\ Range(CommandObjectRefs(st)) \subseteq Range(found)
             /\ \A r \in Range(st.slots) \cup Range(st.opaque) :
                   r.table # NoTable /\ r.db # "" => ObjectRef(r, TRUE) \in Range(found)
  <2> DEFINE named == CommandObjectRefs(st)
             a == objs(st.slots, qual(st.slots))
             b == objs(st.opaque, qual(st.opaque))
  <2>1. found = (named \o a) \o b
    BY <1>6 DEF CollectObjectRefs, objs
  <2>2. named \in Seq(X)
    BY <1>6, CommandCollected DEF X
  <2> HIDE DEF found, qual, exact
  <2>3. a \in Seq(X) /\ b \in Seq(X)
    BY <1>1, <1>5
  <2>4. /\ \A r \in Range(st.slots) : r.table # NoTable /\ r.db # "" => ObjectRef(r, TRUE) \in Range(a)
        /\ \A r \in Range(st.opaque) : r.table # NoTable /\ r.db # "" => ObjectRef(r, TRUE) \in Range(b)
    BY <1>1, <1>5
  <2> HIDE DEF named, a, b
  <2>5. named \o a \in Seq(X) /\ Range(named \o a) = Range(named) \cup Range(a)
    BY <2>2, <2>3, ConcatIn
  <2> DEFINE both == named \o a
  <2>8. found = both \o b /\ both \in Seq(X) /\ Range(both) = Range(named) \cup Range(a)
    BY <2>1, <2>5
  <2> HIDE DEF both
  <2>6. Range(both \o b) = Range(both) \cup Range(b)
    BY <2>3, <2>8, ConcatIn
  <2>7. Range(found) = Range(named) \cup Range(a) \cup Range(b)
    BY <2>6, <2>8
  <2> QED BY <2>4, <2>7 DEF named
<1>7. carried \in Seq(X)
  <2>1. N = {}
    <3>1. DOMAIN st.ns = {}
      BY EmptyDomain
    <3> QED BY <3>1
  <2> HIDE DEF N
  <2>2. Cardinality(N) = 0
    BY <2>1, FS_EmptySet
  <2>3. DOMAIN carriers = {}
    BY <2>2 DEF Kept
  <2> HIDE DEF carriers
  <2>4. carried = <<>>
    BY <2>3
  <2> HIDE DEF carried
  <2> QED BY <2>4
<1>8. ASSUME st.kind # "command", NEW r, r.table # NoTable,
             r \in Range(AllWriteTargets(st)) \cup Range(st.reads) \cup Range(st.exprReads)
                  \cup Range(st.opaque) \cup Range(st.lookups)
      PROVE  ObjectRef(r, TRUE) \in Range(found)
  <2> DEFINE w == objs(AllWriteTargets(st), exact(AllWriteTargets(st)))
             a == objs(st.reads, exact(st.reads))
             b == objs(st.exprReads, exact(st.exprReads))
             o == objs(st.opaque, exact(st.opaque))
             k == objs(st.lookups, exact(st.lookups))
  <2>1. found = ((((w \o a) \o b) \o carried) \o o) \o k
    BY <1>8 DEF CollectObjectRefs, objs
  <2>2. /\ Len(ArgumentRefs(st.lookups)) \in Nat /\ DOMAIN st.lookups = 1..Len(ArgumentRefs(st.lookups))
        /\ \A i \in DOMAIN st.lookups : st.lookups[i].db \in STRING /\ st.lookups[i].table \in Seq(STRING)
    BY <1>1, ArgumentsOf
  <2>3. exact(st.lookups) \subseteq DOMAIN st.lookups
    OBVIOUS
  <2>4. \A i \in DOMAIN st.lookups : st.lookups[i].table # NoTable => i \in exact(st.lookups)
    OBVIOUS
  <2> HIDE DEF found, exact, carried
  <2>5. k \in Seq(X) /\ \A i \in exact(st.lookups) : ObjectRef(st.lookups[i], TRUE) \in Range(k)
    BY <1>3, <2>2, <2>3
  <2>6. w \in Seq(X) /\ (r \in Range(AllWriteTargets(st)) => ObjectRef(r, TRUE) \in Range(w))
    BY <1>2, <1>5, <1>8
  <2>7. a \in Seq(X) /\ (r \in Range(st.reads) => ObjectRef(r, TRUE) \in Range(a))
    BY <1>1, <1>5, <1>8
  <2>8. b \in Seq(X) /\ (r \in Range(st.exprReads) => ObjectRef(r, TRUE) \in Range(b))
    BY <1>1, <1>5, <1>8
  <2>9. o \in Seq(X) /\ (r \in Range(st.opaque) => ObjectRef(r, TRUE) \in Range(o))
    BY <1>1, <1>5, <1>8
  <2>10. r \in Range(st.lookups) => ObjectRef(r, TRUE) \in Range(k)
    BY <1>8, <2>4, <2>5 DEF Range
  <2> DEFINE y == ObjectRef(r, TRUE)
  <2>11. y \in Range(w) \cup Range(a) \cup Range(b) \cup Range(o) \cup Range(k)
    BY <1>8, <2>6, <2>7, <2>8, <2>9, <2>10
  <2> HIDE DEF w, a, b, o, k, y
  <2> DEFINE wa == w \o a
             wab == wa \o b
             wabc == wab \o carried
             wabco == wabc \o o
             all == wabco \o k
  <2>12. wa \in Seq(X) /\ Range(wa) = Range(w) \cup Range(a)
    BY <2>6, <2>7, ConcatIn
  <2>13. found = all
    BY <2>1
  <2> HIDE DEF wa
  <2>14. wab \in Seq(X) /\ Range(wab) = Range(wa) \cup Range(b)
    BY <2>8, <2>12, ConcatIn
  <2> HIDE DEF wab
  <2>15. wabc \in Seq(X) /\ Range(wabc) = Range(wab) \cup Range(carried)
    BY <1>7, <2>14, ConcatIn
  <2> HIDE DEF wabc
  <2>16. wabco \in Seq(X) /\ Range(wabco) = Range(wabc) \cup Range(o)
    BY <2>9, <2>15, ConcatIn
  <2> HIDE DEF wabco
  <2>17. Range(all) = Range(wabco) \cup Range(k)
    BY <2>5, <2>16, ConcatIn
  <2> HIDE DEF all
  <2> QED BY <2>11, <2>12, <2>13, <2>14, <2>15, <2>16, <2>17 DEF y
<1> QED BY <1>6, <1>8

(* A Success leaves no system table outside the allowlist among the        *)
(* collected names: the preflight refused, or the backstop.                *)
LEMMA CollectedAllowed ==
    ASSUME IInv, Behind, Succeeded, Dynamic, NEW x \in Range(CollectObjectRefs(req.st)),
           LogicalOf(x.db, Sel.Dynamic) = SystemDatabase
    PROVE  x.exact /\ x.table \in SystemTableAllowlist
<1> DEFINE st == req.st
           refs == CollectObjectRefs(st)
<1>1. /\ ParsedStatement = st /\ ~PreflightTableReferences(st, text, Sel).handled
      /\ ~UnmodelledCommand(st, Sel)
  BY DynamicSuccess
<1>2. RefusedSystemRefs(st, Sel) = {} \/ NamesSIObject(st, Sel)
  BY <1>1, PreflightPassed DEF Dynamic
<1>3. ~RejectSystemTablesOnSuccess(st, Sel)
  BY <1>1, SuccessState DEF Behind
<1>4. RefusedSystemRefs(st, Sel) = {}
  BY <1>2, <1>3 DEF RejectSystemTablesOnSuccess, NamesSIObject
<1>5. PICK i \in DOMAIN refs : x = refs[i]
  BY DEF Range
<1>6. IsSystemDatabase(x.db, Sel.Dynamic.ctx)
  BY DEF IsSystemDatabase, LogicalOf
<1>7. ~(IsSystemDatabase(refs[i].db, Sel.Dynamic.ctx)
        /\ ~(refs[i].exact /\ SystemTableAllowed(refs[i].table)))
  BY <1>4 DEF RefusedSystemRefs
<1> HIDE DEF refs
<1> QED BY <1>5, <1>6, <1>7 DEF SystemTableAllowed

(* An unqualified target of a command resolves. *)
LEMMA CommandSlotsResolve ==
    ASSUME IInv, Behind, Succeeded, Dynamic, req.st.kind = "command", NEW r \in Range(req.st.slots)
    PROVE  ResolvePhysicalDatabase(LogicalOf(r.db, Sel.Dynamic), Sel.Dynamic).ok
<1> DEFINE st == req.st
<1>1. ParsedStatement = st /\ WellFormed(st) /\ Origin
  BY DynamicSuccess
<1>2. PICK i \in DOMAIN st.slots : r = st.slots[i]
  BY DEF Range
<1>3. st.slots # <<>>
  BY <1>2, EmptyDomain
<1>4. st.sub \notin {"use", "show", "object", "grant", "set"}
  BY <1>1, <1>3 DEF WellFormed
<1>5. ~DBLevel.handled
  BY <1>1, <1>4 DEF DBLevel, RewriteDBLevel, NotHandled
<1>6. ~Describe.handled /\ ~Exists.handled /\ ~Grant.handled
  BY <1>1, <1>4 DEF Describe, RewriteDescribe, Exists, RewriteExistsShowCreate, Grant, RewriteGrant, NotHandled
<1>7. ~ReadAnswer.handled
  BY <1>1 DEF ReadAnswer, IsReadRoot, NotHandled
<1>8. ~PassedOn
  BY <1>1, <1>4 DEF PassedOn, sessionSet
<1>9. Write.handled /\ Write.resp.Code = "Success"
  BY <1>1, <1>5, <1>6, <1>7, <1>8 DEF Origin, Later
<1>10. SlotsClear(st.slots, st.kind, Sel)
  BY <1>1, <1>9, WriteOrigin DEF Written
<1>11. Resolve(r.db, r.table, Sel).Status \notin {"Remote", "Invalid"}
  BY <1>2, <1>10 DEF SlotsClear, SlotRejects
<1>12. ApplyDynamic(r.db, r.table, Sel.Dynamic).Status \notin {"Remote", "Invalid"}
  BY <1>11 DEF Resolve, Dynamic
<1> QED BY <1>12 DEF ApplyDynamic, Invalid, Outcome

(* What a command names beside its targets and opaque text. *)
LEMMA CommandNamesCollected ==
    ASSUME IInv, Behind, Succeeded, Dynamic, req.st.kind = "command", NEW r \in CommandNames(req.st),
           r.table # NoTable
    PROVE  \/ \E e \in BOOLEAN : ObjectRef(r, e) \in Range(CommandObjectRefs(req.st))
           \/ ResolvePhysicalDatabase(LogicalOf(r.db, Sel.Dynamic), Sel.Dynamic).ok
<1> DEFINE st == req.st
           c == st.cmd
           a == Sel.Dynamic
           dyn == FindDynamicArgs(req.opts)
           h == dispatchShowTables(text, c, dyn)
           found == Range(CommandObjectRefs(st))
<1>1. /\ ParsedStatement = st /\ WellFormed(st) /\ Origin /\ dyn.found /\ dyn.args = a
      /\ ~UnmodelledCommand(st, Sel) /\ ~PreflightTableReferences(st, text, Sel).handled
  BY DynamicSuccess
<1>2. WellFormedCommand(st) /\ Sel.Mode = "dynamic"
  BY <1>1 DEF WellFormed, Dynamic
<1>3. ASSUME NEW db, NEW table PROVE Ref(db, table).db = db /\ Ref(db, table).table = table
  BY DEF Ref
<1>4. /\ st.sub \in {"show", "object"} =>
            \A i \in DOMAIN c.body : ObjectRef(c.body[i], TRUE) \in found
      /\ st.sub = "show" /\ c.hasTable /\ c.tableResolved => ObjectRef(Ref(c.db, c.table), TRUE) \in found
      /\ st.sub = "object" /\ c.objType # "DATABASE" /\ c.shape = "name" =>
            ObjectRef(Ref(c.db, c.table), TRUE) \in found
      /\ st.sub = "grant" /\ c.hasOn /\ c.db # "" => ObjectRef(Ref(c.db, c.table), ~c.allTables) \in found
  BY <1>1, CommandCollected
<1> DEFINE t == TRUE
           f == ~c.allTables
<1>5. t \in BOOLEAN /\ f \in BOOLEAN
  OBVIOUS
<1> HIDE DEF found
<1>6. CASE st.sub = "use"
  BY <1>3, <1>6 DEF CommandNames
<1>7. CASE st.sub = "show"
  <2>1. CASE \E i \in DOMAIN c.body : r = c.body[i]
    <3>1. ObjectRef(r, t) \in found
      BY <1>4, <1>7, <2>1
    <3> HIDE DEF t
    <3> QED BY <1>5, <3>1 DEF found
  <2>2. CASE ~\E i \in DOMAIN c.body : r = c.body[i]
    <3>1. c.hasTable /\ r = Ref(c.db, c.table)
      BY <1>3, <1>7, <2>2 DEF CommandNames
    <3>2. c.what \in ShowTargetBearing \ {"TABLES", "DATABASES"}
      BY <1>2, <1>7, <3>1 DEF WellFormedCommand, ShowTargetBearing
    <3>3. c.tableResolved \/ "identParam" \in st.marks \/ c.multiPart
      BY <1>2, <1>7, <3>1 DEF WellFormedCommand
    <3>4. "identParam" \notin st.marks
      BY <1>1, <1>2, PreflightPassed
    <3>5. h.handled /\ h.resp.Code = "Success"
      <4>1. ~PassedOn
        BY <1>1, <1>7 DEF PassedOn, sessionSet, Dynamic
      <4> QED BY <1>1, <1>7, <3>2, <4>1, ShowOrigin
    <3>6. ShowJudged(c, a, h.resp)
      BY <1>1, <3>2, <3>5, ShowKindsJudged
    <3>7. c.tableResolved
      BY <3>2, <3>3, <3>4, <3>6 DEF ShowJudged
    <3>8. ObjectRef(r, t) \in found
      BY <1>4, <1>7, <3>1, <3>7
    <3> HIDE DEF t
    <3> QED BY <1>5, <3>8 DEF found
  <2> QED BY <2>1, <2>2
<1>8. CASE st.sub = "object"
  <2>1. \/ \E i \in DOMAIN c.body : r = c.body[i]
        \/ c.objType # "DATABASE" /\ c.shape = "name" /\ r = Ref(c.db, c.table)
    BY <1>8 DEF CommandNames
  <2>2. ObjectRef(r, t) \in found
    BY <1>4, <1>8, <2>1
  <2> HIDE DEF t
  <2> QED BY <1>5, <2>2 DEF found
<1>9. CASE st.sub = "grant"
  <2>1. c.hasOn /\ r = Ref(c.db, c.table)
    BY <1>9 DEF CommandNames
  <2>2. CASE c.db # ""
    <3>1. ObjectRef(r, f) \in found
      BY <1>4, <1>9, <2>1, <2>2
    <3> HIDE DEF f
    <3> QED BY <1>5, <3>1 DEF found
  <2>3. CASE c.db = ""
    <3>1. Grant.handled /\ Grant.resp.Code = "Success"
      BY <1>1, <1>9, GrantAnswered
    <3>2. GrantTold(c, Sel, dyn, Grant.resp)
      BY <1>1, <3>1, GrantOrigin
    <3>3. c.structured /\ Made(c) = Len(c.privileges)
          /\ (Made(c) > 0 => ResolvePhysicalDatabase(LogicalOf(c.db, a), a).ok)
      BY <1>1, <3>1, <3>2 DEF GrantTold
    <3>4. c.privileges # <<>> /\ Len(c.privileges) \in Nat /\ DOMAIN c.privileges = 1..Len(c.privileges)
      BY <1>2, <1>9, <2>1, <3>3 DEF WellFormedCommand
    <3>5. Len(c.privileges) > 0
      BY <3>4
    <3> QED BY <1>3, <2>1, <3>3, <3>5
  <2> QED BY <2>2, <2>3
<1>10. st.sub \in {"use", "show", "object", "grant"}
  BY DEF CommandNames
<1> QED BY <1>6, <1>7, <1>8, <1>9, <1>10

(* Where the account maps no logical database `system`, no dynamic Success *)
(* names a system table outside the allowlist, wherever the statement has  *)
(* the name and whichever stage owns the check (CollectObjectRefs in       *)
(* internal/engine/systemrefs.go, systemtables.go, native.go 75-82).       *)
THEOREM SystemTablesStayClosed ==
    ASSUME \A r \in Requests : SystemUnmapped(r)
    PROVE  Spec => []SystemTablesRefused
<1>1. ASSUME IInv, Behind, Succeeded, Dynamic, NEW r \in AllNames(req.st), r.table # NoTable,
             LogicalOf(r.db, Sel.Dynamic) = SystemDatabase
      PROVE  r.table \in SystemTableAllowlist
  <2> DEFINE st == req.st
             a == Sel.Dynamic
             found == Range(CollectObjectRefs(st))
  <2>1. req \in Requests /\ WellFormed(st)
    BY <1>1, SuccessState
  <2>2. ~ResolvePhysicalDatabase(LogicalOf(r.db, a), a).ok
    BY <1>1, <2>1 DEF SystemUnmapped, Sel
  <2>3. st.ns = <<>> /\ st.exprReads = <<>>
    BY <1>1, AsidesNotPhysical
  <2>4. ASSUME NEW e, ObjectRef(r, e) \in found PROVE r.table \in SystemTableAllowlist
    <3> DEFINE x == ObjectRef(r, e)
    <3>1. x.db = r.db /\ x.table = r.table
      BY DEF ObjectRef
    <3> HIDE DEF x
    <3>2. x \in found /\ LogicalOf(x.db, a) = SystemDatabase
      BY <1>1, <2>4, <3>1 DEF x
    <3> QED BY <1>1, <3>1, <3>2, CollectedAllowed
  <2>5. /\ st.kind = "command" =>
              /\ Range(CommandObjectRefs(st)) \subseteq found
              /\ \A s \in Range(st.slots) \cup Range(st.opaque) :
                    s.table # NoTable /\ s.db # "" => ObjectRef(s, TRUE) \in found
        /\ st.kind # "command" =>
              \A s \in Range(AllWriteTargets(st)) \cup Range(st.reads) \cup Range(st.exprReads)
                       \cup Range(st.opaque) \cup Range(st.lookups) :
                 s.table # NoTable => ObjectRef(s, TRUE) \in found
    BY <2>1, <2>3, StatementCollected
  <2>6. /\ DOMAIN st.ns = {} /\ DOMAIN st.exprReads = {}
    BY <2>3, EmptyDomain
  <2>7. r \notin Range(st.exprReads) /\ ~\E i \in DOMAIN st.ns : r = Ref(st.ns[i].db, st.ns[i].table)
    BY <2>6 DEF Range
  <2> HIDE DEF found
  <2>8. CASE st.kind # "command"
    <3>1. \/ \E i \in DOMAIN AllWriteTargets(st) : r = AllWriteTargets(st)[i]
          \/ r \in Range(st.reads) \/ r \in Range(st.opaque)
          \/ \E i \in DOMAIN st.lookups : r = Ref(st.lookups[i].db, st.lookups[i].table)
      BY <1>1, <2>1, <2>7, <2>8, NamesOf
    <3>2. CASE r \in Range(AllWriteTargets(st)) \cup Range(st.reads) \cup Range(st.opaque)
      <4>1. ObjectRef(r, TRUE) \in found
        BY <1>1, <2>5, <2>8, <3>2
      <4> QED BY <2>4, <4>1
    <3>3. CASE \E i \in DOMAIN st.lookups : r = Ref(st.lookups[i].db, st.lookups[i].table)
      <4>1. PICK i \in DOMAIN st.lookups : r = Ref(st.lookups[i].db, st.lookups[i].table)
        BY <3>3
      <4> DEFINE l == st.lookups[i]
      <4>2. l \in Range(st.lookups) /\ r.db = l.db /\ r.table = l.table
        BY <4>1 DEF Range, Ref
      <4> HIDE DEF l
      <4>3. ObjectRef(l, TRUE) \in found
        BY <1>1, <2>5, <2>8, <4>2
      <4>4. ObjectRef(l, TRUE) = ObjectRef(r, TRUE)
        BY <4>2 DEF ObjectRef
      <4> QED BY <2>4, <4>3, <4>4
    <3> QED BY <3>1, <3>2, <3>3 DEF Range
  <2>9. CASE st.kind = "command"
    <3>1. st.reads = <<>> /\ st.cross = <<>> /\ \A i \in DOMAIN st.lookups : ~st.lookups[i].inBody
      BY <2>1, <2>9 DEF WellFormed
    <3>2. DOMAIN st.lookups = {}
      <4>1. ~RefusedLookup(st)
        BY <1>1, DynamicSuccess, PreflightPassed DEF Dynamic
      <4> QED BY <3>1, <4>1 DEF RefusedLookup
    <3>3. DOMAIN st.reads = {}
      BY <3>1, EmptyDomain
    <3>4. CASE r \in CommandNames(st)
      <4>1. PICK e \in BOOLEAN : ObjectRef(r, e) \in Range(CommandObjectRefs(st))
        BY <1>1, <2>2, <2>9, <3>4, CommandNamesCollected
      <4>2. ObjectRef(r, e) \in found
        BY <2>5, <2>9, <4>1
      <4> QED BY <2>4, <4>2
    <3>5. CASE r \in Range(st.slots)
      BY <1>1, <2>2, <2>9, <3>5, CommandSlotsResolve
    <3>6. CASE r \in Range(st.opaque)
      <4>1. r.db # ""
        BY <2>1, <3>6 DEF WellFormed, Range
      <4>2. ObjectRef(r, TRUE) \in found
        BY <1>1, <2>5, <2>9, <3>6, <4>1
      <4> QED BY <2>4, <4>2
    <3>7. Range(AllWriteTargets(st)) = Range(st.slots)
      <4> DEFINE R == Refs
                 cross == st.cross
                 slots == st.slots
      <4>1. slots \in Seq(R) /\ cross \in Seq(R)
        BY <2>1 DEF WellFormed
      <4>2. AllWriteTargets(st) = slots \o cross /\ cross = <<>>
        BY <3>1 DEF AllWriteTargets
      <4> HIDE DEF R, cross, slots
      <4>3. Range(slots \o cross) = Range(slots) \cup Range(cross)
        BY <4>1, ConcatIn
      <4>4. DOMAIN cross = {}
        BY <4>2, EmptyDomain
      <4>5. Range(cross) = {}
        BY <4>4 DEF Range
      <4> QED BY <4>2, <4>3, <4>5 DEF slots
    <3>8. \/ r \in CommandNames(st)
          \/ \E i \in DOMAIN AllWriteTargets(st) : r = AllWriteTargets(st)[i]
          \/ r \in Range(st.opaque)
      BY <1>1, <2>1, <2>7, <3>2, <3>3, NamesOf DEF Range
    <3>9. (\E i \in DOMAIN AllWriteTargets(st) : r = AllWriteTargets(st)[i]) => r \in Range(st.slots)
      BY <3>7 DEF Range
    <3> QED BY <3>4, <3>5, <3>6, <3>8, <3>9
  <2> QED BY <2>8, <2>9
<1>2. IInv /\ Behind => SystemTablesRefused
  BY <1>1 DEF SystemTablesRefused
<1> QED BY <1>2, Provenance, PTL

---------------------------------------------------------------------------
(* What a refusal reveals.  The two refusals that must reveal no name come *)
(* from the check of system tables and from the SELECT pipeline; every     *)
(* other answer is of another kind.                                        *)

Telling == {"unresolvedUnqualified", "systemTable"}

NoMaps(q) == q.TableRewrites = EmptyMap /\ q.DatabaseRewrites = EmptyMap /\ q.PrivilegesDeltas = <<>>

(* An answer of another kind. *)
Open(q) == DOMAIN q = Fields /\ q.Message \notin Telling

Discreet(q) == q.Message \in Telling => NoMaps(q)

(* What is recorded in an answer, or the code it is given, changes not its kind. *)
LEMMA OpenStays ==
    ASSUME NEW r, Open(r)
    PROVE  /\ Discreet(r)
           /\ \A x : /\ Open([r EXCEPT !.After = x]) /\ Open([r EXCEPT !.Accessed = x])
                     /\ Open([r EXCEPT !.DatabaseRewrites = x]) /\ Open([r EXCEPT !.Code = x])
           /\ \A x, y : /\ Open([r EXCEPT !.After = x, !.DatabaseRewrites = y])
                        /\ Open([r EXCEPT !.Accessed = x, !.TableRewrites = y])
                        /\ Open([r EXCEPT !.TableRewrites = x, !.Accessed = y])
                        /\ Open([r EXCEPT !.TableRewrites = x, !.After = y])
  BY DEF Open, Discreet, Fields

LEMMA OpenRejected ==
    ASSUME NEW r, DOMAIN r = Fields
    PROVE  /\ \A code, msg : /\ DOMAIN Rejected(r, code, msg) = Fields
                             /\ msg \notin Telling => Open(Rejected(r, code, msg))
           /\ \A code : Open(Refuse(r, code))
           /\ \A code, msg, x : msg \notin Telling =>
                 Open([Rejected(r, code, msg) EXCEPT !.Accessed = x])
           /\ \A t, msg, x : msg \notin Telling => Open(EchoRefusal(r, t, msg, x))
<1>1. \A code, msg : /\ DOMAIN Rejected(r, code, msg) = Fields
                     /\ msg \notin Telling => Open(Rejected(r, code, msg))
  BY DEF Rejected, Open, Fields
<1>2. "command" \notin Telling
  BY DEF Telling
<1>3. \A code : Open(Refuse(r, code))
  BY <1>1, <1>2 DEF Refuse
<1>4. \A code, msg, x : msg \notin Telling => Open([Rejected(r, code, msg) EXCEPT !.Accessed = x])
  BY <1>1, OpenStays
<1>5. \A t, msg, x : msg \notin Telling => Open(EchoRefusal(r, t, msg, x))
  BY DEF EchoRefusal, Rejected, Open, Fields
<1> QED BY <1>1, <1>3, <1>4, <1>5

LEMMA NewRespOpen ==
    ASSUME NEW stmt
    PROVE  /\ Open(newWriteResp(stmt)) /\ NoMaps(newWriteResp(stmt)) /\ DOMAIN newWriteResp(stmt) = Fields
           /\ \A x : Open([newWriteResp(stmt) EXCEPT !.Accessed = x])
  BY DEF newWriteResp, EmptyResponse, Open, NoMaps, Telling, Fields

LEMMA NamespacesOpen ==
    ASSUME NEW refs, NEW r, Open(r), NEW sel, NEW code
    PROVE  Open(rejectStorageIntegrityNamespaces(r, refs, sel, code))
<1>1. ASSUME NEW ref PROVE Open(NamespaceVerdict(ref, r, sel, code))
  <2>1. DOMAIN r = Fields /\ "siNamespace" \notin Telling /\ "siPhysical" \notin Telling
    BY DEF Open, Telling
  <2>2. ASSUME NEW c, NEW x
        PROVE  /\ Open([Rejected(r, c, "siNamespace") EXCEPT !.Accessed = x])
               /\ Open([Rejected(r, c, "siPhysical") EXCEPT !.Accessed = x])
    BY <2>1, OpenRejected
  <2> QED BY <2>2 DEF NamespaceVerdict
<1> QED BY <1>1 DEF rejectStorageIntegrityNamespaces

LEMMA UngovernedOpen ==
    ASSUME NEW r, Open(r), NEW st, NEW sel
    PROVE  Open(UngovernedResp(r, st, sel))
<1>1. DOMAIN r = Fields /\ "notSupported" \notin Telling /\ "siPhysical" \notin Telling
  BY DEF Open, Telling
<1>2. ASSUME NEW c, NEW x
      PROVE  /\ Open(Rejected(r, c, "notSupported"))
             /\ Open([Rejected(r, c, "siPhysical") EXCEPT !.Accessed = x])
  BY <1>1, OpenRejected
<1> QED BY <1>2 DEF UngovernedResp

(* The check of system tables clears the maps of what it refuses. *)
LEMMA SystemTableRevealsNone ==
    ASSUME NEW r, DOMAIN r = Fields, NEW st, NEW sel
    PROVE  LET q == rejectSystemTable(r, st, sel)
           IN  /\ DOMAIN q = Fields /\ NoMaps(q) /\ q.Message = "systemTable"
               /\ \A x : NoMaps([q EXCEPT !.After = x])
<1> DEFINE z == Rejected(r, "UnsupportedStatement", "systemTable")
<1>1. DOMAIN z = Fields /\ z.Message = "systemTable"
  BY DEF Rejected, Fields
<1> HIDE DEF z
<1>2. ASSUME NEW x
      PROVE  LET q == [z EXCEPT !.TableRewrites = EmptyMap, !.DatabaseRewrites = EmptyMap,
                                !.PrivilegesDeltas = <<>>, !.Accessed = x]
             IN  /\ DOMAIN q = Fields /\ NoMaps(q) /\ q.Message = "systemTable"
                 /\ \A y : NoMaps([q EXCEPT !.After = y])
  BY <1>1 DEF NoMaps, Fields
<1>3. PICK x : rejectSystemTable(r, st, sel) =
                  [z EXCEPT !.TableRewrites = EmptyMap, !.DatabaseRewrites = EmptyMap,
                            !.PrivilegesDeltas = <<>>, !.Accessed = x]
  <2> DEFINE f == FirstOf(CollectObjectRefs(st), RefusedSystemRefs(st, sel))
  <2>1. WITNESS IF f.table = NoTable THEN z.Accessed
                ELSE recordAccessedUnique(z.Accessed, Ref(SystemDatabase, f.table), sel)
  <2> QED BY DEF rejectSystemTable, z
<1> QED BY <1>2, <1>3

LEMMA PreflightDiscreet ==
    ASSUME NEW st, NEW t, NEW sel, PreflightTableReferences(st, t, sel).handled
    PROVE  Discreet(PreflightTableReferences(st, t, sel).resp)
<1> DEFINE r == newWriteResp("UNSPECIFIED")
<1>1. Open(r) /\ DOMAIN r = Fields
  BY NewRespOpen
<1>2. {"identifierParameter", "notSupported", "protected", "carrier", "lookup"} \cap Telling = {}
  BY DEF Telling
<1> HIDE DEF r
<1>3. ASSUME NEW q, Open(q) PROVE Discreet([q EXCEPT !.After = Echo(t)])
  BY <1>3, OpenStays
<1>4. ASSUME NEW code, NEW msg \in {"identifierParameter", "notSupported", "protected", "carrier", "lookup"}
      PROVE  /\ Open(Rejected(r, code, msg))
             /\ \A x : Open([Rejected(r, code, msg) EXCEPT !.Accessed = x])
  BY <1>1, <1>2, OpenRejected
<1>5. Open(UngovernedResp(r, st, sel))
  BY <1>1, UngovernedOpen
<1>6. Discreet([rejectSystemTable(r, st, sel) EXCEPT !.After = Echo(t)])
  BY <1>1, SystemTableRevealsNone DEF Discreet
<1> QED BY <1>3, <1>4, <1>5, <1>6 DEF PreflightTableReferences, NotHandled, Handled, r

(* The SELECT pipeline refuses for an unresolved name and no system table. *)
LEMMA VerdictKind ==
    ASSUME NEW st, NEW sel, NEW ts, NEW r, Open(r), r.Message # "unresolvedUnqualified"
    PROVE  LET q == SelectVerdict(st, sel, ts, r)
           IN  /\ DOMAIN q = Fields
               /\ Open(q) \/ (q.Message = "unresolvedUnqualified" /\ q.Code # "Success")
<1> DEFINE looked == IF sel.Mode = "dynamic" THEN ArgumentRefs(BodyLookups(st)) ELSE <<>>
           final == [r EXCEPT
                       !.TableRewrites = recordRewrite(@, TableMoves(looked \o ts, sel)),
                       !.Accessed = recordAccessed(@, {looked[i] : i \in DOMAIN looked}, sel)]
           Fit(q) == /\ DOMAIN q = Fields
                     /\ Open(q) \/ (q.Message = "unresolvedUnqualified" /\ q.Code # "Success")
<1>1. DOMAIN r = Fields
  BY DEF Open
<1>2. Open(rejectStorageIntegrityNamespaces(r, st.ns, sel, "RewriteError"))
  BY NamespacesOpen
<1>3. Open(UngovernedResp(r, st, sel))
  BY UngovernedOpen
<1>4. {"carrier", "siPhysical", "siUnauthorized", "siModifier", "lookup"} \cap Telling = {}
  BY DEF Telling
<1>5. ASSUME NEW code, NEW msg \in {"carrier", "siPhysical", "siUnauthorized", "siModifier", "lookup"}
      PROVE  Open(Rejected(r, code, msg))
  BY <1>1, <1>4, OpenRejected
<1>6. Open(final)
  BY OpenStays
<1> HIDE DEF final
<1>7. Fit(Rejected(final, "InvalidRewriteRequest", "unresolvedUnqualified"))
  BY <1>6 DEF Rejected, Open, Fields
<1>8. ASSUME NEW x PROVE Open([final EXCEPT !.After = x])
  BY <1>6, OpenStays
<1>9. ASSUME NEW q, Open(q) PROVE Fit(q)
  BY <1>9 DEF Open
<1> HIDE DEF Fit
<1>10. Fit(SelectVerdict(st, sel, ts, r))
  BY <1>2, <1>3, <1>5, <1>7, <1>8, <1>9 DEF SelectVerdict, final
<1> QED BY <1>10 DEF Fit

LEMMA SelectKind ==
    ASSUME NEW st, NEW opts
    PROVE  LET q == rewriteSelectCore(st, opts)
           IN  /\ DOMAIN q = Fields
               /\ Open(q) \/ (q.Message = "unresolvedUnqualified" /\ q.Code # "Success")
<1>1. ASSUME NEW x, NEW y
      PROVE  LET q == [SelectResponse EXCEPT !.FailedCTE = x, !.Accessed = y]
             IN  Open(q) /\ q.Message # "unresolvedUnqualified"
  BY DEF SelectResponse, newWriteResp, EmptyResponse, Open, Telling, Fields
<1> DEFINE sel == FindActive(opts)
           ts  == SelectTables(st, opts)
           r   == [SelectResponse EXCEPT
                     !.FailedCTE = FailedCteAliases(opts),
                     !.Accessed  = recordAccessed(@, {Ref(ts[i].db, ts[i].table) : i \in DOMAIN ts}, sel)]
<1>2. Open(r) /\ r.Message # "unresolvedUnqualified"
  BY <1>1
<1>3. rewriteSelectCore(st, opts) = SelectVerdict(st, sel, ts, r)
  BY DEF rewriteSelectCore, SelectOnTables
<1> HIDE DEF sel, ts, r
<1> QED BY <1>2, <1>3, VerdictKind

(* What clearOnUnresolved leaves of a refusal of the SELECT pipeline. *)
LEMMA ClearedDiscreet ==
    ASSUME NEW q, DOMAIN q = Fields, q.DatabaseRewrites = EmptyMap, q.PrivilegesDeltas = <<>>,
           q.Message = "unresolvedUnqualified" /\ q.Code # "Success"
    PROVE  Discreet(clearOnUnresolved(q))
  BY DEF clearOnUnresolved, Discreet, NoMaps, Fields

LEMMA SelectDiscreet ==
    ASSUME NEW st, NEW opts
    PROVE  Discreet(RewriteSelect(st, opts))
<1> DEFINE q == rewriteSelectCore(st, opts)
<1>1. DOMAIN q = Fields /\ (Open(q) \/ (q.Message = "unresolvedUnqualified" /\ q.Code # "Success"))
  BY SelectKind
<1>2. q.PrivilegesDeltas = <<>> /\ (q.Code # "Success" => q.DatabaseRewrites = EmptyMap)
  <2>1. PlainAnswer(q, "caller")
    BY SelectCoreAnswers
  <2> QED BY <2>1 DEF PlainAnswer
<1> HIDE DEF q
<1>3. CASE Open(q)
  BY <1>3 DEF clearOnUnresolved, Open, Discreet, Telling, RewriteSelect, q
<1>4. CASE ~Open(q)
  <2>1. Discreet(clearOnUnresolved(q))
    BY <1>1, <1>2, <1>4, ClearedDiscreet
  <2> QED BY <2>1 DEF RewriteSelect, q
<1> QED BY <1>3, <1>4

---------------------------------------------------------------------------
(* The write pipeline. *)

LEMMA FirstRefusalOpen ==
    ASSUME NEW targets, NEW r, Open(r), NEW sel, NEW allow
    PROVE  Open(FirstRefusal(targets, r, sel, allow))
<1>1. DOMAIN r = Fields /\ {"siPhysical", "siUnauthorized", "siWrite"} \cap Telling = {}
  BY DEF Open, Telling
<1>2. ASSUME NEW code, NEW msg \in {"siPhysical", "siUnauthorized", "siWrite"}, NEW x
      PROVE  Open([Rejected(r, code, msg) EXCEPT !.Accessed = x])
  BY <1>1, OpenRejected
<1>3. ASSUME NEW tt PROVE Open(inspectTarget(tt, r, sel, allow))
  BY <1>2 DEF inspectTarget
<1> QED BY <1>3 DEF FirstRefusal

LEMMA SIWriteOpen ==
    ASSUME NEW st, NEW sel, NEW siDrop
    PROVE  Open(preflightStorageIntegrityWrite(st, sel, siDrop))
<1> DEFINE r == newWriteResp("UNSPECIFIED")
<1>1. Open(r) /\ DOMAIN r = Fields
  BY NewRespOpen
<1> HIDE DEF r
<1>2. ASSUME NEW targets, NEW allow PROVE Open(FirstRefusal(targets, r, sel, allow))
  BY <1>1, FirstRefusalOpen
<1>3. ASSUME NEW refs PROVE Open(rejectStorageIntegrityNamespaces(r, refs, sel, "UnsupportedStatement"))
  BY <1>1, NamespacesOpen
<1>4. {"notSupported", "carrier"} \cap Telling = {}
  BY DEF Telling
<1>5. ASSUME NEW msg \in {"notSupported", "carrier"} PROVE Open(Rejected(r, "UnsupportedStatement", msg))
  BY <1>1, <1>4, OpenRejected
<1>6. Open(UngovernedResp(r, st, sel))
  BY <1>1, UngovernedOpen
<1> QED BY <1>1, <1>2, <1>3, <1>5, <1>6 DEF preflightStorageIntegrityWrite, r

LEMMA SlotsOpen ==
    ASSUME NEW slots, NEW kind, NEW sel, NEW r, Open(r)
    PROVE  Open(applyStructuredSlots(slots, kind, sel, r))
<1>1. ASSUME NEW x, NEW y PROVE Open([r EXCEPT !.Accessed = x, !.TableRewrites = y])
  BY OpenStays
<1>2. ASSUME NEW tt, NEW q, Open(q) PROVE Open(decideWriteTarget(tt, kind, sel, q))
  <2>1. DOMAIN q = Fields
    BY <1>2 DEF Open
  <2>2. Resolve(tt.db, tt.table, sel).RejectReason \notin Telling
    <3>1. LookupStatic(tt.db, tt.table, sel.Static).RejectReason = ""
      BY DEF LookupStatic, Outcome, Passthrough
    <3>2. ApplyDynamic(tt.db, tt.table, sel.Dynamic).RejectReason
             \in {"", "noContext", "protected", "unmapped", "noUpstream"}
      BY DEF ApplyDynamic, Outcome, Invalid
    <3> QED BY <3>1, <3>2 DEF Resolve, Outcome, Passthrough, Telling
  <2>3. "siWrite" \notin Telling /\ "remoteTarget" \notin Telling
    BY DEF Telling
  <2> QED BY <2>1, <2>2, <2>3, OpenRejected DEF decideWriteTarget
<1> QED BY <1>1, <1>2 DEF applyStructuredSlots

LEMMA BareOpen ==
    ASSUME NEW stmt, NEW t
    PROVE  Open(Bare(stmt)) /\ Open(NotSupported(stmt, t))
<1>1. {"bareReject", "notSupported"} \cap Telling = {}
  BY DEF Telling
<1>2. ASSUME NEW msg \in {"bareReject", "notSupported"}
      PROVE  Open(Rejected(newWriteResp(stmt), "UnsupportedStatement", msg))
  BY <1>1, NewRespOpen, OpenRejected
<1> QED BY <1>2, OpenStays DEF Bare, NotSupported

LEMMA FinishOpen ==
    ASSUME NEW st, NEW sel, NEW stmt
    PROVE  Open(finishStructured(st, sel, newWriteResp(stmt)))
<1> DEFINE r == applyStructuredSlots(st.slots, st.kind, sel, newWriteResp(stmt))
<1>1. Open(r)
  BY NewRespOpen, SlotsOpen
<1> HIDE DEF r
<1>2. \A x : Open([r EXCEPT !.After = x])
  BY <1>1, OpenStays
<1> QED BY <1>1, <1>2 DEF finishStructured, r

(* A body refused for an unresolved name takes the map with it. *)
LEMMA EmbeddedDiscreet ==
    ASSUME NEW st, NEW body, NEW sel, NEW stmt, NEW refuse, PlainAnswer(body, "caller"),
           Open(body) \/ (body.Message = "unresolvedUnqualified" /\ body.Code # "Success")
    PROVE  Discreet(rewriteEmbeddedBody(st, body, sel,
                       applyStructuredSlots(st.slots, st.kind, sel, newWriteResp(stmt)), refuse))
<1> DEFINE slots == applyStructuredSlots(st.slots, st.kind, sel, newWriteResp(stmt))
           merged == mergeViewBody(slots, body)
           code == IF st.kind = "create_view" THEN body.Code ELSE "UnsupportedStatement"
           last == Rejected(merged, code, body.Message)
<1>1. Open(slots) /\ Blank(slots)
  BY NewRespOpen, SlotsOpen, NewRespBlank, SlotsBlank
<1> HIDE DEF slots
<1>2. Open(merged) /\ DOMAIN merged = Fields
      /\ merged.DatabaseRewrites = EmptyMap /\ merged.PrivilegesDeltas = <<>>
  BY <1>1 DEF mergeViewBody, Open, Blank, Fields
<1> HIDE DEF merged
<1>3. "siWrite" \notin Telling
  BY DEF Telling
<1>4. /\ Discreet(slots) /\ Discreet(Rejected(merged, "UnsupportedStatement", "siWrite"))
      /\ \A x : Discreet([slots EXCEPT !.After = x]) /\ Discreet([merged EXCEPT !.After = x])
  <2>1. Open(Rejected(merged, "UnsupportedStatement", "siWrite"))
    BY <1>2, <1>3, OpenRejected
  <2> QED BY <1>1, <1>2, <2>1, OpenStays
<1>5. ASSUME body.Code # "Success" PROVE Discreet(clearOnUnresolved(last))
  <2>1. /\ DOMAIN last = Fields /\ last.Message = body.Message /\ last.Code # "Success"
        /\ last.DatabaseRewrites = EmptyMap /\ last.PrivilegesDeltas = <<>>
    BY <1>2, <1>5 DEF Rejected, Fields
  <2> HIDE DEF last
  <2>2. CASE Open(body)
    <3>1. last.Message \notin Telling
      BY <2>1, <2>2 DEF Open
    <3> QED BY <3>1 DEF clearOnUnresolved, Discreet, Telling
  <2>3. CASE body.Message = "unresolvedUnqualified" /\ body.Code # "Success"
    BY <2>1, <2>3, ClearedDiscreet
  <2> QED BY <2>2, <2>3
<1> QED BY <1>4, <1>5 DEF rewriteEmbeddedBody, embedBody, slots, merged

LEMMA WriteDiscreet ==
    ASSUME NEW st, NEW t, NEW opts, RewriteWrite(st, t, opts).handled
    PROVE  Discreet(RewriteWrite(st, t, opts).resp)
<1> DEFINE sel == FindActive(opts)
           siDrop == storageIntegrityDropAllowed(st, sel)
           si == preflightStorageIntegrityWrite(st, sel, siDrop)
           body == rewriteSelectCore(st, opts)
           w == DispatchWrite(st, t, sel, siDrop, si, body)
           Kind(q) == PlainAnswer(q, "caller")
                      /\ (Open(q) \/ (q.Message = "unresolvedUnqualified" /\ q.Code # "Success"))
<1>1. RewriteWrite(st, t, opts) = w
  BY DEF RewriteWrite, WriteUnder
<1>2. Discreet(si)
  BY SIWriteOpen, OpenStays
<1>3. Kind(body)
  BY SelectCoreAnswers, SelectKind
<1>4. ASSUME NEW stmt, NEW refuse
      PROVE  Discreet(rewriteEmbeddedBody(st, body, sel,
                         applyStructuredSlots(st.slots, st.kind, sel, newWriteResp(stmt)), refuse))
  BY <1>3, EmbeddedDiscreet
<1>5. ASSUME NEW stmt
      PROVE  /\ Discreet(Bare(stmt)) /\ Discreet(NotSupported(stmt, t))
             /\ Discreet(finishStructured(st, sel, newWriteResp(stmt)))
  BY BareOpen, FinishOpen, OpenStays
<1> HIDE DEF sel, siDrop, si, body
<1>6. CASE si.Code # "Success"
  BY <1>1, <1>2, <1>6 DEF DispatchWrite, Handled
<1>7. CASE si.Code = "Success" /\ st.kind = "create_table"
  <2>1. Discreet(dispatchCreateTable(st, t, sel, body))
    BY <1>4, <1>5 DEF dispatchCreateTable
  <2> QED BY <1>1, <1>7, <2>1 DEF DispatchWrite, Handled
<1>8. CASE si.Code = "Success" /\ st.kind \in {"drop_table", "drop_view", "truncate"}
  <2>1. Discreet(dispatchDropLike(st, sel, siDrop))
    BY <1>5 DEF dispatchDropLike
  <2>2. w = Handled(dispatchDropLike(st, sel, siDrop))
    BY <1>8, Zenon DEF DispatchWrite
  <2> QED BY <1>1, <2>1, <2>2 DEF Handled
<1>9. CASE si.Code = "Success" /\ st.kind = "alter_table"
  <2>1. Discreet(dispatchAlter(st, sel))
    BY <1>5 DEF dispatchAlter
  <2> QED BY <1>1, <1>9, <2>1 DEF DispatchWrite, Handled
<1>10. CASE si.Code = "Success" /\ st.kind \in {"update", "delete"}
  <2>1. Discreet(finishStructured(st, sel, newWriteResp(st.kind)))
    BY <1>5
  <2> QED BY <1>1, <1>10, <2>1 DEF DispatchWrite, Handled
<1>11. CASE si.Code = "Success" /\ st.kind = "create_view"
  <2>1. Discreet(dispatchView(st, t, sel, body))
    BY <1>4, <1>5 DEF dispatchView
  <2> QED BY <1>1, <1>11, <2>1 DEF DispatchWrite, Handled
<1>12. CASE si.Code = "Success" /\ st.kind = "insert"
  <2>1. Discreet(dispatchInsert(st, t, sel, body))
    BY <1>4, <1>5 DEF dispatchInsert
  <2> QED BY <1>1, <1>12, <2>1 DEF DispatchWrite, Handled
<1>13. CASE si.Code = "Success" /\ st.kind = "command"
  <2>1. Discreet(dispatchRawTables(st, t, sel))
    BY <1>5 DEF dispatchRawTables
  <2>2. ASSUME NEW msg \in {"siUnmodelled", "notSupported"}, NEW x
        PROVE  Discreet([Rejected(newWriteResp("UNSPECIFIED"), "UnsupportedStatement", msg)
                            EXCEPT !.Accessed = x])
    <3>1. {"siUnmodelled", "notSupported"} \cap Telling = {}
      BY DEF Telling
    <3> QED BY <3>1, NewRespOpen, OpenRejected, OpenStays
  <2>3. dispatchCommand(st, t, sel).handled => Discreet(dispatchCommand(st, t, sel).resp)
    BY <2>1, <2>2 DEF dispatchCommand, Handled, NotHandled
  <2> QED BY <1>1, <1>13, <2>3 DEF DispatchWrite
<1>14. CASE si.Code = "Success" /\ st.kind \in {"raw", "copy"}
  BY <1>1, <1>5, <1>14 DEF DispatchWrite, dispatchRawReject, Handled, NotHandled
<1>15. CASE si.Code = "Success" /\ st.kind \notin {"create_table", "drop_table", "drop_view",
               "truncate", "alter_table", "update", "delete", "create_view", "insert",
               "command", "raw", "copy"}
  <2>1. w = NotHandled
    BY <1>15, SMTT(60) DEF DispatchWrite
  <2> QED BY <1>1, <2>1 DEF NotHandled
<1> QED BY <1>6, <1>7, <1>8, <1>9, <1>10, <1>11, <1>12, <1>13, <1>14, <1>15

---------------------------------------------------------------------------
(* The later handlers: only SHOW answers for a system table, on a response *)
(* nothing is recorded in.                                                 *)

HandlerMessages == {"command", "siPhysical", "protected", "siUnmodelled", "siNamespace",
                    "notSupported", "siUnauthorized", "siWrite"}

LEMMA HandlerRefusals ==
    ASSUME NEW r, DOMAIN r = Fields
    PROVE  /\ \A code : Discreet(Refuse(r, code)) /\ Open(Refuse(r, code))
           /\ \A code, x : \A msg \in HandlerMessages :
                 /\ Open(Rejected(r, code, msg)) /\ Discreet(Rejected(r, code, msg))
                 /\ Open([Rejected(r, code, msg) EXCEPT !.Accessed = x])
                 /\ Discreet([Rejected(r, code, msg) EXCEPT !.Accessed = x])
           /\ \A t, x, code : \A msg \in HandlerMessages :
                 /\ Open(EchoRefusal(r, t, msg, x)) /\ Discreet(EchoRefusal(r, t, msg, x))
                 /\ Open([EchoRefusal(r, t, msg, x) EXCEPT !.Code = code])
<1>1. HandlerMessages \cap Telling = {}
  BY DEF HandlerMessages, Telling
<1>2. \A q : Open(q) => Discreet(q) /\ \A code : Open([q EXCEPT !.Code = code])
  BY OpenStays
<1> QED BY <1>1, <1>2, OpenRejected

LEMMA UseDiscreet == ASSUME NEW c, NEW dyn PROVE Discreet(dispatchUse(c, dyn))
<1> DEFINE r == newWriteResp("use")
           seen == [r EXCEPT !.Accessed = recordAccessedDatabase(@, c.db, dyn.args)]
<1>1. /\ Open(r) /\ DOMAIN r = Fields
      /\ \A x : Discreet([r EXCEPT !.After = x])
      /\ \A x, y : Discreet([r EXCEPT !.After = x, !.DatabaseRewrites = y])
  BY NewRespOpen, OpenStays
<1> HIDE DEF r
<1>2. Open(seen) /\ DOMAIN seen = Fields
  BY <1>1, OpenStays DEF Open
<1> HIDE DEF seen
<1>3. \A msg \in {"siPhysical", "protected"} : \A code : Discreet(Rejected(seen, code, msg))
  BY <1>2, HandlerRefusals DEF HandlerMessages
<1>4. \A code : Discreet(Refuse(r, code))
  BY <1>1, HandlerRefusals
<1> QED BY <1>1, <1>3, <1>4 DEF dispatchUse, r, seen

LEMMA DatabaseDiscreet ==
    ASSUME NEW st, NEW dyn
    PROVE  Discreet(dispatchCreateDatabase(st, dyn)) /\ Discreet(dispatchDropDatabase(st, dyn))
<1>1. ASSUME NEW stmt, NEW x
      PROVE  LET r == newWriteResp(stmt)
                 seen == [r EXCEPT !.Accessed = x]
             IN  /\ \A code : Discreet(Refuse(r, code)) /\ Discreet(Refuse(seen, code))
                 /\ \A code : Discreet(Rejected(seen, code, "siPhysical"))
                 /\ Discreet(MarkerSelect(seen))
                 /\ \A y : Discreet(MarkerSelect([seen EXCEPT !.DatabaseRewrites = y]))
  <2> DEFINE r == newWriteResp(stmt)
             seen == [r EXCEPT !.Accessed = x]
  <2>1. Open(r) /\ DOMAIN r = Fields /\ Open(seen)
    BY NewRespOpen
  <2> HIDE DEF seen, r
  <2>2. DOMAIN seen = Fields
    BY <2>1 DEF Open
  <2>3. Discreet(MarkerSelect(seen)) /\ \A y : Discreet(MarkerSelect([seen EXCEPT !.DatabaseRewrites = y]))
    BY <2>1, OpenStays DEF MarkerSelect
  <2>4. \A code : Discreet(Rejected(seen, code, "siPhysical"))
    BY <2>2, HandlerRefusals DEF HandlerMessages
  <2> QED BY <2>1, <2>2, <2>3, <2>4, HandlerRefusals DEF seen, r
<1>2. Discreet(dispatchCreateDatabase(st, dyn))
  BY <1>1 DEF dispatchCreateDatabase
<1>3. Discreet(dispatchDropDatabase(st, dyn))
  BY <1>1 DEF dispatchDropDatabase
<1> QED BY <1>2, <1>3

LEMMA ShowTablesDiscreet ==
    ASSUME NEW t, NEW c, NEW dyn, dispatchShowTables(t, c, dyn).handled
    PROVE  Discreet(dispatchShowTables(t, c, dyn).resp)
<1> DEFINE r == newWriteResp("show_tables")
<1>1. Open(r) /\ NoMaps(r) /\ DOMAIN r = Fields
  BY NewRespOpen
<1> HIDE DEF r
<1>2. ASSUME NEW x PROVE Discreet(EchoRefusal(r, t, "systemTable", x))
  BY <1>1 DEF EchoRefusal, Rejected, Discreet, NoMaps, Fields
<1>3. ASSUME NEW x, NEW msg \in {"siPhysical", "siUnmodelled", "siNamespace", "notSupported"}, NEW code
      PROVE  /\ Discreet(EchoRefusal(r, t, msg, x))
             /\ Discreet([EchoRefusal(r, t, msg, x) EXCEPT !.Code = code])
  <2>1. msg \in HandlerMessages
    BY DEF HandlerMessages
  <2>2. Open([EchoRefusal(r, t, msg, x) EXCEPT !.Code = code])
    BY <1>1, <2>1, HandlerRefusals
  <2> QED BY <1>1, <2>1, <2>2, HandlerRefusals, OpenStays
<1>4. \A x : Discreet(Forward(r, x))
  BY <1>1, OpenStays DEF Forward
<1>5. \A a : Discreet(rejectShowTargetStorageIntegrityNamespace(r, t, c, a))
  BY <1>1, <1>3, OpenStays DEF rejectShowTargetStorageIntegrityNamespace
<1>6. \A a : Discreet(showBodyRejection(r, t, c, a))
  BY <1>1, <1>3, OpenStays DEF showBodyRejection
<1>7. \A a : Discreet(dispatchShowUnqualifiedTable(r, t, c, a))
  <2>1. TAKE a
  <2> DEFINE q == applyStructuredSlots(<<Ref("", c.table)>>, "show", Selection("dynamic", NoStatic, a), r)
  <2>2. Open(q)
    BY <1>1, SlotsOpen
  <2> HIDE DEF q
  <2>3. \A x : Discreet([q EXCEPT !.After = x])
    BY <2>2, OpenStays
  <2> QED BY <2>3 DEF dispatchShowUnqualifiedTable, q
<1>8. \A a : Discreet(dispatchTargetBearing(r, t, c, a))
  BY <1>2, <1>3, <1>4, <1>5, <1>6, <1>7 DEF dispatchTargetBearing
<1>9. \A a : Discreet(dispatchTargetLess(r, t, c, a))
  BY <1>2, <1>4, <1>6 DEF dispatchTargetLess
<1>10. Discreet(dispatchUnknown(r, t, c))
  BY <1>2, <1>3, <1>4 DEF dispatchUnknown
<1>11. \A a : Discreet(dispatchEnumeration(r, t, c, a))
  <2>1. \A code : Discreet(Refuse(r, code))
    BY <1>1, HandlerRefusals
  <2>2. \A x : Discreet([Rejected(r, "UnsupportedStatement", "siPhysical") EXCEPT !.Accessed = x])
    BY <1>1, HandlerRefusals DEF HandlerMessages
  <2>3. \A x, y : Discreet([r EXCEPT !.After = x, !.DatabaseRewrites = y])
    BY <1>1, OpenStays
  <2> QED BY <1>3, <2>1, <2>2, <2>3 DEF dispatchEnumeration
<1> QED BY <1>4, <1>8, <1>9, <1>10, <1>11 DEF dispatchShowTables, Handled, NotHandled, r

LEMMA DBLevelDiscreet ==
    ASSUME NEW st, NEW t, NEW opts, RewriteDBLevel(st, t, opts).handled
    PROVE  Discreet(RewriteDBLevel(st, t, opts).resp)
<1> DEFINE dyn == FindDynamicArgs(opts)
<1> HIDE DEF dyn
<1>1. \A c : Discreet(dispatchShowDatabases(c, dyn))
  <2> DEFINE r == newWriteResp("show_databases")
  <2>1. Open(r) /\ DOMAIN r = Fields
    BY NewRespOpen
  <2> HIDE DEF r
  <2>2. \A code : Discreet(Refuse(r, code))
    BY <2>1, HandlerRefusals
  <2>3. \A x, y : Discreet([r EXCEPT !.After = x, !.DatabaseRewrites = y]) /\ Discreet(Forward(r, x))
    BY <2>1, OpenStays DEF Forward
  <2> QED BY <2>2, <2>3 DEF dispatchShowDatabases, r
<1>2. CASE st.kind \in {"create_database", "drop_database"}
  BY <1>2, DatabaseDiscreet DEF RewriteDBLevel, Handled, dyn
<1>3. CASE st.kind = "command" /\ st.sub = "use"
  BY <1>3, UseDiscreet DEF RewriteDBLevel, Handled, dyn
<1>4. CASE st.kind = "command" /\ st.sub = "show"
  BY <1>1, <1>4, ShowTablesDiscreet DEF RewriteDBLevel, Handled, dyn
<1>5. CASE /\ st.kind \notin {"create_database", "drop_database"}
           /\ ~(st.kind = "command" /\ st.sub \in {"use", "show"})
  BY <1>5 DEF RewriteDBLevel, NotHandled
<1> QED BY <1>2, <1>3, <1>4, <1>5

LEMMA ObjectOpen ==
    ASSUME NEW c, NEW sel, NEW r, Open(r)
    PROVE  Open(RewriteObject(c, sel, r)) /\ Open(rejectPhysicalObject(r, c, sel))
<1> DEFINE q == applyStructuredSlots(<<Ref(c.db, c.table)>>, c.verb, sel, r)
<1>1. Open(q)
  BY SlotsOpen
<1> HIDE DEF q
<1>2. DOMAIN q = Fields /\ DOMAIN r = Fields
  BY <1>1 DEF Open
<1>3. Open(Rejected(q, "UnsupportedStatement", "notSupported")) /\ \A x : Open([q EXCEPT !.After = x])
  BY <1>1, <1>2, HandlerRefusals, OpenStays DEF HandlerMessages
<1>4. \A x : Open([Rejected(r, "UnsupportedStatement", "siPhysical") EXCEPT !.Accessed = x])
  BY <1>2, HandlerRefusals DEF HandlerMessages
<1> QED BY <1>1, <1>3, <1>4 DEF RewriteObject, rejectPhysicalObject, q

LEMMA ObjectsOpen ==
    ASSUME NEW c, NEW sel
    PROVE  Open(DescribeTarget(c, sel)) /\ Open(ExistsTarget(c, sel))
<1>1. ASSUME NEW stmt
      PROVE  /\ Open(newWriteResp(stmt)) /\ Open(RewriteObject(c, sel, newWriteResp(stmt)))
             /\ Open(rejectPhysicalObject(newWriteResp(stmt), c, sel))
             /\ Open(Refuse(newWriteResp(stmt), "UnsupportedStatement"))
             /\ \A code : \A msg \in HandlerMessages : Open(Rejected(newWriteResp(stmt), code, msg))
  BY NewRespOpen, ObjectOpen, HandlerRefusals
<1>2. ASSUME NEW stmt, NEW x
      PROVE  LET seen == [newWriteResp(stmt) EXCEPT !.Accessed = x]
             IN  /\ Open(seen) /\ \A y : Open(Forward(seen, y)) /\ Open([seen EXCEPT !.After = y])
                 /\ \A y, z : Open([seen EXCEPT !.TableRewrites = y, !.After = z])
                 /\ \A code : \A msg \in HandlerMessages : Open(Rejected(seen, code, msg))
  <2> DEFINE seen == [newWriteResp(stmt) EXCEPT !.Accessed = x]
  <2>1. Open(seen)
    BY NewRespOpen
  <2> HIDE DEF seen
  <2>2. DOMAIN seen = Fields
    BY <2>1 DEF Open
  <2> QED BY <2>1, <2>2, OpenStays, HandlerRefusals DEF seen, Forward
<1>3. {"siPhysical", "siUnauthorized", "notSupported", "siUnmodelled"} \subseteq HandlerMessages
  BY DEF HandlerMessages
<1>4. Open(DescribeTable(c, sel))
  BY <1>1, <1>2, <1>3 DEF DescribeTable
<1>5. Open(ExistsTable(c, sel))
  BY <1>1, <1>2, <1>3 DEF ExistsTable
<1>6. Open(DescribeTarget(c, sel))
  BY <1>1, <1>3, <1>4 DEF DescribeTarget
<1>7. Open(ExistsTarget(c, sel))
  BY <1>1, <1>3, <1>5 DEF ExistsTarget
<1> QED BY <1>6, <1>7

LEMMA LaterDiscreet ==
    ASSUME NEW h \in {PreflightAnswer, Write} \cup Later, h.handled
    PROVE  Discreet(h.resp)
<1>1. CASE h = PreflightAnswer
  BY <1>1, PreflightDiscreet DEF PreflightAnswer
<1>2. CASE h = Write
  BY <1>2, WriteDiscreet DEF Write
<1>3. CASE h = DBLevel
  BY <1>3, DBLevelDiscreet DEF DBLevel
<1>4. CASE h = Describe
  BY <1>4, ObjectsOpen, OpenStays DEF Describe, RewriteDescribe, Handled, NotHandled
<1>5. CASE h = Exists
  BY <1>5, ObjectsOpen, OpenStays DEF Exists, RewriteExistsShowCreate, Handled, NotHandled
<1>6. CASE h = Grant
  <2>1. Discreet(Grant.resp)
    BY <1>6, GrantOrigin DEF GrantTold, Discreet, Telling
  <2> QED BY <1>6, <2>1
<1>7. CASE h = ReadAnswer
  BY <1>7, SelectDiscreet DEF ReadAnswer, Handled, NotHandled
<1> QED BY <1>1, <1>2, <1>3, <1>4, <1>5, <1>6, <1>7 DEF Later

(* The inductive invariant: while the call works nothing is recorded, and  *)
(* what it answers in the end reveals no name.                             *)
Guarded ==
    /\ pc \in Working => resp.Message \notin Telling
    /\ pc \in Gates \cup {"restore", "done"} => Discreet(resp)

LEMMA FinalizeDiscreet ==
    ASSUME NEW r, DOMAIN r = Fields, Discreet(r), Finalize(r)
    PROVE  Guarded'
<1>1. {"siWrite", "siPhysical"} \cap Telling = {}
  BY DEF Telling
<1>2. /\ resp'.TableRewrites = r.TableRewrites /\ resp'.DatabaseRewrites = r.DatabaseRewrites
      /\ resp'.PrivilegesDeltas = r.PrivilegesDeltas
      /\ resp'.Message \in {r.Message, "siWrite", "siPhysical"}
      /\ pc' \in {"systemGate", "restore"}
  BY FinalizeSends
<1>3. Discreet(resp)'
  BY <1>1, <1>2 DEF Discreet, NoMaps
<1> QED BY <1>2, <1>3 DEF Guarded, Working

(* A gate that refuses for another reason. *)
LEMMA RefuseSuccessDiscreet ==
    ASSUME NEW r, DOMAIN r = Fields, NEW msg, msg \notin Telling, RefuseSuccess(r, msg)
    PROVE  Guarded'
<1> DEFINE q == [Rejected(r, "UnsupportedStatement", msg) EXCEPT !.After = Echo(text)]
<1>1. DOMAIN q = Fields /\ q.Message = msg
  BY DEF Rejected, Fields
<1>2. pc' = "restore" /\ resp' = Refused(q)
  BY DEF RefuseSuccess
<1> HIDE DEF q
<1>3. {"siWrite", "siPhysical"} \cap Telling = {}
  BY DEF Telling
<1>4. resp'.Message \notin Telling
  BY <1>1, <1>2, <1>3, RefusedKeeps
<1> QED BY <1>2, <1>4 DEF Guarded, Discreet, Working

LEMMA SealDiscreet ==
    ASSUME IInv, sealStorageIntegrityHandlerError
    PROVE  Guarded'
<1>1. CASE pc' = "goError"
  BY <1>1 DEF Guarded, Working, Gates
<1>2. CASE pc' # "goError"
  <2>1. PICK msg \in {"notSupported", "siUnmodelled"} :
           Finalize(Rejected(resp, "UnsupportedStatement", msg))
    BY <1>2 DEF sealStorageIntegrityHandlerError
  <2>2. {"notSupported", "siUnmodelled"} \cap Telling = {}
    BY DEF Telling
  <2>3. Open(Rejected(resp, "UnsupportedStatement", msg))
    BY <2>1, <2>2, OpenRejected DEF IInv, Carried
  <2> QED BY <2>1, <2>3, OpenStays, FinalizeDiscreet DEF Open
<1> QED BY <1>1, <1>2

LEMMA HandlerDiscreet ==
    ASSUME IInv, Guarded, NEW stage \in Working, NEW next \in Working, NEW h, Handler(stage, next, h, TRUE),
           h.handled => Discreet(h.resp) /\ DOMAIN h.resp = Fields
    PROVE  Guarded'
<1>1. pc = stage /\ pc \in Working
  BY DEF Handler
<1>2. CASE h.handled /\ Finalize(h.resp)
  BY <1>2, FinalizeDiscreet
<1>3. CASE ~h.handled /\ pc' = next /\ UNCHANGED resp
  BY <1>1, <1>3 DEF Guarded, Working, Gates
<1>4. CASE sealStorageIntegrityHandlerError
  BY <1>1, <1>4, SealDiscreet
<1> QED BY <1>2, <1>3, <1>4 DEF Handler

LEMMA HandlersDiscreet ==
    ASSUME IInv, Guarded,
           \/ RunPreflight \/ RunWrite \/ RunDBLevel \/ RunDescribe \/ RunExists \/ RunGrant \/ RunSelect
    PROVE  Guarded'
<1> DEFINE Fit(h) == h.handled => Discreet(h.resp) /\ DOMAIN h.resp = Fields
<1>1. \A h \in {PreflightAnswer, Write} \cup Later : h.handled => Discreet(h.resp)
  BY LaterDiscreet
<1>2. /\ PreflightAnswer.handled => DOMAIN PreflightAnswer.resp = Fields
      /\ Write.handled => DOMAIN Write.resp = Fields
      /\ DBLevel.handled => DOMAIN DBLevel.resp = Fields
  BY PreflightAnswers, WriteAnswers, DBLevelAnswers
     DEF PlainAnswer, Answers, PreflightAnswer, Write, DBLevel
<1>3. /\ Describe.handled => DOMAIN Describe.resp = Fields
      /\ Exists.handled => DOMAIN Exists.resp = Fields
      /\ Grant.handled => DOMAIN Grant.resp = Fields
  <2>1. \A t : Describe.handled => PlainAnswer(Describe.resp, t)
    BY DescribeAnswers DEF Describe
  <2>2. \A t : Exists.handled => PlainAnswer(Exists.resp, t)
    BY ExistsAnswers DEF Exists
  <2>3. \A t : Grant.handled => Answers(Grant.resp, t)
    BY GrantAnswers DEF Grant
  <2> QED BY <2>1, <2>2, <2>3 DEF PlainAnswer, Answers
<1>4. ReadAnswer.handled => DOMAIN ReadAnswer.resp = Fields
  <2>1. \A t : PlainAnswer(RewriteSelect(ParsedStatement, req.opts), t)
    BY SelectAnswers
  <2> QED BY <2>1 DEF ReadAnswer, Handled, NotHandled, PlainAnswer, Answers
<1>5. /\ Fit(PreflightAnswer) /\ Fit(Write) /\ Fit(DBLevel) /\ Fit(Describe) /\ Fit(Exists)
      /\ Fit(Grant) /\ Fit(ReadAnswer)
  BY <1>1, <1>2, <1>3, <1>4 DEF Later
<1>6. {"preflight", "write", "dblevel", "describe", "exists", "grant", "select", "tail"} \subseteq Working
  BY DEF Working
<1>7. CASE RunPreflight
  <2>1. Handler("preflight", "write", PreflightAnswer, TRUE)
    BY <1>7 DEF RunPreflight, Handler, PreflightAnswer
  <2> QED BY <1>5, <1>6, <2>1, HandlerDiscreet
<1>8. CASE RunWrite
  <2>1. Handler("write", "dblevel", Write, TRUE)
    BY <1>8 DEF RunWrite, Handler, Write
  <2> QED BY <1>5, <1>6, <2>1, HandlerDiscreet
<1>9. CASE RunDBLevel
  <2>1. Handler("dblevel", "describe", DBLevel, TRUE)
    BY <1>9 DEF RunDBLevel, Handler, DBLevel
  <2> QED BY <1>5, <1>6, <2>1, HandlerDiscreet
<1>10. CASE RunDescribe
  <2>1. Handler("describe", "exists", Describe, TRUE)
    BY <1>10 DEF RunDescribe, Handler, Describe
  <2> QED BY <1>5, <1>6, <2>1, HandlerDiscreet
<1>11. CASE RunExists
  <2>1. Handler("exists", "grant", Exists, TRUE)
    BY <1>11 DEF RunExists, Handler, Exists
  <2> QED BY <1>5, <1>6, <2>1, HandlerDiscreet
<1>12. CASE RunGrant
  <2>1. Handler("grant", "select", Grant, TRUE)
    BY <1>12 DEF RunGrant, Handler, Grant
  <2> QED BY <1>5, <1>6, <2>1, HandlerDiscreet
<1>13. CASE RunSelect
  <2>1. Handler("select", "tail", ReadAnswer, TRUE)
    BY <1>13 DEF RunSelect, Handler, ReadAnswer
  <2> QED BY <1>5, <1>6, <2>1, HandlerDiscreet
<1> QED BY <1>7, <1>8, <1>9, <1>10, <1>11, <1>12, <1>13

(* The other stages refuse for reasons of their own. *)
OtherMessages == {"badConfiguration", "syntax", "siUnmodelled", "notSupported", "success", ""}

LEMMA FinalizeOther ==
    ASSUME IInv, NEW msg \in OtherMessages, NEW code, Finalize(Rejected(resp, code, msg))
    PROVE  Guarded'
<1>1. msg \notin Telling
  BY DEF OtherMessages, Telling
<1>2. Open(Rejected(resp, code, msg))
  BY <1>1, OpenRejected DEF IInv, Carried
<1> QED BY <1>2, OpenStays, FinalizeDiscreet DEF Open

LEMMA StagesDiscreet ==
    ASSUME IInv, Guarded,
           ValidateRequest \/ ParseOne \/ ClassifyLiveView \/ CheckParsedInFull \/ PassThrough
    PROVE  Guarded'
<1>1. {"siUnmodelled", "notSupported"} \subseteq OtherMessages /\ OtherMessages \cap Telling = {}
  BY DEF OtherMessages, Telling
<1>2. CASE ValidateRequest
  <2>1. ASSUME NEW x
        PROVE  LET q == [EmptyResponse(Echo(text)) EXCEPT !.siv = x]
               IN  /\ q.Message \notin Telling
                   /\ Rejected(q, "InvalidRewriteRequest", "badConfiguration").Message \notin Telling
    BY DEF EmptyResponse, Rejected, Telling
  <2>2. resp'.Message \notin Telling
    BY <1>2, <2>1 DEF ValidateRequest
  <2> QED BY <2>2 DEF Guarded, Discreet
<1>3. CASE ParseOne
  <2>1. DOMAIN resp = Fields /\ pc = "parse" /\ resp.Message \notin Telling
    BY <1>3 DEF ParseOne, IInv, Carried, Guarded, Working
  <2>2. Rejected(resp, "SyntaxError", "syntax").Message \notin Telling
    BY <2>1 DEF Rejected, Telling, Fields
  <2>3. \A x : [resp EXCEPT !.StatementType = x].Message \notin Telling
    BY <2>1 DEF Fields
  <2>4. resp'.Message \notin Telling
    BY <1>3, <2>2, <2>3 DEF ParseOne
  <2> QED BY <2>4 DEF Guarded, Discreet
<1>4. CASE ClassifyLiveView
  BY <1>1, <1>4, FinalizeOther DEF ClassifyLiveView, Guarded, Working, Gates
<1>5. CASE CheckParsedInFull
  BY <1>1, <1>5, FinalizeOther DEF CheckParsedInFull, Guarded, Working, Gates
<1>6. CASE PassThrough
  <2> DEFINE passed == [resp EXCEPT !.Message = "success"]
  <2>1. Open(passed)
    BY DEF IInv, Carried, Open, Telling, Fields
  <2> HIDE DEF passed
  <2>2. \A x : Open([passed EXCEPT !.After = x])
    BY <2>1, OpenStays
  <2>3. ASSUME NEW q, Open(q), Finalize(q) PROVE Guarded'
    BY <2>3, OpenStays, FinalizeDiscreet DEF Open
  <2> QED BY <1>1, <1>6, <2>1, <2>2, <2>3, FinalizeOther DEF PassThrough, passed
<1> QED BY <1>2, <1>3, <1>4, <1>5, <1>6

LEMMA GatesDiscreet ==
    ASSUME IInv, Guarded, SystemTableGate \/ CheckRegenerated \/ FirstDeploymentIdentityName \/ Restore
    PROVE  Guarded'
<1>1. DOMAIN resp = Fields
  BY DEF IInv, Carried
<1>2. "siUnmodelled" \notin Telling /\ "notSupported" \notin Telling
  BY DEF Telling
<1>3. CASE SystemTableGate
  <2>1. CASE pc' = "regenerated" /\ UNCHANGED resp
    BY <1>3, <2>1 DEF SystemTableGate, Guarded, Gates, Working
  <2>2. CASE /\ pc' = "restore"
             /\ resp' = Refused([rejectSystemTable(resp, ParsedStatement, Sel) EXCEPT !.After = Echo(text)])
    <3> DEFINE q == [rejectSystemTable(resp, ParsedStatement, Sel) EXCEPT !.After = Echo(text)]
    <3>1. DOMAIN q = Fields /\ NoMaps(q)
      BY <1>1, SystemTableRevealsNone DEF Fields
    <3> HIDE DEF q
    <3>2. NoMaps(Refused(q))
      BY <3>1, RefusedKeeps DEF NoMaps
    <3> QED BY <2>2, <3>2 DEF Guarded, Discreet, NoMaps, Working, q
  <2>3. CASE RefuseSuccess([resp EXCEPT !.TableRewrites = EmptyMap, !.DatabaseRewrites = EmptyMap,
                                        !.PrivilegesDeltas = <<>>], "siUnmodelled")
    <3> DEFINE r == [resp EXCEPT !.TableRewrites = EmptyMap, !.DatabaseRewrites = EmptyMap,
                                 !.PrivilegesDeltas = <<>>]
    <3>1. DOMAIN r = Fields
      BY <1>1 DEF Fields
    <3> HIDE DEF r
    <3> QED BY <1>2, <2>3, <3>1, RefuseSuccessDiscreet DEF r
  <2> QED BY <1>3, <2>1, <2>2, <2>3 DEF SystemTableGate
<1>4. CASE CheckRegenerated
  <2>1. CASE pc' \in {"identity", "restore"} /\ UNCHANGED resp
    BY <1>4, <2>1 DEF CheckRegenerated, Guarded, Gates, Working
  <2>2. CASE RefuseSuccess(resp, "notSupported")
    BY <1>1, <1>2, <2>2, RefuseSuccessDiscreet
  <2> QED BY <1>4, <2>1, <2>2 DEF CheckRegenerated
<1>5. CASE FirstDeploymentIdentityName
  <2>1. CASE pc' = "restore" /\ UNCHANGED resp
    BY <1>5, <2>1 DEF FirstDeploymentIdentityName, Guarded, Gates, Working
  <2>2. CASE RefuseSuccess(resp, "notSupported")
    BY <1>1, <1>2, <2>2, RefuseSuccessDiscreet
  <2> QED BY <1>5, <2>1, <2>2 DEF FirstDeploymentIdentityName
<1>6. CASE Restore
  <2>1. pc = "restore" /\ Discreet(resp) /\ pc' \in {"done", "goError"}
    BY <1>6 DEF Restore, sealCreateTableEmpty, Guarded
  <2>2. CASE UNCHANGED resp \/ \E x : resp' = [resp EXCEPT !.After = x]
    <3>1. Discreet(resp')
      BY <1>1, <2>1, <2>2 DEF Discreet, NoMaps, Fields
    <3> QED BY <2>1, <3>1 DEF Guarded, Discreet, NoMaps, Working
  <2>3. CASE sealCreateTableEmpty
    <3>1. pc' = "done" => resp'.Message \notin Telling
      BY <2>3 DEF sealCreateTableEmpty, EmptyResponse, Telling
    <3> QED BY <2>1, <3>1 DEF Guarded, Discreet, Working, Gates
  <2> QED BY <1>6, <2>2, <2>3 DEF Restore
<1> QED BY <1>3, <1>4, <1>5, <1>6

LEMMA GuardedStays == ASSUME IInv, Guarded, [Next]_vars PROVE Guarded'
<1>1. ASSUME NEW r \in Requests, Call(r) PROVE Guarded'
  BY <1>1 DEF Call, Guarded, Working, Gates
<1>2. CASE NothingToStrip \/ StripViewComment \/ StripCreateTableEmpty
  BY <1>2 DEF NothingToStrip, StripViewComment, StripCreateTableEmpty, Guarded, Working, Gates
<1>3. CASE ValidateRequest \/ ParseOne \/ ClassifyLiveView \/ CheckParsedInFull \/ PassThrough
  BY <1>3, StagesDiscreet
<1>4. CASE \/ RunPreflight \/ RunWrite \/ RunDBLevel \/ RunDescribe \/ RunExists \/ RunGrant \/ RunSelect
  BY <1>4, HandlersDiscreet
<1>5. CASE SystemTableGate \/ CheckRegenerated \/ FirstDeploymentIdentityName \/ Restore
  BY <1>5, GatesDiscreet
<1>6. CASE Return
  BY <1>6 DEF Return, Guarded, Working, Gates
<1>7. CASE Close \/ UNCHANGED vars
  BY <1>7 DEF Close, vars, Guarded, Discreet, NoMaps
<1> QED BY <1>1, <1>2, <1>3, <1>4, <1>5, <1>6, <1>7 DEF Next, Step

(* No refusal that must not tell a physical name does, whichever handler   *)
(* or gate built it (clearOnUnresolved, rejectSystemTable).                *)
THEOREM RefusalsRevealNoMap == Spec => []RefusalRevealsNoMap
<1>1. Init => Guarded
  BY DEF Init, Guarded, Working, Gates
<1>2. IInv /\ Guarded /\ [Next]_vars => Guarded'
  BY GuardedStays
<1>3. Guarded => RefusalRevealsNoMap
  BY DEF Guarded, Discreet, NoMaps, Telling, RefusalRevealsNoMap, Finished
<1> QED BY <1>1, <1>2, <1>3, Invariance, PTL DEF Spec

---------------------------------------------------------------------------
(* Privilege deltas.                                                       *)

(* The deltas of a response, and those of the answer to the GRANT. *)
FromGrant(deltas) ==
    deltas = <<>> \/ (Grant.handled /\ deltas = Grant.resp.PrivilegesDeltas)

Granted == pc \in Gates \cup {"restore", "done"} => FromGrant(resp.PrivilegesDeltas)

LEMMA FinalizeGranted ==
    ASSUME NEW r, DOMAIN r = Fields, FromGrant(r.PrivilegesDeltas), UNCHANGED <<req, text>>, Finalize(r)
    PROVE  Granted'
<1>1. resp'.PrivilegesDeltas = r.PrivilegesDeltas
  BY FinalizeSends
<1>2. UNCHANGED Grant
  BY SameCall
<1> QED BY <1>1, <1>2 DEF Granted, FromGrant

LEMMA RefuseSuccessGranted ==
    ASSUME NEW r, DOMAIN r = Fields, FromGrant(r.PrivilegesDeltas), UNCHANGED <<req, text>>, NEW msg,
           RefuseSuccess(r, msg)
    PROVE  Granted'
<1> DEFINE q == [Rejected(r, "UnsupportedStatement", msg) EXCEPT !.After = Echo(text)]
<1>1. DOMAIN q = Fields /\ q.PrivilegesDeltas = r.PrivilegesDeltas
  BY DEF Rejected, Fields
<1>2. resp' = Refused(q)
  BY DEF RefuseSuccess
<1> HIDE DEF q
<1>3. resp'.PrivilegesDeltas = r.PrivilegesDeltas
  BY <1>1, <1>2, RefusedKeeps
<1>4. UNCHANGED Grant
  BY SameCall
<1> QED BY <1>3, <1>4 DEF Granted, FromGrant

LEMMA SealGranted ==
    ASSUME IInv, Behind, pc \in Working, UNCHANGED <<req, text>>, sealStorageIntegrityHandlerError
    PROVE  Granted'
<1>1. CASE pc' = "goError"
  BY <1>1 DEF Granted, Gates
<1>2. CASE pc' # "goError"
  <2>1. PICK msg : Finalize(Rejected(resp, "UnsupportedStatement", msg))
    BY <1>2 DEF sealStorageIntegrityHandlerError
  <2>2. /\ DOMAIN Rejected(resp, "UnsupportedStatement", msg) = Fields
        /\ Rejected(resp, "UnsupportedStatement", msg).PrivilegesDeltas = <<>>
    BY DEF IInv, Carried, Behind, Fresh, Rejected, Fields
  <2> QED BY <2>1, <2>2, FinalizeGranted DEF FromGrant
<1> QED BY <1>1, <1>2

LEMMA HandlerGranted ==
    ASSUME IInv, Behind, NEW stage \in Working, NEW next \in Working, NEW h, Handler(stage, next, h, TRUE),
           h.handled => DOMAIN h.resp = Fields /\ FromGrant(h.resp.PrivilegesDeltas)
    PROVE  Granted'
<1>1. pc \in Working /\ UNCHANGED <<req, text>>
  BY DEF Handler
<1>2. CASE h.handled /\ Finalize(h.resp)
  BY <1>1, <1>2, FinalizeGranted
<1>3. CASE ~h.handled /\ pc' = next
  BY <1>3 DEF Granted, Working, Gates
<1>4. CASE sealStorageIntegrityHandlerError
  BY <1>1, <1>4, SealGranted
<1> QED BY <1>2, <1>3, <1>4 DEF Handler

LEMMA HandlersGranted ==
    ASSUME IInv, Behind,
           \/ RunPreflight \/ RunWrite \/ RunDBLevel \/ RunDescribe \/ RunExists \/ RunGrant \/ RunSelect
    PROVE  Granted'
<1> DEFINE Fit(h) == h.handled => DOMAIN h.resp = Fields /\ FromGrant(h.resp.PrivilegesDeltas)
<1>1. ASSUME NEW q, NEW t, PlainAnswer(q, t) PROVE DOMAIN q = Fields /\ FromGrant(q.PrivilegesDeltas)
  BY <1>1 DEF PlainAnswer, Answers, FromGrant
<1>2. Fit(PreflightAnswer) /\ Fit(Write) /\ Fit(DBLevel) /\ Fit(Describe) /\ Fit(Exists)
  <2>1. PreflightAnswer.handled => PlainAnswer(PreflightAnswer.resp, text)
    BY PreflightAnswers DEF PreflightAnswer
  <2>2. Write.handled => PlainAnswer(Write.resp, text)
    BY WriteAnswers DEF Write
  <2>3. DBLevel.handled => PlainAnswer(DBLevel.resp, text)
    BY DBLevelAnswers DEF DBLevel
  <2>4. Describe.handled => PlainAnswer(Describe.resp, text)
    BY DescribeAnswers DEF Describe
  <2>5. Exists.handled => PlainAnswer(Exists.resp, text)
    BY ExistsAnswers DEF Exists
  <2> QED BY <1>1, <2>1, <2>2, <2>3, <2>4, <2>5
<1>3. Fit(Grant)
  <2>1. Grant.handled => Answers(Grant.resp, text)
    BY GrantAnswers DEF Grant
  <2> QED BY <2>1 DEF Answers, FromGrant
<1>4. Fit(ReadAnswer)
  <2>1. PlainAnswer(RewriteSelect(ParsedStatement, req.opts), text)
    BY SelectAnswers
  <2> QED BY <1>1, <2>1 DEF ReadAnswer, Handled, NotHandled
<1>5. {"preflight", "write", "dblevel", "describe", "exists", "grant", "select", "tail"} \subseteq Working
  BY DEF Working
<1>6. CASE RunPreflight
  <2>1. Handler("preflight", "write", PreflightAnswer, TRUE)
    BY <1>6 DEF RunPreflight, Handler, PreflightAnswer
  <2> QED BY <1>2, <1>5, <2>1, HandlerGranted
<1>7. CASE RunWrite
  <2>1. Handler("write", "dblevel", Write, TRUE)
    BY <1>7 DEF RunWrite, Handler, Write
  <2> QED BY <1>2, <1>5, <2>1, HandlerGranted
<1>8. CASE RunDBLevel
  <2>1. Handler("dblevel", "describe", DBLevel, TRUE)
    BY <1>8 DEF RunDBLevel, Handler, DBLevel
  <2> QED BY <1>2, <1>5, <2>1, HandlerGranted
<1>9. CASE RunDescribe
  <2>1. Handler("describe", "exists", Describe, TRUE)
    BY <1>9 DEF RunDescribe, Handler, Describe
  <2> QED BY <1>2, <1>5, <2>1, HandlerGranted
<1>10. CASE RunExists
  <2>1. Handler("exists", "grant", Exists, TRUE)
    BY <1>10 DEF RunExists, Handler, Exists
  <2> QED BY <1>2, <1>5, <2>1, HandlerGranted
<1>11. CASE RunGrant
  <2>1. Handler("grant", "select", Grant, TRUE)
    BY <1>11 DEF RunGrant, Handler, Grant
  <2> QED BY <1>3, <1>5, <2>1, HandlerGranted
<1>12. CASE RunSelect
  <2>1. Handler("select", "tail", ReadAnswer, TRUE)
    BY <1>12 DEF RunSelect, Handler, ReadAnswer
  <2> QED BY <1>4, <1>5, <2>1, HandlerGranted
<1> QED BY <1>6, <1>7, <1>8, <1>9, <1>10, <1>11, <1>12

LEMMA StagesGranted ==
    ASSUME IInv, Behind,
           ValidateRequest \/ ParseOne \/ ClassifyLiveView \/ CheckParsedInFull \/ PassThrough
    PROVE  Granted'
<1>1. CASE ValidateRequest
  <2>1. ASSUME NEW x
        PROVE  Rejected([EmptyResponse(Echo(text)) EXCEPT !.siv = x], "InvalidRewriteRequest",
                        "badConfiguration").PrivilegesDeltas = <<>>
    BY DEF EmptyResponse, Rejected
  <2>2. pc' = "restore" => resp'.PrivilegesDeltas = <<>>
    BY <1>1, <2>1 DEF ValidateRequest
  <2> QED BY <1>1, <2>2 DEF ValidateRequest, Granted, Gates, FromGrant
<1>2. ASSUME pc \in Working
      PROVE  /\ DOMAIN resp = Fields /\ resp.PrivilegesDeltas = <<>>
             /\ \A code, msg : /\ DOMAIN Rejected(resp, code, msg) = Fields
                               /\ Rejected(resp, code, msg).PrivilegesDeltas = <<>>
  BY <1>2 DEF IInv, Carried, Behind, Fresh, Rejected, Fields
<1>3. ASSUME NEW q, DOMAIN q = Fields, q.PrivilegesDeltas = <<>>, UNCHANGED <<req, text>>, Finalize(q)
      PROVE  Granted'
  BY <1>3, FinalizeGranted DEF FromGrant
<1>4. CASE ParseOne
  <2>1. pc' = "restore" => resp'.PrivilegesDeltas = <<>>
    BY <1>2, <1>4 DEF ParseOne, Working
  <2> QED BY <1>4, <2>1 DEF ParseOne, Granted, Gates, FromGrant
<1>5. CASE ClassifyLiveView
  BY <1>2, <1>3, <1>5 DEF ClassifyLiveView, Granted, Gates, Working
<1>6. CASE CheckParsedInFull
  BY <1>2, <1>3, <1>6 DEF CheckParsedInFull, Granted, Gates, Working
<1>7. CASE PassThrough
  <2> DEFINE passed == [resp EXCEPT !.Message = "success"]
  <2>1. pc \in Working /\ UNCHANGED <<req, text>>
    BY <1>7 DEF PassThrough, Working
  <2>2. /\ DOMAIN passed = Fields /\ passed.PrivilegesDeltas = <<>>
        /\ \A x : LET q == [passed EXCEPT !.After = x]
                  IN  DOMAIN q = Fields /\ q.PrivilegesDeltas = <<>>
    BY <1>2, <2>1 DEF Fields
  <2> HIDE DEF passed
  <2> QED BY <1>2, <1>3, <1>7, <2>1, <2>2 DEF PassThrough, passed
<1> QED BY <1>1, <1>4, <1>5, <1>6, <1>7

LEMMA GatesGranted ==
    ASSUME IInv, Granted, SystemTableGate \/ CheckRegenerated \/ FirstDeploymentIdentityName \/ Restore
    PROVE  Granted'
<1>1. DOMAIN resp = Fields
  BY DEF IInv, Carried
<1>2. UNCHANGED <<req, text>> /\ pc \in Gates \cup {"restore"}
  BY DEF SystemTableGate, CheckRegenerated, FirstDeploymentIdentityName, Restore, Gates
<1>3. FromGrant(resp.PrivilegesDeltas) /\ UNCHANGED Grant
  BY <1>2, SameCall DEF Granted
<1>4. resp'.PrivilegesDeltas \in {resp.PrivilegesDeltas, <<>>} => Granted'
  BY <1>3 DEF Granted, FromGrant
<1>5. CASE SystemTableGate
  <2>1. CASE resp' = Refused([rejectSystemTable(resp, ParsedStatement, Sel) EXCEPT !.After = Echo(text)])
    <3> DEFINE q == [rejectSystemTable(resp, ParsedStatement, Sel) EXCEPT !.After = Echo(text)]
    <3>1. DOMAIN q = Fields /\ NoMaps(q)
      BY <1>1, SystemTableRevealsNone DEF Fields
    <3> HIDE DEF q
    <3> QED BY <1>4, <2>1, <3>1, RefusedKeeps DEF NoMaps, q
  <2>2. CASE RefuseSuccess([resp EXCEPT !.TableRewrites = EmptyMap, !.DatabaseRewrites = EmptyMap,
                                        !.PrivilegesDeltas = <<>>], "siUnmodelled")
    <3> DEFINE r == [resp EXCEPT !.TableRewrites = EmptyMap, !.DatabaseRewrites = EmptyMap,
                                 !.PrivilegesDeltas = <<>>]
    <3>1. DOMAIN r = Fields /\ FromGrant(r.PrivilegesDeltas)
      BY <1>1 DEF Fields, FromGrant
    <3> HIDE DEF r
    <3> QED BY <1>2, <2>2, <3>1, RefuseSuccessGranted DEF r
  <2> QED BY <1>4, <1>5, <2>1, <2>2 DEF SystemTableGate
<1>6. CASE CheckRegenerated
  BY <1>1, <1>2, <1>3, <1>4, <1>6, RefuseSuccessGranted DEF CheckRegenerated
<1>7. CASE FirstDeploymentIdentityName
  BY <1>1, <1>2, <1>3, <1>4, <1>7, RefuseSuccessGranted DEF FirstDeploymentIdentityName
<1>8. CASE Restore
  <2>1. \A x : [resp EXCEPT !.After = x].PrivilegesDeltas = resp.PrivilegesDeltas
    BY <1>1 DEF Fields
  <2>2. sealCreateTableEmpty => resp'.PrivilegesDeltas \in {resp.PrivilegesDeltas, <<>>}
    BY DEF sealCreateTableEmpty, EmptyResponse
  <2> QED BY <1>4, <1>8, <2>1, <2>2 DEF Restore
<1> QED BY <1>5, <1>6, <1>7, <1>8

LEMMA GrantedStays == ASSUME IInv, Behind, Granted, [Next]_vars PROVE Granted'
<1>1. ASSUME NEW r \in Requests, Call(r) PROVE Granted'
  BY <1>1 DEF Call, Granted, Gates
<1>2. CASE NothingToStrip \/ StripViewComment \/ StripCreateTableEmpty
  BY <1>2 DEF NothingToStrip, StripViewComment, StripCreateTableEmpty, Granted, Gates
<1>3. CASE ValidateRequest \/ ParseOne \/ ClassifyLiveView \/ CheckParsedInFull \/ PassThrough
  BY <1>3, StagesGranted
<1>4. CASE \/ RunPreflight \/ RunWrite \/ RunDBLevel \/ RunDescribe \/ RunExists \/ RunGrant \/ RunSelect
  BY <1>4, HandlersGranted
<1>5. CASE SystemTableGate \/ CheckRegenerated \/ FirstDeploymentIdentityName \/ Restore
  BY <1>5, GatesGranted
<1>6. CASE Return
  BY <1>6 DEF Return, Granted, Gates
<1>7. CASE Close \/ UNCHANGED vars
  <2>1. UNCHANGED <<req, text, pc, resp>>
    BY <1>7 DEF Close, vars
  <2> QED BY <2>1, SameCall DEF Granted, FromGrant
<1> QED BY <1>1, <1>2, <1>3, <1>4, <1>5, <1>6, <1>7 DEF Next, Step

(* The arguments of an account without upstreams. *)
Near(a) == [a EXCEPT !.remote_index = EmptyMap]

(* One delta reaches where the resolver puts the name the GRANT gives. *)
DeltaConfined(d, st, a) ==
    LET r == ApplyDynamic(d.OriginalDatabase, d.OriginalTable, Near(a))
    IN  /\ ResolvePhysicalDatabase(LogicalOf(st.cmd.db, a), a) = [ok |-> TRUE, db |-> d.PhysicalDatabase]
        /\ d.Scope = "TABLE" => /\ r.Status = "Rewrite" /\ r.NewTable = d.PhysicalTable
                                /\ d.OriginalTable = st.cmd.table
                                /\ Dynamic => ~IsStorageIntegrity(d.OriginalDatabase, d.OriginalTable, a)
        /\ d.Scope = "DATABASE" => st.cmd.allTables

(* A resolved name of the account, upstreams left out of account. *)
LEMMA LocalOutcome ==
    ASSUME NEW a, WellFormedArguments(a), NEW db, NEW table, table # NoTable,
           ResolvePhysicalDatabase(LogicalOf(db, a), a).ok, ~ProtectedDatabase(LogicalOf(db, a), a)
    PROVE  LET r == ApplyDynamic(db, table, Near(a))
           IN  r.Status = "Rewrite" /\ r.NewTable = BuildDynamicTablePrefix(LogicalOf(db, a), a) \o table
<1> DEFINE l == LogicalOf(db, a)
           near == Near(a)
<1>1. l # ""
  BY DEF ResolvePhysicalDatabase
<1>2. /\ near.ctx = a.ctx /\ near.database_map = a.database_map /\ near.known = a.known
      /\ near.protected = a.protected /\ near.si = a.si /\ near.remote_index = EmptyMap
      /\ near.extra = a.extra
  BY DEF WellFormedArguments, NoDynamic, Near
<1> HIDE DEF near
<1>3. LogicalOf(db, near) = l
  BY <1>2 DEF LogicalOf
<1>4. ~ProtectedDatabase(l, near)
  <2>1. SITableDatabases(near) = SITableDatabases(a)
    BY <1>2 DEF SITableDatabases
  <2>2. storageIntegrityReservedDatabase(l, near) <=> storageIntegrityReservedDatabase(l, a)
    BY <1>2 DEF storageIntegrityReservedDatabase
  <2>3. IsStorageIntegrityPhysicalDatabase(l, near) <=> IsStorageIntegrityPhysicalDatabase(l, a)
    BY <2>1, <2>2 DEF IsStorageIntegrityPhysicalDatabase
  <2> QED BY <1>2, <2>3 DEF ProtectedDatabase
<1>5. ResolvePhysicalDatabase(l, near) = ResolvePhysicalDatabase(l, a)
  BY <1>2, <1>4 DEF ResolvePhysicalDatabase
<1>6. l \notin DOMAIN near.remote_index
  BY <1>2 DEF EmptyMap
<1>7. buildDynamicTableName(l, table, near) = BuildDynamicTablePrefix(l, a) \o table
  BY <1>2 DEF buildDynamicTableName, BuildDynamicTablePrefix
<1>8. LET r == ApplyDynamic(db, table, near)
      IN  r.Status = "Rewrite" /\ r.NewTable = BuildDynamicTablePrefix(l, a) \o table
  BY <1>1, <1>3, <1>4, <1>5, <1>6, <1>7 DEF ApplyDynamic, Outcome
<1> QED BY <1>8 DEF near, l

LEMMA ResolvedApart ==
    ASSUME NEW a, NEW l, ResolvePhysicalDatabase(l, a).ok,
           \A m \in DOMAIN a.database_map : ~ProtectedDatabase(m, a)
    PROVE  ~ProtectedDatabase(l, a)
  BY DEF ResolvePhysicalDatabase

(* What a delta says. *)
DeltaSays(d, c, a) ==
    LET l == LogicalOf(c.db, a)
    IN  /\ d.OriginalDatabase = c.db /\ d.PhysicalDatabase = ResolvePhysicalDatabase(l, a).db
        /\ scopeDatabase(c) => d.Scope = "DATABASE"
        /\ ~scopeDatabase(c) => /\ d.Scope = "TABLE" /\ d.OriginalTable = c.table
                                /\ d.PhysicalTable = BuildDynamicTablePrefix(l, a) \o c.table

LEMMA DeltaShape ==
    ASSUME NEW c, NEW privilege, NEW a
    PROVE  DeltaSays(PrivilegeDelta(c, privilege, a), c, a)
  BY DEF PrivilegeDelta, DeltaSays

LEMMA DeltaReaches ==
    ASSUME NEW st, NEW a, WellFormedArguments(a), ResolvePhysicalDatabase(LogicalOf(st.cmd.db, a), a).ok,
           \A m \in DOMAIN a.database_map : ~ProtectedDatabase(m, a),
           st.cmd.table # NoTable, ~st.cmd.anyDatabase,
           Dynamic /\ ~st.cmd.allTables => ~IsStorageIntegrity(st.cmd.db, st.cmd.table, a), NEW privilege
    PROVE  DeltaConfined(PrivilegeDelta(st.cmd, privilege, a), st, a)
<1> DEFINE c == st.cmd
           l == LogicalOf(c.db, a)
           p == ResolvePhysicalDatabase(l, a)
           d == PrivilegeDelta(c, privilege, a)
           r == ApplyDynamic(c.db, c.table, Near(a))
           moved == BuildDynamicTablePrefix(l, a) \o c.table
<1>1. ~ProtectedDatabase(l, a)
  BY ResolvedApart
<1>2. r.Status = "Rewrite" /\ r.NewTable = moved
  <2> DEFINE table == c.table
             db == c.db
  <2>1. table # NoTable /\ ResolvePhysicalDatabase(LogicalOf(db, a), a).ok
        /\ ~ProtectedDatabase(LogicalOf(db, a), a)
    BY <1>1
  <2> HIDE DEF table, db
  <2>2. ApplyDynamic(db, table, Near(a)).Status = "Rewrite"
        /\ ApplyDynamic(db, table, Near(a)).NewTable = BuildDynamicTablePrefix(LogicalOf(db, a), a) \o table
    BY <2>1, LocalOutcome
  <2> QED BY <2>2 DEF table, db
<1>3. /\ d.OriginalDatabase = c.db /\ d.PhysicalDatabase = p.db
      /\ scopeDatabase(c) => d.Scope = "DATABASE"
      /\ ~scopeDatabase(c) => d.Scope = "TABLE" /\ d.OriginalTable = c.table /\ d.PhysicalTable = moved
  <2> HIDE DEF d
  <2>1. DeltaSays(d, c, a)
    BY DeltaShape DEF d
  <2> QED BY <2>1 DEF DeltaSays
<1>4. p = [ok |-> TRUE, db |-> p.db]
  BY DEF ResolvePhysicalDatabase
<1>5. scopeDatabase(c) <=> c.allTables
  BY DEF scopeDatabase
<1>6. d.Scope = "TABLE" =>
         LET s == ApplyDynamic(d.OriginalDatabase, d.OriginalTable, Near(a))
         IN  s.Status = "Rewrite" /\ s.NewTable = d.PhysicalTable
  <2> HIDE DEF d, c, moved
  <2>1. CASE scopeDatabase(c)
    BY <1>3, <2>1
  <2>2. CASE ~scopeDatabase(c)
    <3>1. d.OriginalDatabase = c.db /\ d.OriginalTable = c.table /\ d.PhysicalTable = moved
      BY <1>3, <2>2
    <3> QED BY <1>2, <3>1
  <2> QED BY <2>1, <2>2
<1>7. d.Scope = "TABLE" =>
         d.OriginalTable = c.table /\ (Dynamic => ~IsStorageIntegrity(d.OriginalDatabase, d.OriginalTable, a))
  <2> HIDE DEF d, moved
  <2>1. CASE scopeDatabase(c)
    BY <1>3, <2>1
  <2>2. CASE ~scopeDatabase(c)
    <3>1. d.OriginalDatabase = c.db /\ d.OriginalTable = c.table /\ ~c.allTables
      BY <1>3, <1>5, <2>2
    <3> QED BY <3>1
  <2> QED BY <2>1, <2>2
<1>8. d.Scope = "DATABASE" => c.allTables
  <2> HIDE DEF d, moved
  <2> QED BY <1>3, <1>5
<1> HIDE DEF d
<1>9. ResolvePhysicalDatabase(LogicalOf(st.cmd.db, a), a) = [ok |-> TRUE, db |-> d.PhysicalDatabase]
  BY <1>3, <1>4
<1>10. DeltaConfined(d, st, a)
  BY <1>6, <1>7, <1>8, <1>9 DEF DeltaConfined
<1> QED BY <1>10 DEF d

LEMMA MadeIsInteger ==
    ASSUME NEW c, Len(c.privileges) \in Nat, DOMAIN c.privileges = 1..Len(c.privileges)
    PROVE  Made(c) \in Int
<1> DEFINE columns == {k \in DOMAIN c.privileges : c.privileges[k].columns}
<1>1. columns \subseteq Nat
  OBVIOUS
<1>2. Made(c) = IF columns = {} THEN Len(c.privileges) ELSE Min(columns) - 1
  BY DEF Made
<1> HIDE DEF columns
<1>3. CASE columns = {}
  BY <1>2, <1>3
<1>4. CASE columns # {}
  <2>1. Min(columns) \in columns
    BY <1>1, <1>4, MinIsFirst
  <2> DEFINE m == Min(columns)
  <2>2. m \in Nat
    BY <1>1, <2>1
  <2> HIDE DEF m
  <2>3. m - 1 \in Int
    BY <2>2
  <2> QED BY <1>2, <1>4, <2>3 DEF m
<1> QED BY <1>3, <1>4

LEMMA DeltasConfined ==
    ASSUME NEW st, WellFormedCommand(st), st.sub = "grant", WellFormedOptions(req.opts), LogicalApart(req),
           NEW q, GrantTold(st.cmd, Sel, FindDynamicArgs(req.opts), q),
           NEW i \in DOMAIN q.PrivilegesDeltas
    PROVE  FindDynamicArgs(req.opts).found
           /\ DeltaConfined(q.PrivilegesDeltas[i], st, FindDynamicArgs(req.opts).args)
<1> DEFINE dyn == FindDynamicArgs(req.opts)
           a == dyn.args
           c == st.cmd
<1>1. q.PrivilegesDeltas # <<>>
  BY EmptyDomain
<1>2. /\ dyn.found /\ c.hasOn /\ ~c.anyDatabase /\ q.PrivilegesDeltas = Deltas(c, a)
      /\ \E stmt : GrantOnSI(c, Sel, newWriteResp(stmt)).Code = "Success"
      /\ Made(c) > 0 => ResolvePhysicalDatabase(LogicalOf(c.db, a), a).ok
  BY <1>1 DEF GrantTold
<1>3. i \in 1..Made(c) /\ q.PrivilegesDeltas[i] = PrivilegeDelta(c, c.privileges[i], a)
  BY <1>2 DEF Deltas
<1>4. /\ c.table # NoTable /\ Len(c.privileges) \in Nat
      /\ DOMAIN c.privileges = 1..Len(c.privileges)
  BY <1>2 DEF WellFormedCommand
<1>5. Made(c) > 0
  BY <1>3, <1>4, MadeIsInteger
<1>6. Dynamic => dyn.args = Sel.Dynamic
  BY ActiveIsFound DEF Dynamic, Sel
<1>7. Dynamic /\ ~c.allTables => ~IsStorageIntegrity(c.db, c.table, a)
  <2> HIDE DEF dyn, c
  <2>1. ASSUME Dynamic, ~c.allTables PROVE ~IsStorageIntegrity(c.db, c.table, Sel.Dynamic)
    <3>1. PICK stmt : GrantOnSI(c, Sel, newWriteResp(stmt)).Code = "Success"
      BY <1>2
    <3>2. Sel.Mode = "dynamic"
      BY <2>1 DEF Dynamic
    <3> QED BY <1>2, <1>4, <2>1, <3>1, <3>2, GrantOnSIPassed
  <2> QED BY <1>6, <2>1
<1>8. WellFormedArguments(a)
  BY <1>2, FoundIsGiven DEF WellFormedOptions
<1>9. \A m \in DOMAIN a.database_map : ~ProtectedDatabase(m, a)
  BY DEF LogicalApart
<1>10. DeltaConfined(PrivilegeDelta(c, c.privileges[i], a), st, a)
  <2> HIDE DEF dyn
  <2> QED BY <1>2, <1>4, <1>5, <1>7, <1>8, <1>9, DeltaReaches
<1> QED BY <1>2, <1>3, <1>10

(* A GRANT is parsed as it was sent. *)
LEMMA GrantParsed ==
    ASSUME IInv, pc = "done", ParsedStatement.kind = "command"
    PROVE  /\ req \in Requests /\ WellFormed(req.st) /\ WellFormedOptions(req.opts)
           /\ ParsedStatement = req.st
<1>1. req \in Requests
  BY DEF IInv, TypeOK
<1>2. WellFormed(req.st) /\ WellFormedOptions(req.opts)
  BY <1>1, StatementAssumption, OptionsAssumption
<1>3. DOMAIN req.st = {"kind", "sub", "slots", "cross", "reads", "inOps", "exprReads", "ns", "opaque",
                       "lookups", "named", "ec", "form", "marks", "cmd"}
      /\ (req.st.kind = "command" => req.st.form = "plain")
  BY <1>2 DEF WellFormed
<1>4. ParsedStatement.kind = req.st.kind
  BY <1>3 DEF ParsedStatement
<1> QED BY <1>1, <1>2, <1>3, <1>4 DEF ParsedStatement

LEMMA TheDeltas ==
    ASSUME IInv, Granted, Finished, LogicalApart(req), NEW i \in DOMAIN resp.PrivilegesDeltas
    PROVE  Sub("grant") /\ Args.found /\ DeltaConfined(resp.PrivilegesDeltas[i], req.st, Args.args)
<1>1. pc = "done" /\ resp.PrivilegesDeltas # <<>>
  BY EmptyDomain DEF Finished
<1>2. Grant.handled /\ resp.PrivilegesDeltas = Grant.resp.PrivilegesDeltas
  BY <1>1 DEF Granted, FromGrant
<1>3. /\ ParsedStatement.kind = "command" /\ ParsedStatement.sub = "grant"
      /\ GrantTold(ParsedStatement.cmd, Sel, FindDynamicArgs(req.opts), Grant.resp)
  BY <1>2, GrantOrigin
<1>4. WellFormed(req.st) /\ WellFormedOptions(req.opts) /\ ParsedStatement = req.st
  BY <1>1, <1>3, GrantParsed
<1>5. WellFormedCommand(req.st)
  BY <1>3, <1>4 DEF WellFormed
<1>6. FindDynamicArgs(req.opts).found
      /\ DeltaConfined(Grant.resp.PrivilegesDeltas[i], req.st, FindDynamicArgs(req.opts).args)
  BY <1>2, <1>3, <1>4, <1>5, DeltasConfined
<1> QED BY <1>2, <1>3, <1>4, <1>6 DEF Sub, Args

LEMMA AllPrivilegesTold ==
    ASSUME IInv, Behind, Succeeded, Sub("grant")
    PROVE  Len(resp.PrivilegesDeltas) = Len(req.st.cmd.privileges)
<1> DEFINE c == req.st.cmd
           a == FindDynamicArgs(req.opts).args
<1>1. ParsedStatement = req.st /\ WellFormed(req.st) /\ Origin
  BY SuccessState
<1>2. Grant.handled /\ Grant.resp.Code = "Success" /\ Tells(Grant.resp)
  BY <1>1, GrantAnswered DEF Sub
<1>3. GrantTold(c, Sel, FindDynamicArgs(req.opts), Grant.resp)
  BY <1>1, <1>2, GrantOrigin
<1>4. resp.PrivilegesDeltas = Deltas(c, a) /\ Made(c) = Len(c.privileges)
  BY <1>2, <1>3 DEF GrantTold, Tells
<1>5. Len(c.privileges) \in Nat
  BY <1>1 DEF WellFormed, WellFormedCommand, Sub
<1> DEFINE n == Made(c)
           delta(i) == PrivilegeDelta(c, c.privileges[i], a)
<1>6. resp.PrivilegesDeltas = [i \in 1..n |-> delta(i)]
  BY <1>4 DEF Deltas
<1>7. n \in Nat
  BY <1>4, <1>5
<1> HIDE DEF n, delta
<1>8. Len(resp.PrivilegesDeltas) = n
  BY <1>6, <1>7
<1> QED BY <1>4, <1>8 DEF n

(* The deltas of GRANT and REVOKE, of a refusal too, reach no further than *)
(* the statement's own logical database, and a Success has them all        *)
(* (grant.go 128-178), in accounts whose logical databases do not carry    *)
(* the name of a protected one.                                            *)
THEOREM GrantsConfined ==
    (\A r \in Requests : LogicalApart(r)) => (Spec => []GrantConfined)
<1> SUFFICES ASSUME \A r \in Requests : LogicalApart(r) PROVE Spec => []GrantConfined
  OBVIOUS
<1>1. Init => Granted
  BY DEF Init, Granted, Gates
<1>2. IInv /\ Behind /\ Granted /\ [Next]_vars => Granted'
  BY GrantedStays
<1>3. IInv /\ Behind /\ Granted => GrantConfined
  <2> SUFFICES ASSUME IInv, Behind, Granted, Finished PROVE GrantConfined
    BY DEF GrantConfined
  <2>1. LogicalApart(req)
    BY DEF IInv, TypeOK, Finished
  <2>2. ASSUME NEW i \in DOMAIN resp.PrivilegesDeltas
        PROVE  Sub("grant") /\ Args.found /\ DeltaConfined(resp.PrivilegesDeltas[i], req.st, Args.args)
    BY <2>1, TheDeltas
  <2>3. Succeeded /\ Sub("grant") => Len(resp.PrivilegesDeltas) = Len(req.st.cmd.privileges)
    BY AllPrivilegesTold
  <2> QED BY <2>2, <2>3 DEF GrantConfined, DeltaConfined, Near
<1> QED BY <1>1, <1>2, <1>3, Invariance, Provenance, PTL DEF Spec
==============================================================================
