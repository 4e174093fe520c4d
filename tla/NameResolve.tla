---------------------------- MODULE NameResolve ----------------------------
(***************************************************************************)
(* The name policy of internal/nameresolve: which rewrite options are in   *)
(* force, what one (database, table) name becomes, which databases caller  *)
(* SQL may never address, the storage-integrity (SI) lookups, and the      *)
(* names an error text returned to the caller may not contain.  Everything *)
(* here is a pure function of the request's options.                       *)
(*                                                                         *)
(* Names.  A database is a string, "" when the name is unqualified.  A     *)
(* table is a sequence of the parts its dots separate, so that the quoted  *)
(* one-part name `d1.t` is the table <<"d1", "t">> and the written text of *)
(* a qualified name is the sequence <<db>> \o table: the two share their   *)
(* written text, as they do in the code.  <<>> stands for "no table".      *)
(* Database names contain no dot.                                          *)
(***************************************************************************)
EXTENDS Naturals, Sequences, FiniteSets, FiniteSetsExt

CONSTANTS
    NotSimple,             \* names simpleIdentifier refuses
    SystemTableAllowlist   \* tables of `system` that caller SQL may name

ASSUME NotSimpleAssumption == "*" \in NotSimple

NoTable == <<>>

EmptyMap == [k \in {} |-> k]

(* "db.table", or the bare table when db is "". *)
qualify(db, table) == IF db = "" THEN table ELSE <<db>> \o table

simpleIdentifier(s) == s # "" /\ s \notin NotSimple

(* Exactly one dot, simple identifiers on both sides of it. *)
exactQualifiedTable(q) == Len(q) = 2 /\ simpleIdentifier(q[1]) /\ simpleIdentifier(q[2])

---------------------------------------------------------------------------
(* The rewrite options of a request.                                       *)

NoStatic  == [table_map |-> EmptyMap, remote_table_map |-> EmptyMap,
              table_with_database_map |-> EmptyMap]
NoSI      == [version |-> "UNSPECIFIED", tables |-> EmptyMap, reserved |-> {},
              read_mode |-> "SAFE", row_id |-> "_hg_row_id"]
NoDynamic == [database_map |-> EmptyMap, known |-> {}, protected |-> {},
              ctx |-> "", pctx |-> "", remote_index |-> EmptyMap,
              upstreams |-> {}, extra |-> <<>>, si |-> NoSI]

Selection(mode, static, dynamic) == [Mode |-> mode, Static |-> static, Dynamic |-> dynamic]

(* The names a statement or an option can hold. *)
Refs == [db : STRING, table : Seq(STRING)]

(* The options are a list, and arguments have every field (an absent one   *)
(* is empty); names are strings.                                           *)
WellFormedArguments(a) ==
    /\ DOMAIN a = DOMAIN NoDynamic
    /\ a.ctx \in STRING /\ a.extra \in Seq(STRING)
    /\ \A k \in DOMAIN a.si.tables :
          a.si.tables[k].safe \in Seq(STRING) /\ a.si.tables[k].unsafe \in Seq(STRING)

WellFormedOptions(opts) ==
    /\ Len(opts) \in Nat /\ DOMAIN opts = 1..Len(opts)
    /\ \A i \in DOMAIN opts : WellFormedArguments(opts[i].dynamic) /\ opts[i].cte.reads \in Seq(Refs)

(* Last wins across TableNameRewrite options, static beats dynamic within  *)
(* one, and an option with neither does not reset the selection.           *)
FindActive(opts) ==
    LET live == {i \in DOMAIN opts : /\ opts[i].op = "TableNameRewrite"
                                     /\ opts[i].hasStatic \/ opts[i].hasDynamic}
    IN  IF live = {} THEN Selection("none", NoStatic, NoDynamic)
        ELSE LET o == opts[Max(live)]
             IN  IF o.hasStatic THEN Selection("static", o.static, NoDynamic)
                                ELSE Selection("dynamic", NoStatic, o.dynamic)

(* The database-level handlers ask only for dynamic arguments: the last    *)
(* option that carries them, static arguments ignored.                     *)
FindDynamicArgs(opts) ==
    LET live == {i \in DOMAIN opts : opts[i].op = "TableNameRewrite" /\ opts[i].hasDynamic}
    IN  [found |-> live # {},
         args  |-> IF live = {} THEN NoDynamic ELSE opts[Max(live)].dynamic]

---------------------------------------------------------------------------
(* Storage integrity: activation, reserved databases, lookups.             *)

StorageIntegritySurfaceActive(a) == a.si.version = "V2" \/ DOMAIN a.si.tables # {}

StorageIntegrityDropContract(sel) == sel.Mode = "dynamic" /\ sel.Dynamic.si.version = "V2"

storageIntegrityReservedDatabase(db, a) ==
    db # "" /\ a.si.version = "V2" /\ db \in a.si.reserved

(* The databases of the safe and unsafe tables; malformed names give none. *)
SITableDatabases(a) ==
    {q[1] : q \in {x \in {a.si.tables[k].safe : k \in DOMAIN a.si.tables} \cup
                         {a.si.tables[k].unsafe : k \in DOMAIN a.si.tables} :
                     exactQualifiedTable(x)}}

IsStorageIntegrityPhysicalDatabase(db, a) ==
    db # "" /\ (db \in SITableDatabases(a) \/ storageIntegrityReservedDatabase(db, a))

StorageIntegrityPhysicalDatabases(a) ==
    SITableDatabases(a) \cup {d \in a.si.reserved : storageIntegrityReservedDatabase(d, a)}

IsStorageIntegrityLogicalDatabase(db, a) ==
    db # "" /\ \E k \in DOMAIN a.si.tables : exactQualifiedTable(k) /\ k[1] = db

(* The database an unqualified name means to the session. *)
LogicalOf(db, a) == IF db = "" THEN a.ctx ELSE db

(* The SI key a name hits; NoTable when it hits none. *)
LookupStorageIntegrity(db, table, a) ==
    LET key == <<LogicalOf(db, a)>> \o table
    IN  IF table # NoTable /\ LogicalOf(db, a) # "" /\ key \in DOMAIN a.si.tables
        THEN key ELSE NoTable

IsStorageIntegrity(db, table, a) == LookupStorageIntegrity(db, table, a) # NoTable

LookupStorageIntegrityPhysical(db, table, a) ==
    table # NoTable /\ IsStorageIntegrityPhysicalDatabase(LogicalOf(db, a), a)

AuthorizeStorageIntegrityLogical(db, a) ==
    LogicalOf(db, a) # "" /\ LogicalOf(db, a) \in DOMAIN a.database_map

---------------------------------------------------------------------------
(* Protected databases, and the validation that precedes every handler.    *)

ProtectedDatabase(db, a) ==
    /\ db # ""
    /\ \/ \E l \in DOMAIN a.database_map : a.database_map[l] = db
       \/ db \in a.protected
       \/ IsStorageIntegrityPhysicalDatabase(db, a)

SystemDatabase == "system"

metadataDatabase(db) == db \in {SystemDatabase, "information_schema", "INFORMATION_SCHEMA"}

ValidateProtectedDatabases(a) ==
    /\ \A db \in a.protected : simpleIdentifier(db)
    /\ \A l \in DOMAIN a.database_map : ~metadataDatabase(a.database_map[l])

ValidateStorageIntegrity(a) ==
    /\ a.si.row_id # "" => simpleIdentifier(a.si.row_id)
    /\ a.si.read_mode \in {"UNSPECIFIED", "SAFE", "UNSAFE_LATEST"}
    /\ \A k \in DOMAIN a.si.tables :
          /\ exactQualifiedTable(k)
          /\ exactQualifiedTable(a.si.tables[k].safe)
          /\ exactQualifiedTable(a.si.tables[k].unsafe)
    /\ a.si.version = "V2" => \A db \in a.si.reserved : simpleIdentifier(db)

---------------------------------------------------------------------------
(* Resolution of one name.                                                 *)

Outcome(status, db, table, reason) ==
    [Status |-> status, PhysicalDB |-> db, NewTable |-> table, RejectReason |-> reason]

Passthrough     == Outcome("Passthrough", "", NoTable, "")
Invalid(reason) == Outcome("Invalid", "", NoTable, reason)

LookupStatic(db, table, a) ==
    LET key == qualify(db, table)
    IN  CASE key \in DOMAIN a.table_map ->
                Outcome("Rewrite", db, a.table_map[key], "")
          [] key \notin DOMAIN a.table_map /\ key \in DOMAIN a.remote_table_map ->
                Outcome("Remote", a.remote_table_map[key].db, a.remote_table_map[key].table, "")
          [] key \notin DOMAIN a.table_map \cup DOMAIN a.remote_table_map
             /\ key \in DOMAIN a.table_with_database_map ->
                LET wd == a.table_with_database_map[key]
                IN  Outcome("Rewrite", IF wd.db = "" THEN db ELSE wd.db, wd.table, "")
          [] OTHER -> Passthrough

(* database_map first, then known_physical_databases for a name that is    *)
(* not protected.  A database_map value may itself be "".                  *)
ResolvePhysicalDatabase(logical, a) ==
    IF logical # "" /\ logical \in DOMAIN a.database_map
    THEN [ok |-> TRUE, db |-> a.database_map[logical]]
    ELSE IF logical # "" /\ logical \in a.known /\ ~ProtectedDatabase(logical, a)
    THEN [ok |-> TRUE, db |-> logical]
    ELSE [ok |-> FALSE, db |-> ""]

(* The prefix of the physical name is the logical database and the extra   *)
(* arguments, kept as parts: whether the joined texts of two logical       *)
(* databases can meet is the subject of DynamicNames.                      *)
BuildDynamicTablePrefix(logical, a) == <<logical>> \o a.extra

(* Mutant: the physical name without its prefix. *)
TableNameWithoutPrefix(logical, table, a) == table

buildDynamicTableName(logical, table, a) ==
    IF table = NoTable THEN NoTable ELSE BuildDynamicTablePrefix(logical, a) \o table

ApplyDynamic(db, table, a) ==
    LET logical  == LogicalOf(db, a)
        physical == ResolvePhysicalDatabase(logical, a)
        newTable == buildDynamicTableName(logical, table, a)
        remote   == logical \in DOMAIN a.remote_index
    IN  IF logical = "" THEN Invalid("noContext")
        ELSE IF ProtectedDatabase(logical, a) THEN Invalid("protected")
        ELSE IF ~physical.ok THEN Invalid("unmapped")
        ELSE IF remote /\ a.remote_index[logical] \notin a.upstreams THEN Invalid("noUpstream")
        ELSE Outcome(IF remote THEN "Remote" ELSE "Rewrite", physical.db, newTable, "")

Resolve(db, table, sel) ==
    CASE sel.Mode = "static"  -> LookupStatic(db, table, sel.Static)
      [] sel.Mode = "dynamic" -> ApplyDynamic(db, table, sel.Dynamic)
      [] OTHER -> Passthrough

(* The entry of original_accessed_tables for one name; never rejects. *)
AccessedEntry(db, table, logical, physical, remote, si) ==
    [OriginalDatabase |-> db, OriginalTable |-> table, LogicalDB |-> logical,
     PhysicalDB |-> physical, IsRemote |-> remote, IsStorageIntegrity |-> si]

ResolveAccessed(db, table, sel) ==
    LET a == sel.Dynamic
        s == LookupStatic(db, table, sel.Static)
        si == IsStorageIntegrity(db, table, a)
    IN  CASE sel.Mode = "static" ->
                AccessedEntry(db, table, "", s.PhysicalDB, s.Status = "Remote", FALSE)
          [] sel.Mode = "dynamic" /\ LookupStorageIntegrityPhysical(db, table, a) ->
                AccessedEntry(db, table, "", LogicalOf(db, a), FALSE, TRUE)
          [] sel.Mode = "dynamic" /\ ~LookupStorageIntegrityPhysical(db, table, a) ->
                AccessedEntry(db, table, LogicalOf(db, a),
                              ResolvePhysicalDatabase(LogicalOf(db, a), a).db,
                              ~si /\ LogicalOf(db, a) \in DOMAIN a.remote_index, si)
          [] OTHER -> AccessedEntry(db, table, "", "", FALSE, FALSE)

---------------------------------------------------------------------------
(* What an inverted error text may not contain: physical databases (whole  *)
(* identifiers) and the secrets of remote upstreams (substrings; one atom  *)
(* stands for an upstream's address, hosts and password).                  *)

databasePart(q) == IF Len(q) > 1 THEN q[1] ELSE ""

HiddenDynamic(a) ==
    LET candidates == a.protected \cup {a.database_map[l] : l \in DOMAIN a.database_map}
                      \cup a.si.reserved
                      \cup {databasePart(a.si.tables[k].safe) : k \in DOMAIN a.si.tables}
                      \cup {databasePart(a.si.tables[k].unsafe) : k \in DOMAIN a.si.tables}
        physical == {db \in candidates : ProtectedDatabase(db, a)}
        visible  == DOMAIN a.database_map \cup (a.known \ physical) \cup {a.ctx}
    IN  [identifiers |-> physical \ (visible \cup {""}), literals |-> a.upstreams]

HiddenStatic(a) ==
    LET keys     == DOMAIN a.table_map \cup DOMAIN a.remote_table_map
                    \cup DOMAIN a.table_with_database_map
        visible  == {databasePart(k) : k \in keys}
        physical == {a.table_with_database_map[k].db : k \in DOMAIN a.table_with_database_map}
                    \cup {a.remote_table_map[k].db : k \in DOMAIN a.remote_table_map}
    IN  [identifiers |-> physical \ (visible \cup {""}),
         literals    |-> {a.remote_table_map[k].addr : k \in DOMAIN a.remote_table_map}]

HiddenNames(opts) ==
    LET sel == FindActive(opts)
    IN  CASE sel.Mode = "dynamic" -> HiddenDynamic(sel.Dynamic)
          [] sel.Mode = "static"  -> HiddenStatic(sel.Static)
          [] OTHER -> [identifiers |-> {}, literals |-> {}]
============================================================================
