---------------------------- MODULE DynamicNames ----------------------------
(***************************************************************************)
(* The physical table names of a physical database that several logical    *)
(* databases share, as texts: what nameresolve joins with separators,      *)
(* ClickHouse stores, and SHOW TABLES lists by prefix and cuts off again.  *)
(* Texts are sequences of bytes as in ErrorInversion; in NameResolve the   *)
(* same names are sequences of parts.                                      *)
(***************************************************************************)
EXTENDS ErrorInversion

CONSTANTS LogicalDatabases,   \* logical databases that map to the physical one
          OriginTables,       \* table names the callers write
          Arguments           \* [delim, extra]: Delim and ExtraArguments

ASSUME NamesAssumption ==
    /\ LogicalDatabases \subseteq Seq(Byte) /\ OriginTables \subseteq Seq(Byte)
    /\ \A a \in Arguments : a.delim \in Seq(Byte) /\ a.extra \in Seq(Seq(Byte))

VARIABLES args,     \* the options of the deployment, the same for every caller
          stored    \* the tables of the physical database

nameVars == <<args, stored>>

delimOf(a) == IF a.delim = <<>> THEN <<95>> ELSE a.delim

(* <logical>[<delim><extra>...] *)
Joined(logical, a) ==
    logical \o Pieces(Len(a.extra), [i \in DOMAIN a.extra |-> delimOf(a) \o a.extra[i]],
                      [i \in DOMAIN a.extra |-> i + 1])

(* The last separator is a dot whatever the delimiter; no table, no name. *)
buildDynamicTableName(logical, table, a) ==
    IF table = <<>> THEN <<>> ELSE Joined(logical, a) \o <<Dot>> \o table

(* Mutant: the prefix without the separator. *)
PrefixUnseparated(logical, a) == Joined(logical, a)

BuildDynamicTablePrefix(logical, a) == Joined(logical, a) \o <<Dot>>

(* SHOW TABLES: the names that start with the prefix, without it. *)
ShowTables(logical) ==
    LET prefix == BuildDynamicTablePrefix(logical, args)
    IN  {SubSeq(name, Len(prefix) + 1, Len(name)) : name \in {n \in stored : IsPrefix(prefix, n)}}

---------------------------------------------------------------------------
NamesInit == args \in Arguments /\ stored = {}

(* A caller's statement on its table reaches ClickHouse under this name. *)
CreateTable(logical, table) ==
    /\ table # <<>>
    /\ stored' = stored \cup {buildDynamicTableName(logical, table, args)} /\ UNCHANGED args

DropTable(logical, table) ==
    /\ table # <<>>
    /\ stored' = stored \ {buildDynamicTableName(logical, table, args)} /\ UNCHANGED args

NamesNext ==
    \E logical \in LogicalDatabases, table \in OriginTables :
        CreateTable(logical, table) \/ DropTable(logical, table)

NamesSpec == NamesInit /\ [][NamesNext]_nameVars

---------------------------------------------------------------------------
Dotted(name) == Dot \in Range(name)

(* Tenants of one physical database do not meet: a statement on a table of *)
(* one logical database changes what SHOW TABLES lists there, by that      *)
(* table, and what it lists nowhere else - whatever the delimiter, the     *)
(* extra arguments and the table names contain (buildDynamicTableName,     *)
(* BuildDynamicTablePrefix).  Logical databases with a dot in their names  *)
(* are excepted: the table t of a.b is listed as the table b.t of a.       *)
TenantsApart ==
    [][\A own, other \in LogicalDatabases, table \in OriginTables :
          ~Dotted(own) /\ ~Dotted(other) =>
             LET named == IF own = other THEN {table} ELSE {}
             IN  /\ CreateTable(other, table) => ShowTables(own)' = ShowTables(own) \cup named
                 /\ DropTable(other, table) => ShowTables(own)' = ShowTables(own) \ named]_nameVars
=============================================================================
