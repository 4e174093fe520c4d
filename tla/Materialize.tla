---------------------------- MODULE Materialize ----------------------------
(***************************************************************************)
(* MaterializeSQL: the calls of a statement whose value differs from run   *)
(* to run are replaced by literals the request supplies, so that what is   *)
(* signed can be replayed.  The parsed statement is a tree of numbered     *)
(* nodes; the walk is one step per node, depth first, the fields of a node *)
(* in the order of their keys.                                             *)
(*                                                                         *)
(* A node is [shape, name, args, fields]: shape is the key the parser      *)
(* gives the node ("function", "column", one of the keys it reserves for a *)
(* call, "other" for everything else), name the lower-cased function or    *)
(* column, args whether the call has arguments (a column: whether it is    *)
(* qualified or quoted), fields the children under each key, a key being   *)
(* its rank in byte order.  Nodes are numbered in the order of the keys, a *)
(* node before those below it, and last[i] is the last node of the part of *)
(* the statement that i stands over; "literal" is what the walk puts in a  *)
(* call's place, other literals are "other".  Instants and random values   *)
(* are integers in units the constants name; a UUID and a float are        *)
(* integers too.                                                           *)
(***************************************************************************)
EXTENDS Integers, Sequences, SequencesExt

CONSTANTS
    MaterializeRequests, \* what is asked: see TypeOK and MCMaterialize
    NanosPerSecond, NanosPerMilli, SecondsPerDay,
    MaxUInt32,           \* the largest value rand32 may be given
    FloatOne,            \* the float 1.0; [0,1) is 0..FloatOne-1
    UUIDs,               \* the well-formed UUIDs, in lower case
    LowerCase            \* LowerCase[u]: a supplied UUID in lower case

ASSUME UnitsAssumption ==
    /\ {NanosPerSecond, NanosPerMilli, SecondsPerDay} \subseteq Nat \ {0}
    /\ NanosPerSecond % NanosPerMilli = 0

Pools == {"uint64", "float64", "uuid"}

(* The children of a node in the order of the walk. *)
Kids(n) ==
    LET keys == SetToSortSeq(DOMAIN n.fields, <)
    IN  IF DOMAIN n.fields = {} THEN <<>>
        ELSE FoldLeft(LAMBDA s, key : s \o n.fields[key], <<>>, keys)

(* The parts of a node's children follow one another up to the end of its own. *)
NumberedInOrder(t, last) ==
    /\ DOMAIN last = DOMAIN t /\ last[1] = Len(t)
    /\ \A i \in DOMAIN t : LET kids == Kids(t[i]) IN
          /\ last[i] \in i..Len(t) /\ kids \in Seq(DOMAIN t)
          /\ kids # <<>> => kids[1] = i + 1 /\ last[kids[Len(kids)]] = last[i]
          /\ \A k \in 1..(Len(kids) - 1) : kids[k + 1] = last[kids[k]] + 1

ASSUME RequestsAssumption ==
    \A r \in MaterializeRequests :
        /\ Len(r.tree) \in Nat \ {0} /\ DOMAIN r.tree = 1..Len(r.tree)
        /\ NumberedInOrder(r.tree, r.last)
        /\ \A i \in DOMAIN r.tree : r.tree[i].shape # "literal"
        /\ r.now \subseteq Int
        /\ \A pool \in Pools : Len(r.values[pool]) \in Nat

VARIABLES
    mreq,           \* the request
    at,             \* "policy", "parse", "walk", "regenerate", "generate", "done"
    tree,           \* the nodes, replaced as the walk goes
    toVisit,        \* the nodes the walk has yet to visit
    used,           \* how many values of each pool are used
    replacements,   \* the records of what was replaced
    answer          \* [Code, sql]: sql "none", "asGiven" or "generated"

mvars == <<mreq, at, tree, toVisit, used, replacements, answer>>

---------------------------------------------------------------------------
(* The functions whose value is not a matter of their arguments. *)

clockNow     == {"now", "current_timestamp", "localtimestamp", "localtime"}
clockUTC     == {"utctimestamp", "utc_timestamp"}
clockToday   == {"today", "current_date", "curdate"}
random32     == {"rand", "rand32"}
random64     == {"rand64", "random"}

isSupportedNondeterministic ==
    clockNow \cup clockUTC \cup {"now64"} \cup clockToday \cup {"yesterday"}
    \cup random32 \cup random64 \cup {"randcanonical", "generateuuidv4"}

(* The known ones that cannot be replaced stand for one another. *)
isKnownNondeterministic == isSupportedNondeterministic \cup {"randnormal", "any"}

---------------------------------------------------------------------------
(* Values.  An outcome is a literal [value, kind] or an error.             *)

(* Go's integer division. *)
Quotient(a, b) == IF a < 0 THEN -((-a) \div b) ELSE a \div b

Failed(why) == [ok |-> FALSE, why |-> why]
Literal(value, kind) == [ok |-> TRUE, lit |-> [value |-> value, kind |-> kind]]

(* Every reading of the clock is the one instant of the request. *)
Clock(kind, Reading(_)) ==
    IF mreq.now = {} THEN Failed("missing")
    ELSE Literal(Reading(CHOOSE ns \in mreq.now : TRUE), kind)

(* Mutant: the second is the nearest one. *)
nearestSecond(ns) == Quotient(ns + NanosPerSecond \div 2, NanosPerSecond)

nowSeconds(ns) == Quotient(ns, NanosPerSecond)

materializeNow == Clock("DateTime", nowSeconds)
materializeUTCTimestamp == Clock("DateTimeUTC", nowSeconds)
materializeNow64 == Clock("DateTime64", LAMBDA ns : Quotient(ns, NanosPerMilli))
materializeToday == Clock("Date", nowSeconds)
materializeYesterday == Clock("Date", LAMBDA ns : nowSeconds(ns) - SecondsPerDay)

(* Mutant: the index of the pool is not moved. *)
AlwaysFirst(pool) == 1

NextIndex(pool) == used[pool] + 1

(* The next value of a pool; a value that is refused is used up too.       *)
NextValue(pool, Accept(_)) ==
    IF NextIndex(pool) > Len(mreq.values[pool]) THEN Failed("missing")
    ELSE Accept(mreq.values[pool][NextIndex(pool)])

materializeRandom32 ==
    NextValue("uint64", LAMBDA v : IF v > MaxUInt32 THEN Failed("invalid") ELSE Literal(v, "UInt32"))
materializeRandom64 == NextValue("uint64", LAMBDA v : Literal(v, "UInt64"))
materializeRandomFloat64 ==
    NextValue("float64", LAMBDA v : IF v \notin 0..(FloatOne - 1) THEN Failed("invalid")
                                    ELSE Literal(v, "Float64"))
materializeUUID ==
    NextValue("uuid", LAMBDA v : IF LowerCase[v] \notin UUIDs THEN Failed("invalid")
                                 ELSE Literal(LowerCase[v], "UUID"))

(* The pool a replacement draws on. *)
PoolOf(name) ==
    IF name \in random32 \cup random64 THEN {"uint64"}
    ELSE IF name = "randcanonical" THEN {"float64"}
    ELSE IF name = "generateuuidv4" THEN {"uuid"} ELSE {}

ValueOf(name) ==
    CASE name \in clockNow         -> materializeNow
      [] name \in clockUTC         -> materializeUTCTimestamp
      [] name = "now64"            -> materializeNow64
      [] name \in clockToday       -> materializeToday
      [] name = "yesterday"        -> materializeYesterday
      [] name \in random32         -> materializeRandom32
      [] name \in random64         -> materializeRandom64
      [] name = "randcanonical"    -> materializeRandomFloat64
      [] name = "generateuuidv4"   -> materializeUUID

---------------------------------------------------------------------------
(* What a node is to the walk: nothing, a call to replace, or an error.    *)

Reserved == {"rand", "random", "current_date", "current_timestamp", "utc_timestamp"}

(* materializeRandNode and materializeSpecialNode: a key of its own. *)
ReservedCall(n) == IF n.args THEN Failed("unsupported") ELSE ValueOf(n.shape)

(* materializeColumnPseudoFunction: CURRENT_TIMESTAMP without parentheses. *)
IsPseudoFunction(n) == n.shape = "column" /\ ~n.args /\ n.name = "current_timestamp"

(* Mutant: a known function that cannot be replaced is let through.        *)
SupportedOnly(n) == n.shape = "function" /\ n.name \in isSupportedNondeterministic

IsCall(n) == n.shape = "function" /\ n.name \in isKnownNondeterministic

materializeFunction(n) ==
    IF n.name \notin isSupportedNondeterministic \/ n.args THEN Failed("unsupported")
    ELSE ValueOf(n.name)

---------------------------------------------------------------------------
MInit ==
    /\ mreq \in MaterializeRequests
    /\ at = "policy" /\ tree = mreq.tree /\ toVisit = <<1>>
    /\ used = [pool \in Pools |-> 0] /\ replacements = <<>>
    /\ answer = [Code |-> "Success", sql |-> IF mreq.nil THEN "none" ELSE "asGiven"]

Answer(code) == at' = "done" /\ answer' = [answer EXCEPT !.Code = code]

(* A nil request, an unknown profile or time zone. *)
materializationProfileID ==
    /\ at = "policy"
    /\ IF mreq.nil \/ mreq.badPolicy THEN Answer("InvalidRequest")
       ELSE at' = "parse" /\ UNCHANGED answer
    /\ UNCHANGED <<mreq, tree, toVisit, used, replacements>>

(* ParseOne, then CheckParsedInFull. *)
Parse ==
    /\ at = "parse"
    /\ IF mreq.syntaxError THEN Answer("SyntaxError") ELSE at' = "walk" /\ UNCHANGED answer
    /\ UNCHANGED <<mreq, tree, toVisit, used, replacements>>

materializeCodeForError(why) ==
    IF why = "unsupported" THEN "UnsupportedStatement" ELSE "InvalidRequest"

(* Mutant: a pool that is empty is used all the same. *)
UsedAnyway(name, outcome) ==
    [pool \in Pools |-> IF pool \in PoolOf(name) THEN used[pool] + 1 ELSE used[pool]]

(* A value is used up when it is read, refused or not. *)
UsedUp(name, outcome) ==
    [pool \in Pools |-> IF pool \in PoolOf(name) /\ (outcome.ok \/ outcome.why = "invalid")
                        THEN used[pool] + 1 ELSE used[pool]]

(* Put the literal in the node's place and record it, or stop the walk.    *)
Replace(id, name, outcome) ==
    /\ IF outcome.ok
       THEN /\ tree' = [tree EXCEPT ![id] = [shape |-> "literal", name |-> name, args |-> FALSE,
                                             fields |-> <<>>, lit |-> outcome.lit]]
            /\ replacements' = Append(replacements, [fn |-> name, ordinal |-> Len(replacements),
                                                     lit |-> outcome.lit])
            /\ toVisit' = Tail(toVisit)
            /\ UNCHANGED <<at, answer>>
       ELSE /\ Answer(materializeCodeForError(outcome.why))
            /\ UNCHANGED <<tree, replacements, toVisit>>
    /\ used' = UsedUp(name, outcome)
    /\ UNCHANGED mreq

Visiting(n) == at = "walk" /\ toVisit # <<>> /\ n = tree[Head(toVisit)]

WalkReserved ==
    \E n \in {tree[i] : i \in DOMAIN tree} :
        /\ Visiting(n) /\ n.shape \in Reserved
        /\ Replace(Head(toVisit), n.shape, ReservedCall(n))

WalkPseudoFunction ==
    \E n \in {tree[i] : i \in DOMAIN tree} :
        Visiting(n) /\ IsPseudoFunction(n) /\ Replace(Head(toVisit), n.name, materializeNow)

WalkFunction ==
    \E n \in {tree[i] : i \in DOMAIN tree} :
        Visiting(n) /\ IsCall(n) /\ Replace(Head(toVisit), n.name, materializeFunction(n))

(* Mutant: the children of a node wait for the nodes before it. *)
BreadthFirst(n) == Tail(toVisit) \o Kids(n)

Descend(n) == Kids(n) \o Tail(toVisit)

(* Any other node: its children are next. *)
WalkInto ==
    \E n \in {tree[i] : i \in DOMAIN tree} :
        /\ Visiting(n) /\ n.shape \notin Reserved /\ ~IsPseudoFunction(n) /\ ~IsCall(n)
        /\ toVisit' = Descend(n)
        /\ UNCHANGED <<mreq, at, tree, used, replacements, answer>>

(* The walk is over; without a replacement the SQL is returned as given.   *)
WalkDone ==
    /\ at = "walk" /\ toVisit = <<>>
    /\ at' = IF replacements = <<>> THEN "done" ELSE "regenerate"
    /\ UNCHANGED <<mreq, tree, toVisit, used, replacements, answer>>

(* Mutant: the statement is regenerated whatever that changes. *)
RegenerateUnchecked ==
    /\ at = "regenerate" /\ at' = "generate"
    /\ UNCHANGED <<mreq, tree, toVisit, used, replacements, answer>>

(* Regenerating may not change what the caller wrote. *)
CheckRegenerated ==
    /\ at = "regenerate"
    /\ IF mreq.dropsTokens THEN Answer("UnsupportedStatement") ELSE at' = "generate" /\ UNCHANGED answer
    /\ UNCHANGED <<mreq, tree, toVisit, used, replacements>>

Generate ==
    /\ at = "generate"
    /\ at' = "done"
    /\ answer' = IF mreq.generateFails THEN [answer EXCEPT !.Code = "Error"]
                 ELSE [answer EXCEPT !.sql = "generated"]
    /\ UNCHANGED <<mreq, tree, toVisit, used, replacements>>

Walk == WalkReserved \/ WalkPseudoFunction \/ WalkFunction \/ WalkInto \/ WalkDone

MNext == materializationProfileID \/ Parse \/ Walk \/ CheckRegenerated \/ Generate

(* One call runs to its end. *)
MSpec == MInit /\ [][MNext]_mvars

---------------------------------------------------------------------------
MTypeOK ==
    /\ at \in {"policy", "parse", "walk", "regenerate", "generate", "done"}
    /\ DOMAIN tree = DOMAIN mreq.tree
    /\ \A i \in DOMAIN toVisit : toVisit[i] \in DOMAIN tree
    /\ \A pool \in Pools : used[pool] \in 0..Len(mreq.values[pool])
    /\ answer.Code \in {"Success", "InvalidRequest", "SyntaxError", "UnsupportedStatement", "Error"}
    /\ answer.sql \in {"none", "asGiven", "generated"}

(* What the answer's SQL says: the nodes the root's children lead to. *)
Below ==
    {i \in DOMAIN tree :
        \A part \in SUBSET DOMAIN tree :
            1 \in part /\ (\A j \in part : Range(Kids(tree[j])) \subseteq part) => i \in part}

(* After a Success the statement holds no call whose value can differ from *)
(* run to run, however it is spelt and wherever it stands: what is signed  *)
(* is what is replayed (MaterializeNonDeterminism).                        *)
SuccessIsDeterministic ==
    at = "done" /\ answer.Code = "Success" =>
        \A i \in Below : LET n == tree[i] IN
            /\ n.shape \notin Reserved
            /\ ~(n.shape = "function" /\ n.name \in isKnownNondeterministic)
            /\ ~(n.shape = "column" /\ n.name = "current_timestamp" /\ ~n.args)

(* Of a kind's replacements the n-th holds the n-th value of its pool: no  *)
(* value is used twice, skipped, or taken for another kind, however the    *)
(* calls are nested (nextRandomUint64 and the other indices).              *)
KindsOf(pool) == CASE pool = "uint64"  -> {"UInt32", "UInt64"}
                   [] pool = "float64" -> {"Float64"}
                   [] pool = "uuid"    -> {"UUID"}
ValuesInOrder ==
    \A pool \in Pools, i \in DOMAIN replacements :
        LET drawn == Cardinality({j \in 1..i : replacements[j].lit.kind \in KindsOf(pool)})
        IN  /\ drawn <= used[pool]
            /\ replacements[i].lit.kind \in KindsOf(pool) =>
                  replacements[i].lit.value = IF pool = "uuid" THEN LowerCase[mreq.values[pool][drawn]]
                                              ELSE mreq.values[pool][drawn]

(* The records describe the statement returned: its literals, read in the  *)
(* order of the keys, are the records in the order of their ordinals.      *)
RecordsDescribeSQL ==
    at = "done" /\ answer.sql = "generated" =>
        LET literals == {i \in Below : tree[i].shape = "literal"}
        IN  /\ \A i \in DOMAIN replacements : replacements[i].ordinal = i - 1
            /\ \E place \in [DOMAIN replacements -> literals] :
                  /\ literals = Range(place)
                  /\ \A i, j \in DOMAIN replacements : i < j => place[i] < place[j]
                  /\ \A i \in DOMAIN replacements : tree[place[i]].lit = replacements[i].lit

(* All the times of one statement are readings of one instant: the date is *)
(* that of the second, the second that of the millisecond, whatever the    *)
(* sign of the instant.                                                    *)
OneInstant ==
    \A i, j \in DOMAIN replacements :
        LET a == replacements[i]
            b == replacements[j]
        IN  /\ a.lit.kind \in {"DateTime", "DateTimeUTC"} /\ b.lit.kind = "DateTime64"
                 => Quotient(b.lit.value, NanosPerSecond \div NanosPerMilli) = a.lit.value
            /\ a.lit.kind \in {"DateTime", "DateTimeUTC"} /\ b.fn \in clockToday
                 => b.lit.value = a.lit.value
            /\ a.fn = "yesterday" /\ b.fn \in clockToday
                 => b.lit.value - a.lit.value = SecondsPerDay

(* SQL that was changed is returned only with Success, and only if writing *)
(* it out again keeps the rest of what the caller wrote.                   *)
ChangedOnlyOnSuccess ==
    at = "done" /\ answer.sql = "generated" =>
        answer.Code = "Success" /\ replacements # <<>> /\ ~mreq.dropsTokens

(* What is answered can be replayed: a Success holds no volatile call, its *)
(* literals are the supplied values in order and readings of one instant,  *)
(* its records describe it, and nothing half-replaced is returned.         *)
AnswerReplayable ==
    /\ MTypeOK /\ SuccessIsDeterministic /\ ValuesInOrder /\ RecordsDescribeSQL
    /\ OneInstant /\ ChangedOnlyOnSuccess
=============================================================================
