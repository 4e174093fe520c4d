-------------------------- MODULE MCErrorInversion --------------------------
(***************************************************************************)
(* Error texts put together from the ways ClickHouse names things: a       *)
(* phrase is a sequence of items, each with its physical and its logical   *)
(* spelling.                                                               *)
(***************************************************************************)
EXTENDS ErrorInversion

CONSTANT PhraseLength   \* items in a phrase

l == <<108>>
p == <<112>>
m == <<109>>
r == <<114>>
t == <<116>>
u == <<117>>
s == <<115>>
z == <<120>>
P == <<80>>
v == <<118, 45, 118>>   \* v-v: a name that overlaps itself
dot == <<Dot>>
blank == <<32>>
Q(n) == <<Quote>> \o n \o <<Quote>>

Item(physical, logical) == [physical |-> physical, logical |-> logical]
Same(word) == Item(word, word)

(* The dynamic table l.t is p."l.t"; the static table l.u is p.u. *)
Tables == (l \o dot \o t :> p \o dot \o l \o dot \o t) @@ (l \o dot \o u :> p \o dot \o u)
Databases == (l :> p) @@ (m :> r)

Original  == s \o blank \o l \o dot \o u
Rewritten == s \o blank \o p \o dot \o u

CleanItems == {
    Item(p \o dot \o Q(l \o dot \o t), l \o dot \o t), Item(Q(p) \o dot \o Q(l \o dot \o t), l \o dot \o t),
    Item(p \o dot \o u, l \o dot \o u), Item(P \o dot \o Q(u), l \o dot \o u),
    Item(p, l), Item(Q(p), l), Item(P, l), Item(r, m),
    Item(Rewritten, Original), Item(s \o blank \o blank \o p \o dot \o u, Original),
    Same(p \o z), Same(z \o p), Same(z)}

(* Spellings the substitutions do not reach. *)
StrayItems == {Same(z \o Q(p)), Same(p \o <<Quote>> \o z), Same(p \o p \o dot \o p), Same(z \o z \o z \o z),
               Same(v), Same(z \o v \o <<45, 118>>)}

Phrases(items) == UNION {[1..n -> items] : n \in 0..PhraseLength}

Said(phrase, Side(_)) ==
    FoldLeft(LAMBDA said, i : IF said = <<>> THEN Side(i) ELSE said \o blank \o Side(i), <<>>, phrase)

Error(phrase, clean, tables, databases) ==
    [message |-> Said(phrase, LAMBDA i : i.physical), logical |-> Said(phrase, LAMBDA i : i.logical),
     clean |-> clean, original |-> Original, rewritten |-> Rewritten,
     tables |-> tables, databases |-> databases,
     hidden |-> {p, r, v, <<>>}, literals |-> {z \o z \o z \o z}]

SomeErrors ==
    {Error(f, TRUE, Tables, Databases) : f \in Phrases(CleanItems)}
    \cup {Error(f, FALSE, Tables, Databases) : f \in Phrases(StrayItems \cup {Item(p, l), Same(z)})}
=============================================================================
