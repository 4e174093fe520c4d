------------------------- MODULE MCRegeneratedGate -------------------------
(* Instances of RegeneratedGate for TLC. *)
EXTENDS RegeneratedGate

MCOperands == <<"a", "b", "c", "d", "e">>
MCInfix == {<<op>> : op \in {"OR", "AND", "BETWEEN", "=", "<=>", "DIV", "?", ":", ","}} \cup {<<"NOT", "LIKE">>}

MCLevels ==
    [op \in Operators |->
        CASE op = "OR" -> 1 [] op = "AND" -> 2 [] op = "NOT" -> 3 [] op = "IND" -> 4 [] op = "BETWEEN" -> 5
          [] op \in {"=", "<=>", "LIKE", "NOT LIKE"} -> 6 [] op = "+" -> 7 [] op = "DIV" -> 8]

(* NOT before everything; BETWEEN and the comparisons at one level; <=> by itself. *)
MCPolyglotLevels ==
    {MCLevels,
     [MCLevels EXCEPT !["NOT"] = 9],
     [MCLevels EXCEPT !["BETWEEN"] = 6, !["IND"] = 6, !["<=>"] = 4]}

MCVerbatim == {{}, {"DIV", "<=>", "NOT LIKE", "?"}}
============================================================================
