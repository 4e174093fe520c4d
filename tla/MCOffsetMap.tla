---------------------------- MODULE MCOffsetMap ----------------------------
(* Every pair of texts of up to four bytes over two letters or three bytes *)
(* over three, and a name of two bytes swapped inside a longer text.       *)
EXTENDS OffsetMap

CONSTANT MaxLength      \* of a text over two letters

Over(letters, length) == UNION {[1..n -> letters] : n \in 0..length}

ShortTexts ==
    Over({"a", "b"}, MaxLength) \cup Over({"a", "b", "c"}, MaxLength - 1)
    \cup {<<"a", "c", "d", "b">>, <<"a", "c", "d", "c", "b">>}

SomePositions == {0, 2, 5}
============================================================================
