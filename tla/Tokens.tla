------------------------------- MODULE Tokens -------------------------------
(***************************************************************************)
(* Polyglot's token stream (tokenizeRaw), from which the commands and the  *)
(* texts Polyglot has no grammar for are read.  A token has a type and a   *)
(* text.  The text is a sequence of words, so that the one quoted name     *)
(* `a.b` and the three tokens of a.b are told apart and still spell alike. *)
(***************************************************************************)
EXTENDS Naturals, Sequences, FiniteSets, SequencesExt

Kw(w)     == [type |-> w, text |-> <<w>>]                       \* a keyword or sign
Var(w)    == [type |-> "VAR", text |-> <<w>>]                   \* a bare word
Quoted(s) == [type |-> "QUOTED_IDENTIFIER", text |-> s]
Str(s)    == [type |-> "STRING", text |-> s]

NameTypes == {"VAR", "QUOTED_IDENTIFIER"}
isNameTok(tok) == tok.type \in NameTypes

(* A token that can be grammar: no literal and no quoted identifier. *)
opaqueKeyword(tok) == tok.type \notin {"STRING", "QUOTED_IDENTIFIER"}

(* The type of s[i], "" past the end. *)
TypeAt(s, i) == IF i \in DOMAIN s THEN s[i].type ELSE ""
TextAt(s, i) == IF i \in DOMAIN s THEN s[i].text ELSE <<>>

(* Is s[i] the keyword w, in any spelling but a quoted one? *)
Word(s, i, w) == i \in DOMAIN s /\ opaqueKeyword(s[i]) /\ s[i].text = <<w>>

From(s, i) == SubSeq(s, i, Len(s))
============================================================================
