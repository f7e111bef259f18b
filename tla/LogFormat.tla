------------------------------ MODULE LogFormat ------------------------------
(***************************************************************************)
(* LogFormatter::init(): a pattern such as "%d{%H:%M}%T[%p] %m%n" becomes  *)
(* the list of items that print an event, or an error.  A pattern is a     *)
(* sequence of characters; of letters only matters whether they name an    *)
(* item, of other characters only whether they are %, { or }.              *)
(*                                                                         *)
(* The parser is stated once as the code has it, from left to right, and   *)
(* once as the grammar of the patterns that the README describes.          *)
(***************************************************************************)
EXTENDS Integers, Sequences, FiniteSets, FiniteSetsExt, SequencesExt

CONSTANTS
  Keys,       \* letters that name an item: m, p, r, c, t, n, d, f, l, T, F, N
  Strangers,  \* letters that name none
  Others,     \* characters that are no letters, and not %, { or }
  MaxPattern  \* bound: the length of the patterns that are compared

Letters == Keys \cup Strangers
Chars == Letters \cup Others \cup {"%", "{", "}"}

(* A piece of vec, the list that init() makes first: raw text, the mark of *)
(* an error, or an item with what stands between its braces.               *)
Raw(str) == [type |-> "raw", str |-> str, fmt |-> <<>>]
Item(str, fmt) == [type |-> "item", str |-> str, fmt |-> fmt]
PatternError == [type |-> "mark", str |-> <<>>, fmt |-> <<>>]

-----------------------------------------------------------------------------
(* The parser.                                                             *)

(* The first position after i with a character of C, or the end.           *)
FirstOf(p, i, C) == Min({n \in i + 1 .. Len(p) : p[n] \in C} \cup {Len(p) + 1})

(* Mutant: the format ends at the last brace of the pattern.               *)
FormatEnd_Last(p, b) ==
  IF \E n \in b + 1 .. Len(p) : p[n] = "}"
  THEN Max({n \in b + 1 .. Len(p) : p[n] = "}"}) ELSE Len(p) + 1

FormatEnd(p, b) == FirstOf(p, b, {"}"})

(* What starts at position i: the piece, and the position of the next one. *)
(* A % before a % is a plain %; the second one is looked at again.  The    *)
(* name of an item is all letters and closing braces that follow.  After a *)
(* brace that is not closed, the text after the % is read again as raw.    *)
Piece(p, i) ==
  LET e == FirstOf(p, i, Chars \ (Letters \cup {"}"}))
      c == FormatEnd(p, e)
      name == SubSeq(p, i + 1, e - 1)
  IN IF p[i] # "%" THEN [piece |-> Raw(<<p[i]>>), next |-> i + 1]
     ELSE IF i < Len(p) /\ p[i + 1] = "%" THEN [piece |-> Raw(<<"%">>), next |-> i + 1]
     ELSE IF e > Len(p) \/ p[e] # "{" THEN [piece |-> Item(name, <<>>), next |-> e]
     ELSE IF c > Len(p) THEN [piece |-> PatternError, next |-> i + 1]
     ELSE [piece |-> Item(name, SubSeq(p, e + 1, c - 1)), next |-> c + 1]

(* All pieces of p.                                                        *)
Pieces(p) ==
  LET From[i \in 1..Len(p) + 1] ==
        IF i > Len(p) THEN <<>>
        ELSE <<Piece(p, i).piece>> \o From[Piece(p, i).next]
  IN From[1]

(* Raw characters are collected in nstr until an item comes, or the end;   *)
(* the mark of an error goes before the text collected so far.             *)
Collect(acc, piece) ==
  LET flushed == IF acc.nstr = <<>> THEN acc.vec ELSE Append(acc.vec, Raw(acc.nstr))
  IN CASE piece.type = "raw"  -> [acc EXCEPT !.nstr = @ \o piece.str]
       [] piece.type = "mark" -> [acc EXCEPT !.vec = Append(@, piece)]
       [] OTHER               -> [vec |-> Append(flushed, piece), nstr |-> <<>>]

(* The items of a pattern, in the order in which they print.               *)
Items(p) ==
  LET acc == FoldLeft(Collect, [vec |-> <<>>, nstr |-> <<>>], Pieces(p))
  IN IF acc.nstr = <<>> THEN acc.vec ELSE Append(acc.vec, Raw(acc.nstr))

(* s_format_items has the name.                                            *)
Known(str) == Len(str) = 1 /\ str[1] \in Keys

(* m_error: a brace is not closed, or a name is unknown.                   *)
IsError(p) ==
  \E k \in DOMAIN Items(p) :
    \/ Items(p)[k].type = "mark"
    \/ Items(p)[k].type = "item" /\ ~Known(Items(p)[k].str)

-----------------------------------------------------------------------------
(* The grammar: text without %, items %k, and items %k{format}.            *)

Patterns == BoundedSeq(Chars, MaxPattern)

(* The parts that a pattern of the grammar is made of, n characters long.  *)
Plain(c) == [text |-> <<c>>, means |-> Raw(<<c>>), bare |-> FALSE]
Bare(k) == [text |-> <<"%", k>>, means |-> Item(<<k>>, <<>>), bare |-> TRUE]
Braced(k, f) == [text |-> <<"%", k, "{">> \o f \o <<"}">>, means |-> Item(<<k>>, f), bare |-> FALSE]

Parts(n) ==
  (IF n = 1 THEN {Plain(c) : c \in Chars \ {"%"}} ELSE {})
  \cup (IF n = 2 THEN {Bare(k) : k \in Keys} ELSE {})
  \cup (IF n < 4 THEN {}
        ELSE {Braced(k, f) : k \in Keys, f \in [1..n - 4 -> Chars \ {"}"}]})

(* After %k a letter or a brace would belong to the item.                  *)
MayFollow(d, part) == d # <<>> /\ Last(d).bare => part.text[1] \notin Letters \cup {"{", "}"}

(* All pattern texts of the grammar, by length, as lists of parts.         *)
Sentences ==
  LET Of[n \in 0..MaxPattern] ==
        IF n = 0 THEN {<<>>}
        ELSE UNION {{Append(dp[1], dp[2]) :
                       dp \in {x \in Of[n - k] \X Parts(k) : MayFollow(x[1], x[2])}} : k \in 1..n}
  IN UNION {Of[n] : n \in 0..MaxPattern}

Text(d) == FoldLeft(LAMBDA s, part : s \o part.text, <<>>, d)

(* Neighbouring characters are one text.                                   *)
Meaning(d) ==
  FoldLeft(LAMBDA s, part :
             IF s # <<>> /\ Last(s).type = "raw" /\ part.means.type = "raw"
             THEN Front(s) \o <<Raw(Last(s).str \o part.means.str)>>
             ELSE Append(s, part.means), <<>>, d)

(* Init accepts exactly the patterns of the grammar and gives each its     *)
(* meaning, patterns with a doubled % outside braces aside: no pattern is  *)
(* accepted that drops, doubles or reorders a part.                        *)
AcceptsGrammar ==
  {<<p, Items(p)>> : p \in {q \in Patterns :
      ~IsError(q) /\ \A k \in DOMAIN Pieces(q) : Pieces(q)[k] # Raw(<<"%">>)}}
  = {<<Text(d), Meaning(d)>> : d \in Sentences}
=============================================================================
