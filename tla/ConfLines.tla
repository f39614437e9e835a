----------------------------- MODULE ConfLines -----------------------------
(***************************************************************************)
(* How a line of flyo.conf or flyo-proxy.conf is cut into tokens: both     *)
(* parsers hold the same tokenize() and normalize_listen().                *)
(*                                                                         *)
(* A line is a sequence of characters: "q" is the double quote, "s" a      *)
(* space, and every other value a character or a run of characters that    *)
(* the parsers never take apart.  A token is a sequence of characters.     *)
(* Letter case is left out, a line is given as trim() leaves it, and the   *)
(* parsers pass over a comment as over a line with an unknown directive.   *)
(***************************************************************************)
EXTENDS Naturals, FiniteSets, Sequences, SequencesExt

CONSTANT Digit   \* the characters that are ASCII digits

(* What is in `current` becomes a token, unless it is empty.               *)
Flush(t) ==
  IF t.current = << >> THEN t
  ELSE [t EXCEPT !.out = Append(@, t.current), !.current = << >>]

Lex(t, ch) ==
  IF ch = "q" THEN [t EXCEPT !.in_quotes = ~@]
  ELSE IF ch = "s" /\ ~t.in_quotes THEN Flush(t)
  ELSE [t EXCEPT !.current = Append(@, ch)]

(* Mutation of Tokenize: a quote ends a token.                             *)
CutAtQuotes(line) ==
  LET lex(t, ch) == Lex(IF ch = "q" THEN Flush(t) ELSE t, ch)
      empty == [out |-> << >>, current |-> << >>, in_quotes |-> FALSE]
  IN  Flush(FoldLeft(lex, empty, line)).out

Tokenize(line) ==
  LET empty == [out |-> << >>, current |-> << >>, in_quotes |-> FALSE]
  IN  Flush(FoldLeft(Lex, empty, line)).out

Has(token, ch) == ch \in ToSet(token)

NormalizeListen(raw) ==
  IF ~Has(raw, ":") /\ ToSet(raw) \subseteq Digit
  THEN << "0.0.0.0", ":" >> \o raw ELSE raw

-----------------------------------------------------------------------------
(* The words of a line, without a state: a space outside of quotes is a    *)
(* gap, every other character but the quotes is ink, and a word is the ink *)
(* between two gaps, if there is any.                                      *)
Gaps(line) ==
  {i \in DOMAIN line :
     /\ line[i] = "s"
     /\ Cardinality({j \in 1 .. i : line[j] = "q"}) % 2 = 0}

Ink(line) == {i \in DOMAIN line : line[i] # "q"} \ Gaps(line)

Nth(S, k) == CHOOSE i \in S : Cardinality({j \in S : j <= i}) = k

Word(line, i) ==
  {j \in Ink(line) : (i .. j \union j .. i) \intersect Gaps(line) = {}}

Starts(line) == {i \in Ink(line) : \A j \in Word(line, i) : i <= j}

Spelled(line, S) == [k \in 1 .. Cardinality(S) |-> line[Nth(S, k)]]

Words(line) ==
  [n \in 1 .. Cardinality(Starts(line)) |->
     Spelled(line, Word(line, Nth(Starts(line), n)))]
=============================================================================
