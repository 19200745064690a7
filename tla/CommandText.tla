------------------------------ MODULE CommandText ------------------------------
(* Commands and answers as text: what CommandDispatcher.cpp and Json.h do    *)
(* with it.  A text is a sequence of bytes.                                  *)
EXTENDS Integers, SequencesExt, FiniteSetsExt

Tab == 9   Newline == 10   Return == 13   Blank == 32   Quote == 34   Backslash == 92
IsSpace(c) == c \in 9..13 \cup {Blank}
IsDigit(c) == c \in 48..57

Lower(c) == IF c \in 65..90 THEN c + 32 ELSE c
IEquals(s, t) == Len(s) = Len(t) /\ \A i \in 1..Len(s) : Lower(s[i]) = Lower(t[i])

Occurs(needle, s) ==
  \E i \in 0..(Len(s) - Len(needle)) : SubSeq(s, i + 1, i + Len(needle)) = needle

Trim(s) ==
  LET ink == {i \in 1..Len(s) : ~IsSpace(s[i])}
  IN  IF ink = {} THEN <<>> ELSE SubSeq(s, Min(ink), Max(ink))

(* std::from_chars() into an int: [some, value] *)
ParseInt(s, max) ==
  LET negative == s # <<>> /\ s[1] = 45
      digits == IF negative THEN Tail(s) ELSE s
      value[i \in 0..Len(digits)] == IF i = 0 THEN 0 ELSE 10 * value[i - 1] + (digits[i] - 48)
      number == IF negative THEN -value[Len(digits)] ELSE value[Len(digits)]
  IN  IF digits # <<>> /\ (\A i \in 1..Len(digits) : IsDigit(digits[i])) /\ number \in (-max - 1)..max
      THEN [some |-> TRUE, value |-> number]
      ELSE [some |-> FALSE, value |-> 0]

-------------------------------------------------------------------------------
(* Arguments *)

(* One character of tokenize(); a backslash in quotes waits for the next.    *)
TokenStep(st, c) ==
  CASE st.quoted /\ st.escaped                  -> [st EXCEPT !.current = Append(@, c), !.escaped = FALSE]
    [] st.quoted /\ ~st.escaped /\ c = Backslash -> [st EXCEPT !.escaped = TRUE]
    [] st.quoted /\ ~st.escaped /\ c = Quote     -> [st EXCEPT !.quoted = FALSE]
    [] ~st.quoted /\ c = Quote                   -> [st EXCEPT !.quoted = TRUE, !.inToken = TRUE]
    [] ~st.quoted /\ IsSpace(c)                  -> [st EXCEPT !.tokens = IF st.inToken THEN Append(@, st.current) ELSE @,
                                                               !.current = <<>>, !.inToken = FALSE]
    [] OTHER                                     -> [st EXCEPT !.current = Append(@, c), !.inToken = TRUE]

Tokenize(s) ==
  LET run[i \in 0..Len(s)] ==
        IF i = 0
        THEN [tokens |-> <<>>, current |-> <<>>, inToken |-> FALSE, quoted |-> FALSE, escaped |-> FALSE]
        ELSE TokenStep(run[i - 1], s[i])
      end == run[Len(s)]
      rest == IF end.escaped THEN Append(end.current, Backslash) ELSE end.current
  IN  IF end.inToken THEN Append(end.tokens, rest) ELSE end.tokens

Escaped(c) == IF c \in {Quote, Backslash} THEN <<Backslash, c>> ELSE <<c>>
InQuotes(s) == <<Quote>> \o FlattenSeq([i \in 1..Len(s) |-> Escaped(s[i])]) \o <<Quote>>

NeedsQuotes(s) == s = <<>> \/ \E i \in 1..Len(s) : s[i] \in {Quote, Backslash} \/ IsSpace(s[i])

(* Mutant: a backslash alone does not call for quotes, nor is it escaped. *)
QuoteArgPlain(s) ==
  IF s = <<>> \/ \E i \in 1..Len(s) : s[i] = Quote \/ IsSpace(s[i])
  THEN <<Quote>> \o FlattenSeq([i \in 1..Len(s) |-> IF s[i] = Quote THEN Escaped(s[i]) ELSE <<s[i]>>]) \o <<Quote>>
  ELSE s

QuoteArg(s) == IF NeedsQuotes(s) THEN InQuotes(s) ELSE s

SingleArg(args) ==
  LET s == Trim(args)
  IN  IF s = <<>> \/ s[1] # Quote THEN s
      ELSE IF Tokenize(s) = <<>> THEN <<>> ELSE Tokenize(s)[1]

(* pickIndex(): a number or a name; 0 stands for none *)
PickIndex(arg, names, max) ==
  LET n == ParseInt(arg, max)
      named == {i \in 1..Len(names) : IEquals(arg, names[i])}
  IN  IF n.some /\ n.value \in 1..Len(names) THEN n.value
      ELSE IF named # {} THEN Min(named) ELSE 0

-------------------------------------------------------------------------------
(* Answers *)

HexDigit(n) == IF n < 10 THEN 48 + n ELSE 87 + n
HexValue(c) == IF IsDigit(c) THEN c - 48 ELSE c - 87

(* Mutant: only what JSON readers stumble over first is escaped. *)
JsonEscapedSome(c) ==
  IF c \in {Quote, Backslash} THEN <<Backslash, c>> ELSE <<c>>

JsonEscaped(c) ==
  CASE c \in {Quote, Backslash} -> <<Backslash, c>>
    [] c = Newline              -> <<Backslash, 110>>
    [] c = Return               -> <<Backslash, 114>>
    [] c = Tab                  -> <<Backslash, 116>>
    [] c < 32 /\ ~(c \in {Tab, Newline, Return})
                                -> <<Backslash, 117, 48, 48, HexDigit(c \div 16), HexDigit(c % 16)>>
    [] OTHER                    -> <<c>>

JsonQuote(s) == <<Quote>> \o FlattenSeq([i \in 1..Len(s) |-> JsonEscaped(s[i])]) \o <<Quote>>

(* toJson(), with "ok" and "message" shortened to their first letters. *)
OkKey == <<123, Quote, 111, Quote, 58>>
MessageKey == <<Quote, 109, Quote, 58>>
ToJson(ok, message) ==
  OkKey \o <<IF ok THEN 116 ELSE 102, 44>> \o MessageKey \o JsonQuote(message) \o <<125>>

(* What stands for the byte after a backslash. *)
Unescaped(e) ==
  CASE e = 110 -> Newline [] e = 114 -> Return [] e = 116 -> Tab [] OTHER -> e

(* findString(doc, "message"): [some, value] *)
FindMessage(doc) ==
  LET needle == MessageKey \o <<Quote>>
      at == {i \in 1..(Len(doc) + 1 - Len(needle)) : SubSeq(doc, i, i + Len(needle) - 1) = needle}
      None == [some |-> FALSE, value |-> <<>>]
      With(c, r) == [r EXCEPT !.value = <<c>> \o @]
      read[i \in 1..(Len(doc) + 5)] ==
        IF i > Len(doc) THEN None
        ELSE IF doc[i] = Quote THEN [some |-> TRUE, value |-> <<>>]
        ELSE IF doc[i] # Backslash \/ i = Len(doc) THEN With(doc[i], read[i + 1])
        ELSE IF doc[i + 1] # 117 THEN With(Unescaped(doc[i + 1]), read[i + 2])
        ELSE IF i + 5 <= Len(doc)
             THEN With(16 * HexValue(doc[i + 4]) + HexValue(doc[i + 5]), read[i + 6])
             ELSE read[i + 2]
  IN  IF at = {} THEN None ELSE read[Min(at) + Len(needle)]
===============================================================================
