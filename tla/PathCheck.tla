------------------------------- MODULE PathCheck -------------------------------
(* PathValidator::validate() as the scanner calls it: strict, absolute, and  *)
(* the directory must be there.  A path is a sequence of bytes.              *)
EXTENDS CommandText

CONSTANT MaxPath   \* maxPathLength: 4096
ASSUME MaxPathAssumption == MaxPath \in Nat

Slash == 47

(* "..", "%2e%2e", "%2E%2E", "%252e", "%252E", "%c0%ae", "%C0%AE" *)
Traversals == {<<46, 46>>, <<37, 50, 101, 37, 50, 101>>, <<37, 50, 69, 37, 50, 69>>,
               <<37, 50, 53, 50, 101>>, <<37, 50, 53, 50, 69>>,
               <<37, 99, 48, 37, 97, 101>>, <<37, 67, 48, 37, 65, 69>>}
ContainsPathTraversal(s) == \E t \in Traversals : Occurs(t, s)

Holds(s, bytes) == \E i \in 1..Len(s) : s[i] \in bytes
ControlCharacters == (0..31 \ {Tab}) \cup {127}
(* | ; & $ ` " ' < > ( ) { } [ ] ! # * ? \ ~ *)
ShellMetacharacters == {124, 59, 38, 36, 96, 34, 39, 60, 62, 40, 41, 123, 125, 91, 93,
                        33, 35, 42, 63, 92, 126, Newline, Return}

(* The bytes at i that isValidUtf8() takes for a character; 0 for none.      *)
Continues(s, i, n) == i + n <= Len(s) /\ \A j \in (i + 1)..(i + n) : s[j] \in 128..191

(* Mutant: a character of four bytes may be one of three, padded. *)
CharacterLengthPadded(s, i) ==
  LET c == s[i]
  IN  CASE c <= 127 -> 1
        [] c \in 192..223 /\ Continues(s, i, 1) /\ c >= 194 -> 2
        [] c \in 224..239 /\ Continues(s, i, 2) /\ ~(c = 224 /\ s[i + 1] < 160) -> 3
        [] c \in 240..247 /\ Continues(s, i, 3) /\ c <= 244 /\ ~(c = 244 /\ s[i + 1] > 143) -> 4
        [] OTHER -> 0

CharacterLength(s, i) ==
  LET c == s[i]
  IN  CASE c <= 127 -> 1
        [] c \in 192..223 /\ Continues(s, i, 1) /\ c >= 194 -> 2
        [] c \in 224..239 /\ Continues(s, i, 2) /\ ~(c = 224 /\ s[i + 1] < 160) -> 3
        [] c \in 240..247 /\ Continues(s, i, 3) /\ ~(c = 240 /\ s[i + 1] < 144)
             /\ c <= 244 /\ ~(c = 244 /\ s[i + 1] > 143) -> 4
        [] OTHER -> 0

IsValidUtf8(s) ==
  LET from[i \in 1..(Len(s) + 1)] ==
        IF i > Len(s) THEN TRUE
        ELSE CharacterLength(s, i) # 0 /\ from[i + CharacterLength(s, i)]
  IN  from[1]

(* Trailing slashes go, the first character stays. *)
NormalizePath(s) ==
  LET kept == {i \in 1..Len(s) : i = 1 \/ s[i] \notin {Slash, Backslash}}
  IN  SubSeq(s, 1, CHOOSE i \in kept : \A j \in kept : j <= i)

(* The checks in their order, and when each of them fails. *)
Checks == <<"EmptyPath", "PathTooLong", "ContainsNullByte", "ContainsPathTraversal",
            "ContainsControlCharacters", "ContainsShellMetacharacters", "InvalidUtf8",
            "Relative", "PathDoesNotExist", "PathNotAccessible", "PathNotDirectory", "None">>

(* What may be at a path; its status may be refused though it exists. *)
Kinds == {"nothing", "inaccessible", "other", "directory"}

Fails(check, s, there) ==
  CASE check = "EmptyPath"                   -> s = <<>>
    [] check = "PathTooLong"                 -> Len(s) > MaxPath
    [] check = "ContainsNullByte"            -> Holds(s, {0})
    [] check = "ContainsPathTraversal"       -> ContainsPathTraversal(s)
    [] check = "ContainsControlCharacters"   -> Holds(s, ControlCharacters)
    [] check = "ContainsShellMetacharacters" -> Holds(s, ShellMetacharacters)
    [] check = "InvalidUtf8"                 -> ~IsValidUtf8(s)
    [] check = "Relative"                    -> s = <<>> \/ s[1] # Slash
    [] check = "PathDoesNotExist"            -> there = "nothing"
    [] check = "PathNotAccessible"           -> there = "inaccessible"
    [] check = "PathNotDirectory"            -> there # "directory"
    [] check = "None"                        -> TRUE

Validate(input, there) ==
  LET s == Trim(input)
      error == CHOOSE e \in {Checks[i] : i \in 1..Len(Checks)} :
                 \E i \in 1..Len(Checks) : /\ Checks[i] = e /\ Fails(e, s, there)
                                          /\ \A j \in 1..(i - 1) : ~Fails(Checks[j], s, there)
  IN  [error |-> error, path |-> IF error = "None" THEN NormalizePath(s) ELSE <<>>]

-------------------------------------------------------------------------------
(* What UTF-8 is, apart from surrogates: a text falls into characters, each  *)
(* the shortest encoding of a code point.                                    *)
CodePoint(b) ==
  CASE Len(b) = 1 -> b[1]
    [] Len(b) = 2 -> (b[1] - 192) * 64 + (b[2] - 128)
    [] Len(b) = 3 -> (b[1] - 224) * 4096 + (b[2] - 128) * 64 + (b[3] - 128)
    [] Len(b) = 4 -> (b[1] - 240) * 262144 + (b[2] - 128) * 4096 + (b[3] - 128) * 64 + (b[4] - 128)

IsCharacter(b) ==
  /\ \A i \in 2..Len(b) : b[i] \in 128..191
  /\ CASE Len(b) = 1 -> b[1] \in 0..127
       [] Len(b) = 2 -> b[1] \in 192..223 /\ 128 <= CodePoint(b) /\ CodePoint(b) <= 2047
       [] Len(b) = 3 -> b[1] \in 224..239 /\ 2048 <= CodePoint(b) /\ CodePoint(b) <= 65535
       [] Len(b) = 4 -> b[1] \in 240..247 /\ 65536 <= CodePoint(b) /\ CodePoint(b) <= 1114111
       [] OTHER -> FALSE

WellFormed(s) ==
  \E ends \in SUBSET (1..Len(s)) :
    /\ Len(s) \in ends
    /\ \A e \in ends : LET before == {f \in ends : f < e}
                           start == IF before = {} THEN 1 ELSE 1 + CHOOSE f \in before : \A g \in before : g <= f
                       IN  IsCharacter(SubSeq(s, start, e))
===============================================================================
