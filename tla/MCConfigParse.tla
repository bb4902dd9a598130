---------------------------- MODULE MCConfigParse ----------------------------
(***************************************************************************)
(* One call of parse_version or parse_bytes on every string of at most    *)
(* MaxLen lexemes over a small alphabet.  validate_config calls            *)
(* parse_version on the "version" string; parse_volume calls parse_bytes  *)
(* on a string "max_size".                                                 *)
(***************************************************************************)
EXTENDS ConfigParse

CONSTANTS MaxLen,        \* bound on the number of lexemes of a string
          VersionNums,   \* the digit runs of version strings
          SizeNums,      \* the digit runs of size strings
          FractionNums   \* the digit runs allowed after a '.'

VARIABLES fn, input, called, result

vars == <<fn, input, called, result>>

(***************************************************************************)
(* The strings of at most MaxLen lexemes of A in which no two digit runs  *)
(* and no two words of W are adjacent (they would be one run, one word),  *)
(* and every run after a '.' is in FractionNums.  Built lexeme by lexeme. *)
(***************************************************************************)
Follows(s, x, W) ==
  \/ s = <<>>
  \/ /\ ~(IsNum(Last(s)) /\ IsNum(x))
     /\ ~(Last(s) \in W /\ x \in W)
     /\ Last(s) = Dot /\ IsNum(x) => x[2] \in FractionNums

Grow(S, n, A, W) ==
  S \cup {Append(p[1], p[2]) :
           p \in {q \in {t \in S : Len(t) = n} \X A : Follows(q[1], q[2], W)}}

RECURSIVE LexStrings(_, _, _)
LexStrings(k, A, W) ==
  IF k = 0 THEN {<<>>} ELSE Grow(LexStrings(k - 1, A, W), k - 1, A, W)

VersionStrings ==
  LexStrings(MaxLen, {Num(n) : n \in VersionNums} \cup {Dot, Space, Minus, Nul, Word("x")},
             {})

SizeWords == {Word(w) : w \in {"B", "KB", "MB", "GB", "TB", "x"}}
SizeStrings ==
  LexStrings(MaxLen, {Num(n) : n \in SizeNums} \cup {Dot, Space, Minus} \cup SizeWords,
             SizeWords)

Init ==
  /\ \/ fn = "version" /\ input \in VersionStrings
     \/ fn = "bytes" /\ input \in SizeStrings
  /\ called = FALSE
  /\ result = [ok |-> FALSE]

(* validate_config's call of parse_version (line 142). *)
CallParseVersion ==
  /\ ~called /\ fn = "version"
  /\ result' = ParseVersion(input)
  /\ called' = TRUE
  /\ UNCHANGED <<fn, input>>

(* parse_volume's call of parse_bytes (line 189). *)
CallParseBytes ==
  /\ ~called /\ fn = "bytes"
  /\ result' \in ParseBytes(input)
  /\ called' = TRUE
  /\ UNCHANGED <<fn, input>>

Next == CallParseVersion \/ CallParseBytes

Spec == Init /\ [][Next]_vars
-----------------------------------------------------------------------------
(***************************************************************************)
(* parse_version reads every version written MAJOR.MINOR with both parts  *)
(* in 0..255 as exactly those numbers: two stoul calls, the separator     *)
(* skip of line 159 and the end and range checks must all agree.          *)
(***************************************************************************)
ParseVersionComplete ==
  called /\ fn = "version" /\ WrittenVersion(input)
    => result = [ok |-> TRUE, major |-> input[1][2], minor |-> input[3][2]]

(***************************************************************************)
(* The range check of lines 167-168 means an accepted version has the     *)
(* numbers written in the string: major is the first digit run and minor  *)
(* the second.  The int conversion of stoul's result (lines 151-160)      *)
(* wraps modulo 2^32 first.                                                *)
(***************************************************************************)
VersionIsWritten ==
  called /\ fn = "version" /\ result.ok
    => LET ns == NumbersIn(input)
       IN  Len(ns) = 2 /\ ns[1][2] = result.major /\ ns[2][2] = result.minor

(***************************************************************************)
(* parse_bytes rejects every string outside the size format, and reads    *)
(* every non-negative size that fits size_t and whose number a double     *)
(* holds exactly as that many bytes: the stream states after the number,  *)
(* the unit table, the '.' rules and the eof test of lines 203-228 agree. *)
(***************************************************************************)
SizeAgrees(z) ==
  /\ ~z.valid => ~result.ok
  /\ z.valid /\ z.exact /\ z.value[1] >= 0 /\ ~RatGreater(z.value, SizeMax)
       => result = [ok |-> TRUE, bytes |-> z.value[1] \div z.value[2]]

ParseBytesFaithful ==
  called /\ fn = "bytes" => SizeAgrees(StatedSize(input))

(***************************************************************************)
(* The range check of line 225 means an accepted size is one the cast of  *)
(* line 228 can convert: its integer part is in 0..SizeMax, and bytes is  *)
(* that integer part.                                                      *)
(***************************************************************************)
AcceptedSizeFits ==
  called /\ fn = "bytes" /\ result.ok
    => LET v == BytesNumber(input)
       IN  Trunc(v) \in 0..SizeMax /\ result.bytes = Trunc(v)
=============================================================================
