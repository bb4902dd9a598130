----------------------------- MODULE ConfigParse -----------------------------
(***************************************************************************)
(* The string parsers of config_loader.hpp: parse_version (lines 149-174) *)
(* and parse_bytes (lines 197-230).                                        *)
(*                                                                         *)
(* A string is a sequence of lexemes: a run of decimal digits Num(n), the  *)
(* characters '.', ' ', '-', an embedded NUL, and the words of the unit   *)
(* table.  Two Num lexemes are never adjacent (they would be one run) and *)
(* neither are two words.  Every lexeme but Num is one character or one  *)
(* whole word, so a character position of the code is a lexeme boundary. *)
(*                                                                         *)
(* Integer widths are constants: SizeBits for size_t and unsigned long    *)
(* (both 64 on LP64), IntBits for int (32), ByteBits for uint8_t (8), and *)
(* MantissaBits for the significand of a double (53).  Doubles are exact  *)
(* rationals <<p, q>> rounded to MantissaBits significant bits where the  *)
(* code converts to double.                                               *)
(***************************************************************************)
EXTENDS Integers, Sequences, SequencesExt

CONSTANTS SizeBits, IntBits, ByteBits, MantissaBits, UnitBits

ASSUME /\ ByteBits < IntBits /\ IntBits < SizeBits
       /\ MantissaBits < SizeBits /\ UnitBits > 0

SizeMax == 2^SizeBits - 1                 \* numeric_limits<size_t>::max()
ByteMax == 2^ByteBits - 1                 \* numeric_limits<uint8_t>::max()

Num(n) == <<"num", n>>
Dot    == <<".", 0>>
Space  == <<" ", 0>>
Minus  == <<"-", 0>>
Nul    == <<"nul", 0>>                \* an embedded '\0', which JSON strings may hold
Word(w) == <<w, 0>>
IsNum(t) == t[1] = "num"

(* The scaled units of lines 209-216: the power of 1024 = 2^UnitBits. *)
UnitPower == [KB |-> 1, MB |-> 2, GB |-> 3, TB |-> 4]

(* Index of the first lexeme at or after i that is not a space. *)
SkipSpaces(s, i) ==
  LET k == SelectInSubSeq(s, i, Len(s), LAMBDA t : t # Space)
  IN  IF k = 0 THEN Len(s) + 1 ELSE k

-----------------------------------------------------------------------------
-----------------------------------------------------------------------------
(* parse_version *)

Thrown == [ok |-> FALSE]

(***************************************************************************)
(* std::stoul(str, &pos) in base 10: skip white space, an optional '-',   *)
(* then a digit run, else invalid_argument; a run above ULONG_MAX is       *)
(* out_of_range; a '-' negates modulo 2^64.  pos is the index of the last *)
(* lexeme read.  The scan is split in steps, each taking the index it     *)
(* starts from.                                                            *)
(***************************************************************************)
StoulRun(s, neg, i) ==
  IF i > Len(s) \/ ~IsNum(s[i]) \/ s[i][2] > SizeMax THEN Thrown
  ELSE [ok  |-> TRUE, pos |-> i,
        val |-> IF neg THEN (2^SizeBits - s[i][2]) % 2^SizeBits ELSE s[i][2]]

StoulSign(s, w) ==
  LET neg == w <= Len(s) /\ s[w] = Minus
  IN  StoulRun(s, neg, IF neg THEN w + 1 ELSE w)

Stoul(s) == StoulSign(s, SkipSpaces(s, 1))

(* Storing an unsigned long in an int (lines 151, 156, 160): modulo 2^32. *)
ToInt(v) ==
  LET r == v % 2^IntBits
  IN  IF r >= 2^(IntBits - 1) THEN r - 2^IntBits ELSE r

(* std::string(x.c_str()) (lines 142, 155): the prefix before the first '\0'. *)
CStr(s) ==
  LET k == SelectInSeq(s, LAMBDA t : t = Nul)
  IN  IF k = 0 THEN s ELSE SubSeq(s, 1, k - 1)

(* Lines 167-173: both parts in 0..255, else FALSE. *)
VersionRange(mj, mn) ==
  IF mj < 0 \/ mn < 0 \/ mj > ByteMax \/ mn > ByteMax THEN Thrown
  ELSE [ok |-> TRUE, major |-> mj, minor |-> mn]

(* Lines 160-162: the second stoul b read the rest, of length n, to its end. *)
VersionMinor(a, b, n) ==
  IF ~b.ok \/ b.pos < n THEN Thrown ELSE VersionRange(ToInt(a.val), ToInt(b.val))

(* Mutant of VersionAfterMajor: the separator is not skipped (substr(pos)). *)
VersionAfterMajorNoSkip(s, a) ==
  IF ~a.ok \/ a.pos = Len(s) THEN Thrown
  ELSE VersionMinor(a, Stoul(SubSeq(s, a.pos + 1, Len(s))), Len(s) - a.pos)

(* Lines 156-159: the first stoul a must stop before the end; the one    *)
(* character after it is skipped (++pos).                                 *)
VersionAfterMajor(s, a) ==
  IF ~a.ok \/ a.pos = Len(s) THEN Thrown
  ELSE VersionMinor(a, Stoul(SubSeq(s, a.pos + 2, Len(s))), Len(s) - a.pos - 1)

(***************************************************************************)
(* parse_version (lines 149-174): major, then any one character, then     *)
(* minor up to the end; both in 0..255 after the int conversion.  Every   *)
(* exception (the try of lines 153-166) and every check gives FALSE.  It  *)
(* reads the string only up to an embedded '\0' (line 155).              *)
(***************************************************************************)
ParseVersion(s) == VersionAfterMajor(CStr(s), Stoul(CStr(s)))

-----------------------------------------------------------------------------
(* parse_bytes *)

Digits(n) == CHOOSE d \in 1..10 : n < 10^d /\ (d = 1 \/ n >= 10^(d - 1))

(* a / b > n for a rational a/b with b > 0, without forming n * b. *)
RatGreater(r, n) == r[1] \div r[2] > n \/ (r[1] \div r[2] = n /\ r[1] % r[2] > 0)

(***************************************************************************)
(* The nearest double to the non-negative rational <<p, q>>: its binary   *)
(* exponent k, the unit in the last place 2^e with e = k - MantissaBits   *)
(* + 1, and rounding half to even (strtod, and max() converted at line    *)
(* 225).  Nearest rounds a / b to an integer and scales it by up / dn.    *)
(***************************************************************************)
AtLeast(p, q, k) == IF k >= 0 THEN q * 2^k <= p ELSE q <= p * 2^(-k)

Exponent(p, q) ==
  CHOOSE k \in -8..(SizeBits + 8) : AtLeast(p, q, k) /\ ~AtLeast(p, q, k + 1)

Nearest(a, b, up, dn) ==
  LET f == a \div b  m == a % b
  IN  <<(IF 2 * m > b \/ (2 * m = b /\ f % 2 = 1) THEN f + 1 ELSE f) * up, dn>>

RoundAt(p, q, e) ==
  LET up == IF e > 0 THEN 2^e ELSE 1        \* scale of the denominator
      dn == IF e < 0 THEN 2^(-e) ELSE 1     \* scale of the numerator
  IN  Nearest(p * dn, q * up, up, dn)

ToDouble(r) ==
  IF r[1] = 0 THEN <<0, 1>>
  ELSE RoundAt(r[1], r[2], Exponent(r[1], r[2]) - MantissaBits + 1)

(* numeric_limits<size_t>::max() converted to double (line 225). *)
MaxDouble == ToDouble(<<SizeMax, 1>>)

(***************************************************************************)
(* ss >> number (line 203) on the stream at the start of s: white space,  *)
(* an optional '-', digits, an optional '.' and fraction digits; at least *)
(* one digit.  next is the index of the first lexeme not consumed.  The   *)
(* steps take the index they start from.                                  *)
(***************************************************************************)
NumFraction(s, neg, int, ip, b) ==
  LET dot == b <= Len(s) /\ s[b] = Dot
      frc == dot /\ b + 1 <= Len(s) /\ IsNum(s[b + 1])
      fp  == IF frc THEN s[b + 1][2] ELSE 0
      den == IF frc THEN 10^Digits(fp) ELSE 1
  IN  [ok |-> int \/ frc, neg |-> neg,
       next |-> b + (IF dot THEN 1 ELSE 0) + (IF frc THEN 1 ELSE 0),
       mag |-> <<ip * den + fp, den>>]

NumInteger(s, neg, a) ==
  LET int == a <= Len(s) /\ IsNum(s[a])
  IN  NumFraction(s, neg, int, IF int THEN s[a][2] ELSE 0, IF int THEN a + 1 ELSE a)

NumSign(s, w) ==
  LET neg == w <= Len(s) /\ s[w] = Minus
  IN  NumInteger(s, neg, IF neg THEN w + 1 ELSE w)

NumGet(s) == NumSign(s, SkipSpaces(s, 1))

(***************************************************************************)
(* ss >> metric (line 208) from index i: skip white space to j; the word  *)
(* runs up to the next space e.  eof is the stream's eofbit afterwards.   *)
(***************************************************************************)
MetricWord(s, j, e) ==
  [present |-> TRUE, word |-> SubSeq(s, j, IF e = 0 THEN Len(s) ELSE e - 1),
   eof |-> e = 0]

MetricAt(s, j) ==
  IF j > Len(s) THEN [present |-> FALSE, eof |-> TRUE]
  ELSE MetricWord(s, j, SelectInSubSeq(s, j, Len(s), LAMBDA t : t = Space))

Metric(s, i) == MetricAt(s, SkipSpaces(s, i))

(* The power of 1024 of the unit read (lines 209-216), 0 for none. *)
UnitOf(m) ==
  IF m.present /\ Len(m.word) = 1 /\ m.word[1][1] \in DOMAIN UnitPower
  THEN UnitPower[m.word[1][1]] ELSE 0

(* The double the code holds after line 216: sign, rounding and scale. *)
ScaledNumber(n, m) ==
  LET d == ToDouble(n.mag)
  IN  <<(IF n.neg THEN -1 ELSE 1) * d[1] * 2^(UnitBits * UnitOf(m)), d[2]>>

BytesNumber(s) ==
  LET n == NumGet(s) IN ScaledNumber(n, Metric(s, n.next))

(* Truncation toward zero of a rational. *)
Trunc(r) == IF r[1] >= 0 THEN r[1] \div r[2] ELSE -((-r[1]) \div r[2])

(***************************************************************************)
(* static_cast<size_t>(number) (line 228).  Defined when the truncated    *)
(* value fits; otherwise undefined, and the x86-64 builds give the value  *)
(* modulo 2^64 (cvttsd2si of a negative), 0 (the 2^63-offset sequence)    *)
(* or SizeMax (vcvttsd2usi).                                              *)
(***************************************************************************)
Cast(r) ==
  LET t == Trunc(r)
  IN  IF t \in 0..SizeMax THEN {t} ELSE {t % 2^SizeBits, 0, SizeMax}

Reject == [ok |-> FALSE]

(***************************************************************************)
(* The format checks of lines 203-221 on the number n and the metric m:   *)
(* a leading '.', no number, a word that is no unit, "B" with a '.', or a *)
(* '.' with no word.  The isnan tests never fire: num_get reads no NaN.   *)
(***************************************************************************)
Malformed(s, n, m) ==
  \/ Len(s) > 0 /\ s[1] = Dot
  \/ ~n.ok
  \/ m.present /\ UnitOf(m) = 0 /\ (m.word # <<Word("B")>> \/ Contains(s, Dot))
  \/ ~m.present /\ Contains(s, Dot)

(* Mutant of BytesOutcomes: the eofbit test of line 223 is dropped. *)
BytesOutcomesNoEof(s, n, m) ==
  LET v == ScaledNumber(n, m)
  IN  IF Malformed(s, n, m) \/ RatGreater(v, MaxDouble[1])
      THEN {Reject}
      ELSE {[ok |-> TRUE, bytes |-> b] : b \in Cast(v)}

(* Lines 223-229: the eofbit and range tests, then the cast. *)
BytesOutcomes(s, n, m) ==
  LET v == ScaledNumber(n, m)
  IN  IF Malformed(s, n, m) \/ ~m.eof \/ RatGreater(v, MaxDouble[1])
      THEN {Reject}
      ELSE {[ok |-> TRUE, bytes |-> b] : b \in Cast(v)}

BytesAfterNumber(s, n) == BytesOutcomes(s, n, Metric(s, n.next))

(* parse_bytes (lines 197-230): the outcomes, one per result of the cast. *)
ParseBytes(s) == BytesAfterNumber(s, NumGet(s))
-----------------------------------------------------------------------------
(* Reference definitions of the formats the parsers are meant to read. *)

(* A version written as MAJOR.MINOR, both in 0..255. *)
WrittenVersion(s) ==
  /\ Len(s) = 3 /\ IsNum(s[1]) /\ s[2] = Dot /\ IsNum(s[3])
  /\ s[1][2] <= ByteMax /\ s[3][2] <= ByteMax

(* The digit runs of s, in order. *)
NumbersIn(s) == SelectSeq(s, IsNum)

(* A number literal: 5, 5., 5.5 or .5, and its exact value. *)
IsLiteral(t) ==
  \/ Len(t) = 1 /\ IsNum(t[1])
  \/ Len(t) = 2 /\ IsNum(t[1]) /\ t[2] = Dot
  \/ Len(t) = 3 /\ IsNum(t[1]) /\ t[2] = Dot /\ IsNum(t[3])
  \/ Len(t) = 2 /\ t[1] = Dot /\ IsNum(t[2])
LiteralValue(t) ==
  LET ip == IF IsNum(t[1]) THEN t[1][2] ELSE 0
      fp == IF IsNum(t[Len(t)]) /\ Len(t) > 1 THEN t[Len(t)][2] ELSE 0
      den == IF fp > 0 THEN 10^Digits(fp) ELSE 1
  IN  <<ip * den + fp, den>>

AllSpaces(t) == \A x \in 1..Len(t) : t[x] = Space
UnitScale == [u \in DOMAIN UnitPower |-> 2^(UnitBits * UnitPower[u])] @@ [B |-> 1]

(***************************************************************************)
(* A size written as: spaces, an optional '-', a literal, then either     *)
(* spaces only or spaces and one unit word; not starting with '.'; a '.'  *)
(* only with KB, MB, GB or TB.  Its value is exact.                       *)
(***************************************************************************)
Splits(s) ==
  {<<i, j>> \in (0..Len(s)) \X (0..Len(s)) :
     /\ i < j /\ AllSpaces(SubSeq(s, 1, i))
     /\ LET lit == SubSeq(s, i + 1, j)
            body == IF lit[1] = Minus THEN Tail(lit) ELSE lit
        IN  Len(body) > 0 /\ IsLiteral(body)
     /\ LET tl == SubSeq(s, j + 1, Len(s)) IN
          \/ AllSpaces(tl)
          \/ Len(tl) > 0 /\ AllSpaces(Front(tl)) /\ tl[Len(tl)][1] \in DOMAIN UnitScale}

StatedParts(s, neg, lit, unit) ==
  LET v == LiteralValue(lit)
  IN  IF Contains(s, Dot) /\ unit \notin DOMAIN UnitPower THEN [valid |-> FALSE]
      ELSE [valid |-> TRUE, exact |-> ToDouble(v) = v,
            value |-> <<(IF neg THEN -1 ELSE 1) * v[1] * UnitScale[unit], v[2]>>]

StatedSplit(s, lit, tl) ==
  StatedParts(s, lit[1] = Minus, IF lit[1] = Minus THEN Tail(lit) ELSE lit,
              IF AllSpaces(tl) THEN "B" ELSE tl[Len(tl)][1])

StatedSize(s) ==
  IF Splits(s) = {} \/ s[1] = Dot THEN [valid |-> FALSE]
  ELSE LET sp == CHOOSE x \in Splits(s) : TRUE
       IN  StatedSplit(s, SubSeq(s, sp[1] + 1, sp[2]), SubSeq(s, sp[2] + 1, Len(s)))
=============================================================================
