---------------------------- MODULE NumberParsing ----------------------------
(***************************************************************************)
(* How a Perl string becomes an integer, a float or a text: a bind value   *)
(* by sqlite_is_number and _sqlite_atoi64, the result of a user function   *)
(* by _sqlite_atoi64 alone.  Strings are sequences of character codes.     *)
(* The integers are Pow63 = 2^63 wide in the code; here 2^(n-1) for any    *)
(* width, given by its decimal digits, so that the strings around the      *)
(* border are short.                                                       *)
(***************************************************************************)
EXTENDS Integers, Sequences, FiniteSetsExt, SequencesExt

CONSTANTS
  Chars,      \* characters of the strings
  MaxString,  \* bound on their length
  Pow63       \* the digits of 2^63

ASSUME Pow63Assumption ==
  /\ Chars \subseteq 1..127 /\ MaxString \in Nat
  /\ Pow63 \in Seq(0..9) /\ Pow63 # <<>> /\ Pow63[1] # 0

VARIABLES
  data,  \* the string
  type,  \* its type: none and see_if_its_a_number, a type, a function's result
  bound  \* what SQLite is given

numberVars == <<data, type, bound>>

Space == 32
Plus == 43
Minus == 45
Dot == 46
Spaces == 9..13 \cup {Space}
Digits == 48..57
Exponents == {69, 101}

Number(digits) ==
  LET first[k \in 0..Len(digits)] == IF k = 0 THEN 0 ELSE first[k - 1] * 10 + digits[k]
  IN  first[Len(digits)]
Limit == Number(Pow63)
N == Len(Pow63)   \* 19

(* z[i], and the first place from i on where the characters are others.    *)
Char(z, i) == IF i \in DOMAIN z THEN z[i] ELSE 0
After(z, i, class) == Min({j \in i..Len(z) + 1 : Char(z, j) \notin class})

(* Mutant of Compare: the last digit is left out.                          *)
Compare_NoLast(z, i, last) ==
  LET differ == {k \in 1..N - 1 : Char(z, i + k - 1) - 48 # Pow63[k]}
  IN  IF differ = {} THEN 0
      ELSE LET k == Min(differ) IN Char(z, i + k - 1) - 48 - Pow63[k]

(* How N digits from i on compare with Pow63, the last digit with last.    *)
Compare(z, i, last) ==
  LET differ == {k \in 1..N - 1 : Char(z, i + k - 1) - 48 # Pow63[k]}
  IN  IF differ = {} THEN Char(z, i + N - 1) - 48 - last
      ELSE LET k == Min(differ) IN Char(z, i + k - 1) - 48 - Pow63[k]

(* _sqlite_atoi64: the return code is 0 for an integer that fits, 1 for    *)
(* anything else, 2 for 2^63 itself.  The unsigned u wraps.               *)
Atoi64(z) ==
  LET sign == After(z, 1, Spaces)
      neg == Char(z, sign) = Minus
      start == IF Char(z, sign) \in {Plus, Minus} THEN sign + 1 ELSE sign
      first == After(z, start, {48})
      end == After(z, first, Digits)
      i == end - first
      u == Number([k \in 1..i |-> Char(z, first + k - 1) - 48]) % (2 * Limit)
      c == Compare(z, first, Pow63[N])
  IN  [num |-> IF u > Limit - 1 THEN (IF neg THEN -Limit ELSE Limit - 1)
               ELSE IF neg THEN -u ELSE u,
       rc |-> IF end <= Len(z) \/ (i = 0 /\ start = first) \/ i > N THEN 1
              ELSE IF i < N \/ c < 0 THEN 0
              ELSE IF c > 0 THEN 1
              ELSE IF neg THEN 0 ELSE 2]

(* maybe_int, as far as the digits go.                                     *)
TooLarge(v, from, count, neg) ==
  \/ count > N
  \/ count = N /\ Compare(v, from, Pow63[N] - 1 + (IF neg THEN 1 ELSE 0)) > 0

(* sprintf("%.*f", atof(v)) gives v back.                                  *)
PrintsBack(v, from, end, exponent) ==
  /\ ~exponent
  /\ end - from = 1 \/ Char(v, from) # 48

(* sqlite_is_number: 1 for an integer, 2 for a float, 0 for neither.       *)
IsNumber(s, sqlType) ==
  LET v == IF sqlType = "none" THEN s
           ELSE SubSeq(s, After(s, 1, {Space}), Len(s))
      neg == Char(v, 1) = Minus
      from == IF Char(v, 1) \in {Plus, Minus} THEN 2 ELSE 1
      end == After(v, from, Digits)
      dot == Char(v, end) = Dot
      fraction == IF dot THEN After(v, end + 1, Digits) ELSE end
      exponent == Char(v, fraction) \in Exponents
      power == IF Char(v, fraction + 1) \in {Plus, Minus} THEN fraction + 2 ELSE fraction + 1
      last == IF exponent THEN After(v, power, Digits) ELSE fraction
      maybeInt == ~TooLarge(v, from, end - from, neg) /\ ~dot /\ ~exponent
  IN  IF \/ end = from \/ (dot /\ fraction = end + 1) \/ (exponent /\ last = power)
         \/ last <= Len(v)
        THEN 0
      ELSE IF maybeInt /\ Atoi64(v).rc = 0 THEN 1
      ELSE IF sqlType # "integer" /\ PrintsBack(v, from, end, exponent) THEN 2
      ELSE 0

Integer(n) == [kind |-> "int", value |-> n]
Real == [kind |-> "real"]
Text == [kind |-> "text"]

(* The loop over the parameters in sqlite_st_execute.                      *)
Bind(s, sqlType) ==
  LET numtype == IsNumber(s, sqlType)
  IN  IF numtype = 1 /\ Atoi64(s).rc = 0 THEN Integer(Atoi64(s).num)
      ELSE IF numtype = 2 /\ sqlType # "integer" THEN Real
      ELSE Text

(* sqlite_set_result, of a plain string.                                   *)
SetResult(s) == IF Atoi64(s).rc = 0 THEN Integer(Atoi64(s).num) ELSE Text

NumberInit(strings, types) ==
  /\ data \in strings
  /\ type \in types
  /\ bound = [kind |-> "none"]

(* The string is bound, or returned.                                       *)
Convert ==
  /\ bound.kind = "none"
  /\ bound' = IF type = "result" THEN SetResult(data) ELSE Bind(data, type)
  /\ UNCHANGED <<data, type>>

NumberSpec ==
  /\ NumberInit(BoundedSeq(Chars, MaxString), {"none", "integer", "float", "result"})
  /\ [][Convert]_numberVars

-----------------------------------------------------------------------------
(* What the strings mean, without a width.                                 *)

(* The spaces before a number are those isspace knows for a result, blanks *)
(* for a bind value.                                                       *)
Blanks == IF type = "result" THEN Spaces ELSE {Space}
Trimmed == SubSeq(data, After(data, 1, Blanks), Len(data))
Unsigned(s) == IF Char(s, 1) \in {Plus, Minus} THEN Tail(s) ELSE s

IsInteger(s) == Unsigned(s) # <<>> /\ \A i \in DOMAIN Unsigned(s) : Unsigned(s)[i] \in Digits

Value(s) ==
  LET n == Number([i \in DOMAIN Unsigned(s) |-> Unsigned(s)[i] - 48])
  IN  IF Char(s, 1) = Minus THEN -n ELSE n

Fits(n) == n \in -Limit..Limit - 1

(* A string that is bound or returned as an integer is the decimal form of *)
(* exactly this integer, and every integer that fits and is written with   *)
(* at most N digits arrives as one, at the borders of the width too        *)
(* (sqlite_is_number, _sqlite_atoi64; t/rt_76395_int_overflow.t).  Blanks  *)
(* before it are passed over unless it is bound without a type.            *)
IntegersAreExact ==
  LET s == IF type = "none" THEN data ELSE Trimmed IN
  /\ bound.kind = "int"
       => IsInteger(Trimmed) /\ bound.value = Value(Trimmed) /\ Fits(bound.value)
  /\ bound.kind # "none" /\ IsInteger(s) /\ Fits(Value(s)) /\ Len(Unsigned(s)) <= N
       => bound = Integer(Value(s))
=============================================================================
