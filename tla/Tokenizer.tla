------------------------------ MODULE Tokenizer ------------------------------
(***************************************************************************)
(* One cursor of the Perl tokenizer of FTS3.  Perl sees a string of        *)
(* characters and returns the tokens it likes, in any order and            *)
(* overlapping, by the character where each starts and ends; FTS3 sees the *)
(* bytes of the string and wants byte offsets.  The cursor remembers where *)
(* the token before ended, in bytes and in characters, and hops from there.*)
(* Strings are sequences of bytes of three kinds.                          *)
(***************************************************************************)
EXTENDS Integers, Sequences, FiniteSets, SequencesExt

CONSTANTS
  StringModes, \* values of sqlite_string_mode
  AnyBytes,   \* may a string be invalid UTF-8?
  MaxBytes,   \* bound on the length of a string
  MaxTokens   \* bound on the tokens taken of it

ASSUME TokenizerAssumption ==
  /\ StringModes \subseteq {"PV", "BYTES", "NAIVE", "FALLBACK", "STRICT"}
  /\ AnyBytes \in BOOLEAN /\ MaxBytes \in Nat /\ MaxTokens \in Nat

VARIABLES
  pInput,   \* the bytes of the string
  mode,     \* last_dbh_string_mode
  tcursor,  \* perl_tokenizer_cursor
  token,    \* the last token: as Perl returned it and as FTS3 gets it
  tokens,
  state     \* "new", "open" or "died"

tokenizerVars == <<pInput, mode, tcursor, token, tokens, state>>

(* The first byte of a two byte character, its second, any other.          *)
Kinds == {"lead", "continuation", "ascii"}

Valid(s) ==
  \A i \in DOMAIN s :
    /\ s[i] = "lead" => i < Len(s) /\ s[i + 1] = "continuation"
    /\ s[i] = "continuation" => i > 1 /\ s[i - 1] = "lead"

Unicode(m) == m \in {"NAIVE", "FALLBACK", "STRICT"}

NoToken == [start |-> 0, end |-> 0, startByte |-> 0, endByte |-> 0]

TokenizerInit(strings, modes) ==
  /\ pInput \in strings
  /\ AnyBytes \/ Valid(pInput)
  /\ mode \in modes
  /\ tcursor = [utf8 |-> FALSE, decoded |-> FALSE, currentByte |-> 0, currentChar |-> 0]
  /\ token = NoToken
  /\ tokens = 0
  /\ state = "new"

(* perl_tokenizer_Open.  The switch before the decoding has labels instead *)
(* of cases and does nothing.  Strict decoding dies of invalid UTF-8; the  *)
(* naive one does not look, and is only defined for what is valid.         *)
TokenizerOpen ==
  /\ state = "new"
  /\ mode = "NAIVE" => Valid(pInput)
  /\ IF mode = "STRICT" /\ ~Valid(pInput)
       THEN state' = "died" /\ UNCHANGED tcursor
       ELSE /\ state' = "open"
            /\ tcursor' = [utf8 |-> Unicode(mode),
                          decoded |-> Unicode(mode) /\ Valid(pInput),
                          currentByte |-> 0, currentChar |-> 0]
  /\ UNCHANGED <<pInput, mode, token, tokens>>

-----------------------------------------------------------------------------

(* Bytes are counted from 0, and a NUL follows the last one.               *)
Byte(b) == IF b < Len(pInput) THEN pInput[b + 1] ELSE "nul"

Forward(b) == IF Byte(b) = "lead" THEN b + 2 ELSE b + 1
Back(b) == CHOOSE k \in 0..b - 1 :
             /\ Byte(k) # "continuation"
             /\ \A j \in k + 1..b - 1 : Byte(j) = "continuation"

utf8_hop(b, off) ==
  LET forward[n \in 0..off] == IF n = 0 THEN b ELSE Forward(forward[n - 1])
      back[n \in 0..-off] == IF n = 0 THEN b ELSE Back(back[n - 1])
  IN  IF off >= 0 THEN forward[off] ELSE back[-off]

(* The characters Perl sees.                                               *)
Starts == {b \in 0..Len(pInput) - 1 : tcursor.decoded => Byte(b) # "continuation"}
Length == Cardinality(Starts)

(* Mutant of TokenFrom: hops from the start of the string.                 *)
TokenFrom_Start(start, end) ==
  LET first == utf8_hop(tcursor.currentByte, start)
  IN  [start |-> start, end |-> end, startByte |-> first,
       endByte |-> utf8_hop(first, end - start)]

(* The offsets of a token of characters start..end.                        *)
TokenFrom(start, end) ==
  LET first == utf8_hop(tcursor.currentByte, start - tcursor.currentChar)
  IN  [start |-> start, end |-> end, startByte |-> first,
       endByte |-> utf8_hop(first, end - start)]

(* perl_tokenizer_Next                                                     *)
TokenizerNext(start, end) ==
  /\ state = "open" /\ tokens < MaxTokens
  /\ start <= end /\ end <= Length
  /\ IF tcursor.utf8
       THEN /\ token' = TokenFrom(start, end)
            /\ tcursor' = [tcursor EXCEPT !.currentByte = token'.endByte, !.currentChar = end]
       ELSE /\ token' = [start |-> start, end |-> end, startByte |-> start, endByte |-> end]
            /\ UNCHANGED tcursor
  /\ tokens' = tokens + 1
  /\ UNCHANGED <<pInput, mode, state>>

Tokenize == TokenizerOpen \/ \E start, end \in 0..MaxBytes : TokenizerNext(start, end)

TokenizerSpec ==
  /\ TokenizerInit(BoundedSeq(Kinds, MaxBytes), StringModes)
  /\ [][Tokenize]_tokenizerVars

-----------------------------------------------------------------------------

(* Where character k starts; past the last one, the end of the string.     *)
ByteOf(k) ==
  IF k = Length THEN Len(pInput)
  ELSE CHOOSE b \in Starts : Cardinality({s \in Starts : s < b}) = k

(* FTS3 gets the bytes of the characters Perl meant, also when a token     *)
(* starts before the one before it ended (perl_tokenizer_Next).            *)
OffsetsInBytes ==
  tokens > 0 => /\ token.startByte = ByteOf(token.start)
                /\ token.endByte = ByteOf(token.end)

(* Strings in callbacks that are not valid UTF-8 are a reason to warn, not *)
(* to die.                                                                 *)
CallbacksOnlyWarn == state # "died"
=============================================================================
