---------------------------- MODULE MCDriverParts ----------------------------
(***************************************************************************)
(* Four parts of the driver that share no state, side by side for one TLC  *)
(* run: how strings become numbers, the tokenizer's cursor, the PerlData   *)
(* table, aggregates.  Which of them moves is chosen at first; the others  *)
(* stay put.                                                               *)
(***************************************************************************)
EXTENDS NumberParsing, Tokenizer, PerlData, Aggregates, TLC

CONSTANTS r1, r2, r3, r4, c1

VARIABLE part

allVars == <<part, numberVars, tokenizerVars, dataVars, aggrVars>>

Init ==
  /\ DataInit /\ AggrInit
  /\ \/ /\ part = "numbers"
        /\ NumberInit(BoundedSeq(Chars, MaxString), {"none", "integer", "float", "result"})
        /\ TokenizerInit({<<>>}, {"BYTES"})
     \/ /\ part = "tokenizer"
        /\ NumberInit({<<>>}, {"none"})
        /\ TokenizerInit(BoundedSeq(Kinds, MaxBytes), StringModes)
     \/ /\ part \in {"table", "aggregates"}
        /\ NumberInit({<<>>}, {"none"})
        /\ TokenizerInit({<<>>}, {"BYTES"})

Next ==
  /\ \/ /\ part = "numbers" /\ Convert
        /\ UNCHANGED <<tokenizerVars, dataVars, aggrVars>>
     \/ /\ part = "tokenizer" /\ Tokenize
        /\ UNCHANGED <<numberVars, dataVars, aggrVars>>
     \/ /\ part = "table" /\ Table
        /\ UNCHANGED <<numberVars, tokenizerVars, aggrVars>>
     \/ /\ part = "aggregates" /\ AggrNext
        /\ UNCHANGED <<numberVars, tokenizerVars, dataVars>>
  /\ UNCHANGED part

Spec == Init /\ [][Next]_allVars

(* Integers of eight bits: 2^7 = 128 for 2^63.  The characters are tab,    *)
(* space + - . 0 1 2 7 8 9 e.                                              *)
MCChars == {9, 32, 43, 45, 46, 48, 49, 50, 55, 56, 57, 101}
MCPow63 == <<1, 2, 8>>

Symmetry == Permutations(Rows \ Falsy)
=============================================================================
