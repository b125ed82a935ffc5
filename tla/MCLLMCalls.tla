----------------------------- MODULE MCLLMCalls -----------------------------
(***************************************************************************)
(* Values of the constants of LLMCalls for TLC.                            *)
(***************************************************************************)
EXTENDS LLMCalls

CONSTANT MaxTokens  \* bound: length of a text

MCSettings == {Unset, NotANumber, 0, 1, 4}

\* Braces are inside a string only after an object was opened.
MCTexts ==
    {<<"null">>} \cup
    {t \in BoundedSeq({"{", "}", "'{", "'}", "high", "odd"}, MaxTokens):
       \A j \in DOMAIN t: t[j] \in {"'{", "'}"} => \E i \in 1 .. j - 1: t[i] = "{"}

=============================================================================
