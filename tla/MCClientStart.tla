----------------------------- MODULE MCClientStart -----------------------------
EXTENDS ClientStart, SequencesExt

Line == {"empty", "blank", "number", "word"}

(* Every file of up to four lines, and the complete file with a line of    *)
(* any kind put in or exchanged somewhere.                                 *)
Complete == <<"number", "word", "number", "word", "number", "word">>

SmallFiles ==
    UNION {[1 .. n -> Line] : n \in 0 .. 4}
    \cup {InsertAt(Complete, k, l) : k \in 1 .. 7, l \in Line}
    \cup {[Complete EXCEPT ![k] = l] : k \in 1 .. 6, l \in Line}
==============================================================================
