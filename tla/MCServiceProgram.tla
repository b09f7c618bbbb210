--------------------------- MODULE MCServiceProgram ---------------------------
EXTENDS ServiceProgram, SequencesExt

(* The complete file, files that are cut short, and files that are         *)
(* displaced or interrupted by a line without text.                        *)
Complete == <<"number", "word", "number", "word", "word", "word", "word",
              "number", "number", "number">>

SomeFiles ==
    {Complete, << >>, SubSeq(Complete, 1, 7), SubSeq(Complete, 1, 8)}
    \cup {InsertAt(Complete, k, l) : k \in {1, 8}, l \in {"empty", "blank"}}
==============================================================================
