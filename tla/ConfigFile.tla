------------------------------ MODULE ConfigFile ------------------------------
(***************************************************************************)
(* How main (main.cpp, and inc/http/mainapp.cpp with more settings) reads  *)
(* its configuration: one setting a line, known by its position.  A line   *)
(* is read by fscanf("%[^\n]\n"), whose first half takes at least one      *)
(* character and whose second half skips the end of the line and all white *)
(* space that follows, empty lines included; sscanf then takes a number or *)
(* a word from it.                                                         *)
(***************************************************************************)
EXTENDS Naturals, Sequences, FiniteSets

CONSTANT Files      \* the files to read, as sequences of Lines

(* A line is empty, has white space only, or starts with a number or with  *)
(* another word.                                                           *)
Lines == {"empty", "blank", "number", "word"}
Text  == {"number", "word"}

(* The settings in the order of the switch: "%d" or "%s".                  *)
Client  == <<"d", "s", "d", "s", "d", "s">>
Service == <<"d", "s", "d", "s", "s", "s", "s", "d", "d", "d">>

VARIABLES
    format,     \* the program's settings
    file,       \* the file's lines
    at,         \* the next line, or one after the last
    confcount,  \* confcount
    settings,   \* the line each setting has been read from, 0 if from none
    done        \* the loop is over

vars == <<format, file, at, confcount, settings, done>>

Unset == 0

TypeOK ==
    /\ format \in {Client, Service}
    /\ file \in Files
    /\ at \in 1 .. Len(file) + 1
    /\ confcount \in 0 .. Len(file)
    /\ settings \in [1 .. Len(format) -> 0 .. Len(file)]
    /\ done \in BOOLEAN

Init ==
    /\ format \in {Client, Service}
    /\ file \in Files
    /\ at = 1 /\ confcount = 0
    /\ settings = [k \in 1 .. Len(format) |-> Unset]
    /\ done = FALSE

(* Faulty variants of definitions below; no specification uses them.       *)

(* fscanf stops after the end of the line.                                 *)
FollowsAtOnce(i, j) == j = i + 1

(* Where fscanf is after reading line i: at j, past what has no text.      *)
Follows(i, j) ==
    /\ j <= Len(file) => file[j] \in Text
    /\ \A k \in i + 1 .. j - 1 : file[k] \notin Text

(* sscanf finds what the setting needs.                                    *)
Takes(f, line) == IF f = "d" THEN line = "number" ELSE line \in Text

(* fscanf reads nothing at the end of the file or of an empty line.        *)
Stop ==
    /\ ~ done
    /\ at <= Len(file) => file[at] = "empty"
    /\ done' = TRUE
    /\ UNCHANGED <<format, file, at, confcount, settings>>

ReadLine ==
    /\ ~ done
    /\ at <= Len(file) /\ file[at] # "empty"
    /\ LET k == confcount + 1
       IN  settings' = IF k <= Len(format) /\ Takes(format[k], file[at])
                       THEN [settings EXCEPT ![k] = at] ELSE settings
    /\ confcount' = confcount + 1
    /\ at' \in at + 1 .. Len(file) + 1 /\ Follows(at, at')
    /\ UNCHANGED <<format, file, done>>

Next == Stop \/ ReadLine
------------------------------------------------------------------------------
(* How many lines with text there are up to line i.                        *)
Place(i) == Cardinality({j \in 1 .. i : file[j] \in Text})

(* The k-th setting comes from the k-th line with text, however many lines *)
(* without text stand between them, as long as the first line has some,    *)
(* and one that does not fit leaves its setting alone.  A first line of    *)
(* white space is a setting of its own, and moves all the others one       *)
(* place; an empty first line hides the rest of the file.                  *)
ByPosition ==
    LET moved == IF file[1] \in Text THEN 0 ELSE 1
    IN  done /\ file # <<>> =>
            \A k \in 1 .. Len(format), i \in 1 .. Len(file) :
                settings[k] = i <=> /\ file[1] # "empty"
                                    /\ file[i] \in Text /\ k = Place(i) + moved
                                    /\ format[k] = "d" => file[i] = "number"
==============================================================================
