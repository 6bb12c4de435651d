------------------------------- MODULE Paths -------------------------------
(***************************************************************************)
(* How FluidFS takes a path apart (raw_filename_to_std_format in           *)
(* src/src/fs/fluidfs.c) and how a path is spelled.  A path is a sequence  *)
(* of slashes, dots and words; no two words are neighbours.  It ends at    *)
(* its first NUL; what follows in the sequence lies behind it in memory,   *)
(* where more zeros are behind the sequence.  Paths end, and what lies     *)
(* behind them does, before the code's counts reach 32.                    *)
(***************************************************************************)
EXTENDS Integers, SequencesExt

CONSTANTS
  Words,     \* the words paths are made of
  Beheaded,  \* a word without its first character
  Cropped    \* what is left of a word in the 8 bytes of an extension

\* The character that ends a path.
Nul == "\\0"

ASSUME PathsAssumption ==
  /\ {"/", ".", Nul} \cap Words = {}
  /\ Beheaded \in [Words -> {<<>>} \cup {<<w>> : w \in Words}]
  /\ Cropped \in [Words -> Words]

Is(path, i, c) == i \in 1 .. Len(path) /\ path[i] = c

\* The place of the first character in ends, or the one behind the sequence.
End(s, ends) == Min({Len(s) + 1} \cup {i \in 1 .. Len(s) : s[i] \in ends})

\* The path alone: this is what a user sees of it.
Shown(raw) == SubSeq(raw, 1, End(raw, {Nul}) - 1)

\* The place of the last slash, 0 if there is none.
LastSlash(raw) == Max({0} \cup {i \in 1 .. Len(raw) : raw[i] = "/"})

\* A path begins with a slash; one that does not gets it in the place of its
\* first character.
Forced(path) ==
  CASE path = <<>> -> <<"/">>
    [] Is(path, 1, "/") -> path
    [] Is(path, 1, ".") -> <<"/">> \o Tail(path)
    [] OTHER -> <<"/">> \o Beheaded[path[1]] \o Tail(path)

\* The names between the slashes.
Between(path) ==
  LET slashes == {i \in 1 .. Len(path) : path[i] = "/"}
      slash(k) == CHOOSE i \in slashes : Cardinality({j \in slashes : j <= i}) = k
  IN [k \in 1 .. Cardinality(slashes) - 1 |-> SubSeq(path, slash(k) + 1, slash(k + 1) - 1)]

\* Directories, name and extension of what the caller wrote.  The extension
\* begins behind the first dot of the last part.  Defect: the code steps over
\* what ends the name, a dot or not, so that without one the extension is
\* what lies behind the path.
Split(raw) ==
  LET last == LastSlash(Shown(raw))
      rest == SubSeq(raw, last + 1, Len(raw))
      dot  == End(rest, {".", Nul})
  IN [dirs |-> Between(Forced(SubSeq(raw, 1, last))),
      name |-> SubSeq(rest, 1, dot - 1),
      ext  |-> Shown(SubSeq(rest, dot + 1, Len(rest)))]

\* The extension as it stands in a record: the ninth character is the flag,
\* which cnode sets.
Kept(ext) == [i \in 1 .. Len(ext) |-> IF ext[i] \in Words THEN Cropped[ext[i]] ELSE ext[i]]

\* The usual spelling of a file: /dir/name.ext, or without the parts it lacks.
Spelled(f) ==
  (IF f.dirs = <<>> THEN <<>> ELSE <<"/">> \o f.dirs[1])
    \o <<"/">> \o f.name
    \o (IF f.ext = <<>> THEN <<>> ELSE <<".">> \o f.ext)
=============================================================================
