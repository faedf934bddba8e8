------------------------------ MODULE FileName ------------------------------
(***************************************************************************)
(* The first loop of file_search: a name is read character by character    *)
(* into a directory's form.  A step is one pass of the loop; the name may  *)
(* end after any of them.                                                  *)
(***************************************************************************)
EXTENDS DiskFile

VARIABLES name,            \* what has been read of the name
          a                \* s and j, and whether the name was refused

\* Bound: names of up to three characters more than the longest one.
MaxName == NameLen + ExtLen + 3

NameInit == name = <<>> /\ a = Blank

ReadCharacter(c) == name' = Append(name, c) /\ a' = PutName(a, c)

NameNext == Len(name) < MaxName /\ ~ a.long /\ \E c \in Letters \cup {"."} : ReadCharacter(c)

-----------------------------------------------------------------------------
(* Properties *)

\* What a directory holds for the file base.ext
Pad(s, n) == [i \in 1..n |-> IF i <= Len(s) THEN Upper[s[i]] ELSE " "]
InDirectory(base, ext) == Pad(base, NameLen) \o Pad(ext, ExtLen)

\* The name is base, or base.ext, of the lengths that a directory has room for.
IsNameOf(base, ext) ==
  /\ name = base \o (IF Len(base) = Len(name) THEN <<>> ELSE <<".">> \o ext)
  /\ Len(base) \in 1..NameLen /\ Len(ext) <= ExtLen
  /\ ~ Contains(base, ".") /\ ~ Contains(ext, ".")

\* A name of at most 8 and 3 characters, with capitals or not, with a dot or
\* without an extension, is looked up as the directory has it, whatever the
\* length of its two parts; and a name with more than three characters behind
\* its only dot is never taken for another one that the dot leaves room for.
NameFindsFile ==
  \A n \in 0..Len(name) :
    LET base == SubSeq(name, 1, n)
        ext == SubSeq(name, n + 2, Len(name))
    IN  /\ IsNameOf(base, ext) => ~ a.long /\ a.s = InDirectory(base, ext)
        /\ /\ n \in 1..NameLen /\ Len(ext) > ExtLen
           /\ \A i \in DOMAIN name : name[i] = "." <=> i = n + 1
           => a.long
=============================================================================
