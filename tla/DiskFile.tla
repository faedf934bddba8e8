------------------------------ MODULE DiskFile ------------------------------
(***************************************************************************)
(* file.c: the FAT of the disk image, loading a file along its chain of    *)
(* clusters, and looking up a name.                                        *)
(*                                                                         *)
(* The content of a disk is abstract: the k-th byte of cluster c is        *)
(* <<c, k>>.  Names are sequences of characters; a small letter and the    *)
(* capital it stands for are related by Upper.                             *)
(***************************************************************************)
EXTENDS Integers, Sequences, SequencesExt

CONSTANTS Sector,          \* bytes of a cluster: 512
          NameLen, ExtLen, \* 8 and 3
          Letters,         \* characters of a name other than the dot
          Upper            \* Upper[c] is the capital of c

ASSUME DiskFileAssumption ==
  /\ {Sector, NameLen, ExtLen} \subseteq Nat \ {0}
  /\ Letters \cap {".", " "} = {} /\ Letters \subseteq DOMAIN Upper

-----------------------------------------------------------------------------
(* file_readfat: two entries are packed into three bytes. *)

\* Mutant: the halves of the middle byte are confused.
EntryNibbles(img, n) ==
  LET j == (n \div 2) * 3
  IN  IF n % 2 = 0 THEN (img[j] + 256 * (img[j + 1] \div 16)) % 4096
      ELSE ((img[j + 1] % 16) + 16 * img[j + 2]) % 4096

\* fat[n]; img is the packed table
Entry(img, n) ==
  LET j == (n \div 2) * 3
  IN  IF n % 2 = 0 THEN (img[j] + 256 * img[j + 1]) % 4096
      ELSE (img[j + 1] \div 16 + 16 * img[j + 2]) % 4096

-----------------------------------------------------------------------------
(* file_loadfile: the cluster after k others, and the bytes of a file *)

ClusterAfter(clustno, img, last) ==
  LET c[k \in 0..last] == IF k = 0 THEN clustno ELSE Entry(img, c[k - 1])
  IN  c

file_loadfile(clustno, size, img) ==
  LET c == ClusterAfter(clustno, img, IF size = 0 THEN 0 ELSE (size - 1) \div Sector)
  IN  [i \in 1..size |-> <<c[(i - 1) \div Sector], (i - 1) % Sector>>]

-----------------------------------------------------------------------------
(* file_search *)

TooLong == <<>>

\* Mutant: a dot is stored unless the name before it is full.
DotAtEnd(j) == j = NameLen

\* name[i] == '.' && j <= 8
DotSplits(j) == j <= NameLen

\* One character of the name: s is filled up to j.
PutName(a, c) ==
  IF a.j >= NameLen + ExtLen THEN [a EXCEPT !.long = TRUE]
  ELSE IF c = "." /\ DotSplits(a.j) THEN [a EXCEPT !.j = NameLen]
  ELSE [a EXCEPT !.s[a.j + 1] = IF c = "." THEN c ELSE Upper[c], !.j = @ + 1]

Blank == [s |-> [i \in 1..(NameLen + ExtLen) |-> " "], j |-> 0, long |-> FALSE]

\* The name as it stands in a directory, or TooLong
Filled(nm) ==
  LET a == FoldLeft(PutName, Blank, nm)
  IN  IF a.long THEN TooLong ELSE a.s

\* A file is neither a directory nor a volume label (type & 0x18).
IsFile(e) == (e.type \div 8) % 4 = 0

\* The first entry of that name; dir is the directory up to its end, and 0
\* stands for the null pointer.
file_search(nm, dir) ==
  IF Filled(nm) = TooLong THEN 0
  ELSE SelectInSeq(dir, LAMBDA e : IsFile(e) /\ e.name = Filled(nm))
=============================================================================
