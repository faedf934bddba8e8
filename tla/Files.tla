-------------------------------- MODULE Files -------------------------------
(***************************************************************************)
(* The files of an application: hrb_api 21 to 25 with file_loadfile2, and  *)
(* what cmd_app closes when the application ends.  They come from what the *)
(* boot sector has read: asmhead.nas copies it to ADR_DISKIMG.             *)
(*                                                                         *)
(* The disk is laid out by a formatter (external): each file has its       *)
(* clusters, and the table is packed.  A compressed file has the tek       *)
(* header; what it unpacks to is a sequence of its own.  The k-th byte of  *)
(* sector n of the diskette is <<n, k>>.                                   *)
(*                                                                         *)
(* The application closes, moves in and reads only what it has opened and  *)
(* not closed.                                                             *)
(***************************************************************************)
EXTENDS Boot, DiskFile, FiniteSets

CONSTANTS Disks,           \* each a directory: a sequence of entries
          Names,           \* what the application asks for
          Handles,         \* 8
          PageSize,        \* 4096, the unit of memman_alloc_4k
          Amounts,         \* bytes and distances of its calls
          MaxPages         \* bound: pages of memory

\* unpacked is 0 for a plain file.
Entries == [name : Seq(STRING), type : Nat, clusters : Seq(Nat), size : Nat, unpacked : Nat]

\* What is stored lies in the cylinders that are read, and no cluster belongs to two
\* files or twice to one.  An empty file has at most the number 0; the header of a
\* compressed one has 16 bytes.
ASSUME FilesAssumption ==
  /\ Handles \in Nat /\ PageSize \in Nat \ {0} /\ MaxPages \in Nat
  /\ Amounts \subseteq Int
  /\ Disks \subseteq Seq(Entries)
  /\ \A d \in Disks : \A f \in DOMAIN d :
       /\ Len(d[f].clusters) * Sector >= d[f].size
       /\ \A i \in DOMAIN d[f].clusters :
            d[f].clusters[i] \in IF d[f].size > 0 THEN 2..(Sectors - 31) ELSE {0}
       /\ d[f].unpacked > 0 => d[f].size >= 17
       /\ \A g \in DOMAIN d :
            \A i \in DOMAIN d[f].clusters, k \in DOMAIN d[g].clusters :
              d[f].clusters[i] = d[g].clusters[k] /\ d[f].size > 0 => f = g /\ i = k

VARIABLES disk,            \* the directory of the diskette
          fhandle,         \* [buf, size, pos] of each handle; buf is 0 or an address
          heap,            \* what memman has given out: [addr, pages]
          contents,        \* what is stored at an address (nothing once it is freed)
          seen             \* what the application has read from a handle since it
                           \* opened it or last moved in it, and from where

filesVars == <<disk, fhandle, heap, contents, seen>>

-----------------------------------------------------------------------------
(* The disk *)

\* A byte of a cluster, on the diskette and where it was read to
OnDisk(byte) == <<31 + byte[1], byte[2]>>
InImage(byte) == <<memory[64 + 31 + byte[1]], byte[2]>>

\* The table as it should be: a file's cluster holds the next one's number, the
\* last 0xfff.
EndOfChain == 4095
NextIn(clusters, c) ==
  LET i == CHOOSE k \in DOMAIN clusters : clusters[k] = c
  IN  IF i < Len(clusters) THEN clusters[i + 1] ELSE EndOfChain
Has(e, c) == \E i \in DOMAIN e.clusters : e.clusters[i] = c
Owner(d, c) == CHOOSE f \in DOMAIN d : Has(d[f], c)
Linked(d, c) == IF \E f \in DOMAIN d : Has(d[f], c) THEN NextIn(d[Owner(d, c)].clusters, c) ELSE 0

\* Its bytes: 24 bits hold two entries, the lower one first.
TwoLinks(d, m) == Linked(d, 2 * m) + 4096 * Linked(d, 2 * m + 1)
ByteOf(word, r) == (word \div (CASE r = 0 -> 1 [] r = 1 -> 256 [] r = 2 -> 65536)) % 256
FatBytes == 0..4319
FatImage(d) == [j \in FatBytes |-> ByteOf(TwoLinks(d, j \div 3), j % 3)]

Stored(d, f) ==
  [i \in 1..d[f].size |->
    OnDisk(<<d[f].clusters[((i - 1) \div Sector) + 1], (i - 1) % Sector>>)]
Unpacked(d, f) == [i \in 1..d[f].unpacked |-> <<f, i>>]

\* The file as its author knows it
Content(d, f) == IF d[f].unpacked = 0 THEN Stored(d, f) ELSE Unpacked(d, f)

-----------------------------------------------------------------------------
(* Memory *)

PagesOf(size) == (size + PageSize - 1) \div PageSize

Room(h, pages) ==
  {addr \in 1..MaxPages :
     /\ addr + pages - 1 <= MaxPages
     /\ \A b \in h : addr + Max({pages, 1}) <= b.addr \/ b.addr + b.pages <= addr}

\* First fit.  Bound: the model goes no further when memory runs out, which the
\* code does not look at.
HasRoom(h, size) == Room(h, PagesOf(size)) # {}
memman_alloc_4k(h, size) == [addr |-> Min(Room(h, PagesOf(size))), pages |-> PagesOf(size)]

\* An area of no pages takes nothing.
With(h, area) == IF area.pages = 0 THEN h ELSE h \cup {area}

-----------------------------------------------------------------------------
(* hrb_api *)

Unused == {h \in 1..Handles : fhandle[h].buf = 0}
InUse == 1..Handles \ Unused

\* What memman_free_4k takes back has the size that the caller says.
Area(h) == [addr |-> fhandle[h].buf, pages |-> PagesOf(fhandle[h].size)]

\* A handle that is not in use; the code leaves its old size and position.
Closed == [buf |-> 0, size |-> 0, pos |-> 0]
NothingSeen == [file |-> 0, from |-> 0, bytes |-> <<>>]

FilesInit ==
  /\ Init
  /\ disk \in Disks
  /\ fhandle = [h \in 1..Handles |-> Closed]
  /\ heap = {}
  /\ contents = [a \in 1..MaxPages |-> <<>>]
  /\ seen = [h \in 1..Handles |-> NothingSeen]

\* Mutant: the size on the disk is kept for what was unpacked.
SizeOnDisk(f) == disk[f].size

\* *psize after file_loadfile2
LoadedSize(f) == IF disk[f].unpacked > 0 THEN disk[f].unpacked ELSE disk[f].size

\* Only what is unpacked is kept.
Kept(h, packed, plain) == With(With(h, packed), plain) \ {packed}

\* file_loadfile2: the heap, the address and the bytes of the file.  A file of
\* 17 bytes or more may be compressed.
file_loadfile2(f) ==
  LET size == disk[f].size
      bytes == [i \in 1..size |->
                 InImage(file_loadfile(disk[f].clusters[1], size, FatImage(disk))[i])]
      first == memman_alloc_4k(heap, size)
      both == With(heap, first)
      second == memman_alloc_4k(both, disk[f].unpacked)
  IN  IF size >= 17 /\ disk[f].unpacked > 0
        THEN [heap |-> Kept(heap, first, second), addr |-> second.addr, bytes |-> Unpacked(disk, f)]
        ELSE [heap |-> both, addr |-> first.addr, bytes |-> bytes]

CanLoad(f) ==
  /\ HasRoom(heap, disk[f].size)
  /\ HasRoom(With(heap, memman_alloc_4k(heap, disk[f].size)), disk[f].unpacked)

\* 21; a name that is not found changes nothing.
ApiOpen(nm) ==
  /\ Unused # {}
  /\ file_search(nm, disk) # 0
  /\ CanLoad(file_search(nm, disk))
  /\ LET f == file_search(nm, disk)
         h == Min(Unused)
         loaded == file_loadfile2(f)
     IN  /\ fhandle' = [fhandle EXCEPT ![h] = [buf |-> loaded.addr, size |-> LoadedSize(f), pos |-> 0]]
         /\ heap' = loaded.heap
         /\ contents' = IF loaded.bytes = <<>> THEN contents
                      ELSE [contents EXCEPT ![loaded.addr] = loaded.bytes]
         /\ seen' = [seen EXCEPT ![h] = [file |-> f, from |-> 0, bytes |-> <<>>]]
  /\ UNCHANGED disk

\* 22
ApiClose(h) ==
  /\ heap' = heap \ {Area(h)}
  /\ fhandle' = [fhandle EXCEPT ![h] = Closed]
  /\ contents' = IF fhandle[h].size = 0 THEN contents ELSE [contents EXCEPT ![fhandle[h].buf] = <<>>]
  /\ seen' = [seen EXCEPT ![h] = NothingSeen]
  /\ UNCHANGED disk

Within(pos, size) == Max({0, Min({pos, size})})

\* 23: from the beginning, from here, from the end
ApiSeek(h, by) ==
  /\ \E from \in {0, fhandle[h].pos, fhandle[h].size} :
       LET pos == Within(from + by, fhandle[h].size)
       IN  /\ fhandle' = [fhandle EXCEPT ![h].pos = pos]
           /\ seen' = [seen EXCEPT ![h].from = pos, ![h].bytes = <<>>]
  /\ UNCHANGED <<disk, heap, contents>>

\* The bytes up to the end of the file, or as many as are wanted
ReadBytes(h, wanted) ==
  SubSeq(contents[fhandle[h].buf], fhandle[h].pos + 1,
         Min({fhandle[h].pos + wanted, fhandle[h].size}))

\* 25
ApiRead(h, wanted) ==
  /\ LET bytes == ReadBytes(h, wanted)
     IN  /\ seen' = [seen EXCEPT ![h].bytes = @ \o bytes]
         /\ fhandle' = [fhandle EXCEPT ![h].pos = @ + Len(bytes)]
  /\ UNCHANGED <<disk, heap, contents>>

\* The application ends: "close the files that have not been closed".
CloseFiles ==
  /\ heap' = heap \ {Area(h) : h \in InUse}
  /\ fhandle' = [h \in 1..Handles |-> Closed]
  /\ contents' = [a \in 1..MaxPages |-> <<>>]
  /\ seen' = [h \in 1..Handles |-> NothingSeen]
  /\ UNCHANGED disk

FilesNext ==
  \/ \E nm \in Names : ApiOpen(nm)
  \/ \E h \in InUse : \/ ApiClose(h)
                      \/ \E n \in Amounts : ApiSeek(h, n) \/ ApiRead(h, n)
  \/ CloseFiles

\* The applications come long after the boot.
Step == \/ Next /\ UNCHANGED filesVars
        \/ pc = "done" /\ FilesNext /\ UNCHANGED vars

FilesSpec ==
  /\ FilesInit /\ [][Step]_<<vars, filesVars>>
  /\ WF_vars(readfast) /\ WF_vars(next \/ Fail)

-----------------------------------------------------------------------------
(* Properties *)

Needed == {h \in InUse : fhandle[h].size > 0}

\* No memory is lost and none is given back twice: what is allocated is what the
\* open files need, an area for each.
HeapExact ==
  /\ heap = {Area(h) : h \in Needed}
  /\ Cardinality(heap) = Cardinality(Needed)

\* However an application divides its reads, they give the file as its author
\* knows it, from the place where it began to read, without a gap and not beyond
\* the end; its clusters may be scattered, and it may be compressed.
ReadInOrder ==
  \A h \in InUse :
    /\ fhandle[h].size = Len(Content(disk, seen[h].file))
    /\ fhandle[h].pos \in 0..fhandle[h].size
    /\ seen[h].bytes = SubSeq(Content(disk, seen[h].file), seen[h].from + 1, fhandle[h].pos)
=============================================================================
