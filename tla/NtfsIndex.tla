------------------------------ MODULE NtfsIndex ------------------------------
(***************************************************************************)
(* The in-memory tree of one or more NTFS volumes and the threads that     *)
(* keep it up to date from the USN change journals: src/filesearch/ntfs.c, *)
(* ntfs.cpp (MonitorProc), fs_common.c and fs_common2.cpp.                 *)
(*                                                                         *)
(* heap is the memory the tree is built of: a sequence of entries, an      *)
(* address being a position in it.  malloc appends, free clears live.      *)
(* Touching a freed entry, following a NULL pointer and a failed assertion *)
(* end the process: fault says which, and nothing happens after it.        *)
(*                                                                         *)
(* The volumes and their journals belong to the operating system.  Of the  *)
(* reasons a record carries only the five updateFileEntry looks at are     *)
(* kept; they accumulate, as NTFS does it, until the file is closed.  A    *)
(* read of the journal that fails (ntfs.cpp:231-264) is left out.          *)
(***************************************************************************)
EXTENDS Integers, Sequences, SequencesExt, FiniteSets

CONSTANTS
  Drive,    \* 1 .. n, the volumes that are watched
  DirFrn,   \* file reference numbers of directories, ...
  FileFrn,  \* ... and of other files
  Name,
  Overlap,  \* TRUE: a program may change files while another change is not closed
  MaxOps    \* bound on the changes made to the volumes

ROOT_NUMBER == 5
NULL == 0
Raced == -1  \* ALL_FILE_COUNT once two threads have changed it at once: any value
Frn == DirFrn \cup FileFrn
Dirs == DirFrn \cup {ROOT_NUMBER}

ASSUME NtfsAssumption ==
  /\ IsFiniteSet(Drive) /\ Drive = 1 .. Cardinality(Drive)
  /\ Frn \subseteq Nat \ {0, ROOT_NUMBER}
  /\ DirFrn \cap FileFrn = {}
  /\ Overlap \in BOOLEAN

VARIABLES
  disk,     \* what is on each volume
  pending,  \* reasons accumulated by the files that are open
  journal,  \* records the monitor thread of each volume has not yet read
  ops,      \* changes made so far
  heap,
  DirMaps,  \* directories by file reference number
  old,      \* old_frn, old_pfrn and old_i of updateFileEntry, shared by all threads
  ALL_FILE_COUNT,
  fault

volumeVars == <<disk, pending, ops>>
indexVars == <<heap, DirMaps, ALL_FILE_COUNT, fault>>
vars == <<disk, pending, journal, ops, heap, DirMaps, old, ALL_FILE_COUNT, fault>>

Reason == {"create", "rename_old", "rename_new", "delete", "close"}
Absent == [exists |-> FALSE, parent |-> 0, name |-> 0, renamedByMove |-> FALSE]

g_rootVols(i) == i

Init ==
  /\ disk = [i \in Drive |-> [f \in Frn |-> Absent]]
  /\ pending = [i \in Drive |-> [f \in Frn |-> {}]]
  /\ journal = [i \in Drive |-> <<>>]
  /\ ops = 0
  /\ heap = [i \in 1 .. Cardinality(Drive) |-> [frn |-> ROOT_NUMBER, parent |-> NULL, name |-> 0, dir |-> TRUE,
                              children |-> <<>>, live |-> TRUE]]
  /\ DirMaps = [i \in Drive |-> [f \in Dirs |-> IF f = ROOT_NUMBER THEN g_rootVols(i) ELSE NULL]]
  /\ old = [frn |-> 0, pfrn |-> 0, i |-> 0]
  /\ ALL_FILE_COUNT = Cardinality(Drive)
  /\ fault = "none"

-----------------------------------------------------------------------------
(* The volumes.                                                            *)

DirExists(i, p) == p = ROOT_NUMBER \/ (p \in DirFrn /\ disk[i][p].exists /\ "delete" \notin pending[i][p])
NameFree(i, p, n) == \A f \in Frn : disk[i][f].exists => <<disk[i][f].parent, disk[i][f].name>> # <<p, n>>
\* The file and what is in it: all that is in every set that is closed under contents.
Inside(i, f) ==
  {g \in Frn : \A S \in SUBSET Frn :
     f \in S /\ (\A k \in Frn : disk[i][k].exists /\ disk[i][k].parent \in S => k \in S) => g \in S}

USN_RECORD(f, p, n, reason) == [frn |-> f, pfrn |-> p, name |-> n, reason |-> reason]

MayChange(i) ==
  /\ fault = "none" /\ ops < MaxOps
  /\ Overlap \/ \A f \in Frn : pending[i][f] = {}
  /\ ops' = ops + 1
  /\ UNCHANGED <<indexVars, old>>

CreateFile(i, f, p, n) ==
  /\ MayChange(i)
  /\ ~disk[i][f].exists /\ DirExists(i, p) /\ NameFree(i, p, n)
  /\ disk' = [disk EXCEPT ![i][f] = [exists |-> TRUE, parent |-> p, name |-> n, renamedByMove |-> FALSE]]
  /\ pending' = [pending EXCEPT ![i][f] = {"create"}]
  /\ journal' = [journal EXCEPT ![i] = Append(@, USN_RECORD(f, p, n, {"create"}))]

RenameFile(i, f, p, n) ==
  LET e == disk[i][f] IN
  /\ MayChange(i)
  /\ e.exists /\ "delete" \notin pending[i][f]
  /\ DirExists(i, p) /\ p \notin Inside(i, f) /\ NameFree(i, p, n)
  /\ disk' = [disk EXCEPT ![i][f] =
       [exists |-> TRUE, parent |-> p, name |-> n,
        renamedByMove |-> p # e.parent /\ (e.renamedByMove \/ n # e.name)]]
  /\ pending' = [pending EXCEPT ![i][f] = @ \cup {"rename_new"}]
  /\ journal' = [journal EXCEPT ![i] = @ \o
       <<USN_RECORD(f, e.parent, e.name, (pending[i][f] \ {"rename_new"}) \cup {"rename_old"}),
         USN_RECORD(f, p, n, pending[i][f] \cup {"rename_new"})>>]

\* A deleted file keeps its name until it is closed.
DeleteFile(i, f) ==
  /\ MayChange(i)
  /\ disk[i][f].exists /\ "delete" \notin pending[i][f]
  /\ Inside(i, f) = {f}
  /\ pending' = [pending EXCEPT ![i][f] = @ \cup {"delete"}]
  /\ UNCHANGED <<disk, journal>>

CloseFile(i, f) ==
  /\ fault = "none" /\ pending[i][f] # {}
  /\ journal' = [journal EXCEPT ![i] =
       Append(@, USN_RECORD(f, disk[i][f].parent, disk[i][f].name, pending[i][f] \cup {"close"}))]
  /\ disk' = IF "delete" \in pending[i][f] THEN [disk EXCEPT ![i][f] = Absent] ELSE disk
  /\ pending' = [pending EXCEPT ![i][f] = {}]
  /\ UNCHANGED <<ops, indexVars, old>>

-----------------------------------------------------------------------------
(* The tree, fs_common.c and fs_common2.cpp.                               *)

Live(a) == a # NULL /\ heap[a].live
Freed(a) == a # NULL /\ ~heap[a].live

findDir(k, i) == IF k \in Dirs THEN DirMaps[i][k] ELSE NULL

\* The position of the first child of p with number k, 0 if there is none.
FirstChild(h, p, k) ==
  LET at == {n \in DOMAIN h[p].children : h[h[p].children[n]].frn = k}
  IN IF at = {} THEN 0 ELSE CHOOSE n \in at : \A m \in at : n <= m

\* (Mutant) the numbers are not compared.
ChildOf_Any(dir, k) == IF heap[dir].children = <<>> THEN NULL ELSE heap[dir].children[1]
\* The first child of dir with this number.  Only called for a dir that is live.
ChildOf(dir, k) ==
  LET n == FirstChild(heap, dir, k) IN IF n = 0 THEN NULL ELSE heap[dir].children[n]

\* findFile(k, p, i), once it is known that it does not run into freed memory.
findFile(k, p, i) == IF findDir(p, i) = NULL THEN NULL ELSE ChildOf(findDir(p, i), k)
FindFaults(p, i) == i \in Drive /\ Freed(findDir(p, i))

addChildren(h, p, a) == [h EXCEPT ![a].parent = p, ![p].children = Append(@, a)]

\* find_if and erase: the first child with the number of the file goes.
delete_file_from_parent_vector(h, a, p) ==
  LET n == FirstChild(h, p, h[a].frn)
  IN IF n = 0 THEN h ELSE [h EXCEPT ![p].children = RemoveAt(@, n)]

\* The entry, and for a directory everything below it, which deleteDir frees: all that
\* is in every set that holds the entry and the children of its members.
Below(h, a) ==
  {b \in DOMAIN h : \A S \in SUBSET DOMAIN h :
     a \in S /\ (\A c \in S : Range(h[c].children) \subseteq S) => b \in S}
Subtree(a) == Below(heap, a)

\* The ++ and -- of ALL_FILE_COUNT take no lock.
Counts(d) ==
  \/ ALL_FILE_COUNT # Raced /\ ALL_FILE_COUNT' = ALL_FILE_COUNT + d
  \/ Cardinality(Drive) > 1 /\ ALL_FILE_COUNT' = Raced

Fail(why) == fault' = why /\ UNCHANGED <<heap, DirMaps, ALL_FILE_COUNT>>
Ignore == UNCHANGED indexVars

\* (Mutant) a directory is entered as a file.
genFileEntryOne_NoDir(r, i) ==
  LET e == [frn |-> r.frn, parent |-> NULL, name |-> r.name, dir |-> FALSE,
            children |-> <<>>, live |-> TRUE]
      p == DirMaps[i][r.pfrn]
  IN IF Freed(p) THEN Fail("freed")
     ELSE /\ heap' = IF p = NULL THEN Append(heap, e) ELSE addChildren(Append(heap, e), p, Len(heap) + 1)
          /\ Counts(1)
          /\ UNCHANGED <<DirMaps, fault>>

\* initFileEntry and attachParent: an entry without a parent stays in memory, unattached.
genFileEntryOne(r, i) ==
  LET a == Len(heap) + 1
      e == [frn |-> r.frn, parent |-> NULL, name |-> r.name, dir |-> r.frn \in DirFrn,
            children |-> <<>>, live |-> TRUE]
      map == IF e.dir THEN [DirMaps EXCEPT ![i][r.frn] = a] ELSE DirMaps
      p == map[i][r.pfrn]
  IN IF Freed(p) THEN Fail("freed")
     ELSE /\ heap' = IF p = NULL THEN Append(heap, e) ELSE addChildren(Append(heap, e), p, a)
          /\ DirMaps' = map
          /\ Counts(1)
          /\ UNCHANGED fault

\* (Mutants) the entry is renamed in a copy that is counted again; the old entry is not freed.
RenamedCopy(a, n) ==
  LET p == heap[a].parent
      copied == addChildren(Append(heap, [heap[a] EXCEPT !.name = n]), p, Len(heap) + 1)
  IN delete_file_from_parent_vector(copied, a, p)
renameFile_Counts(a, n) ==
  /\ heap' = [RenamedCopy(a, n) EXCEPT ![a].live = FALSE]
  /\ Counts(1)
  /\ UNCHANGED <<DirMaps, fault>>
renameFile_NoFree(a, n) == heap' = RenamedCopy(a, n) /\ UNCHANGED <<DirMaps, ALL_FILE_COUNT, fault>>

\* A copy of the entry takes its place; DirMaps is left alone.
renameFile(a, n) ==
  LET b == Len(heap) + 1
      p == heap[a].parent
      copied == addChildren(Append(heap, [heap[a] EXCEPT !.name = n]), p, b)
      h == [delete_file_from_parent_vector(copied, a, p) EXCEPT ![a].live = FALSE]
  IN /\ heap' = [x \in DOMAIN h |->
                   IF x \in Range(heap[a].children) THEN [h[x] EXCEPT !.parent = b] ELSE h[x]]
     /\ UNCHANGED <<DirMaps, ALL_FILE_COUNT, fault>>

\* (Mutant) the entry stays in the directory it came from.
moveFile_NoErase(a, pnew) ==
  /\ heap' = addChildren(heap, pnew, a)
  /\ UNCHANGED <<DirMaps, ALL_FILE_COUNT, fault>>

moveFile(a, pnew) ==
  /\ heap' = addChildren(delete_file_from_parent_vector(heap, a, heap[a].parent), pnew, a)
  /\ UNCHANGED <<DirMaps, ALL_FILE_COUNT, fault>>

deleteFile(a) ==
  LET gone == Subtree(a)
      h == delete_file_from_parent_vector(heap, a, heap[a].parent)
  IN /\ heap' = [x \in DOMAIN h |->
                   IF x \in gone THEN [h[x] EXCEPT !.live = FALSE, !.children = <<>>] ELSE h[x]]
     /\ Counts(-Cardinality(gone))
     /\ UNCHANGED <<DirMaps, fault>>

-----------------------------------------------------------------------------
(* updateFileEntry: one record of the journal of volume i.                 *)

\* (Mutant) deletions are not handled.
Branch_NoDelete(reason) ==
  IF {"create", "close"} \subseteq reason THEN "create"
  ELSE IF "rename_old" \in reason THEN "rename_old"
  ELSE IF {"rename_new", "close"} \subseteq reason THEN "rename_new"
  ELSE "other"
Branch(reason) ==
  IF {"create", "close"} \subseteq reason THEN "create"
  ELSE IF "rename_old" \in reason THEN "rename_old"
  ELSE IF {"rename_new", "close"} \subseteq reason THEN "rename_new"
  ELSE IF {"delete", "close"} \subseteq reason THEN "delete"
  ELSE "other"

ReadRecord(i, branch) ==
  /\ fault = "none" /\ journal[i] # <<>>
  /\ Branch(Head(journal[i]).reason) = branch
  /\ journal' = [journal EXCEPT ![i] = Tail(@)]
  /\ UNCHANGED volumeVars

OnCreate(i) ==
  /\ ReadRecord(i, "create")
  /\ genFileEntryOne(Head(journal[i]), i)
  /\ UNCHANGED old

OnRenameOld(i) ==
  /\ ReadRecord(i, "rename_old")
  /\ LET r == Head(journal[i]) IN old' = [frn |-> r.frn, pfrn |-> r.pfrn, i |-> i]
  /\ Ignore

OnRenameNew(i) ==
  LET r == Head(journal[i])
      sameDir == old.pfrn = r.pfrn /\ old.i = i
      file == IF old.i \in Drive THEN findFile(old.frn, old.pfrn, old.i) ELSE NULL
      pnew == findDir(r.pfrn, i)
  IN /\ ReadRecord(i, "rename_new")
     /\ UNCHANGED old
     /\ IF FindFaults(old.pfrn, old.i) THEN Fail("freed")
        ELSE IF sameDir THEN IF file = NULL THEN Ignore ELSE renameFile(file, r.name)
        ELSE IF file = NULL THEN Fail("null")
        ELSE IF heap[file].frn # r.frn THEN Fail("assert")
        ELSE IF pnew = NULL THEN Ignore
        ELSE IF Freed(pnew) THEN Fail("freed")
        ELSE moveFile(file, pnew)

OnDelete(i) ==
  LET r == Head(journal[i])
      file == findFile(r.frn, r.pfrn, i)
  IN /\ ReadRecord(i, "delete")
     /\ UNCHANGED old
     /\ IF FindFaults(r.pfrn, i) THEN Fail("freed")
        ELSE IF file = NULL THEN Ignore
        ELSE deleteFile(file)

OnOther(i) == ReadRecord(i, "other") /\ UNCHANGED old /\ Ignore

Next ==
  \E i \in Drive :
    \/ \E f \in Frn, p \in Dirs, n \in Name : CreateFile(i, f, p, n)
    \/ \E f \in Frn, p \in Dirs, n \in Name : RenameFile(i, f, p, n)
    \/ \E f \in Frn : DeleteFile(i, f)
    \/ \E f \in Frn : CloseFile(i, f)
    \/ OnCreate(i)
    \/ OnRenameOld(i)
    \/ OnRenameNew(i)
    \/ OnDelete(i)
    \/ OnOther(i)

Spec == Init /\ [][Next]_vars

-----------------------------------------------------------------------------
EntryRecord == [frn : Frn \cup {ROOT_NUMBER}, parent : Nat, name : Name \cup {0}, dir : BOOLEAN,
                children : Seq(Nat), live : BOOLEAN]

(* The volumes, the records, the entries and the maps have their types.    *)
TypeOK ==
  /\ disk \in [Drive -> [Frn -> [exists : BOOLEAN, parent : Dirs \cup {0}, name : Name \cup {0},
                               renamedByMove : BOOLEAN]]]
  /\ pending \in [Drive -> [Frn -> SUBSET (Reason \ {"rename_old", "close"})]]
  /\ journal \in [Drive -> Seq([frn : Frn, pfrn : Dirs, name : Name, reason : SUBSET Reason])]
  /\ ops \in Nat
  /\ heap \in Seq(EntryRecord)
  /\ \A a \in DOMAIN heap :
       /\ heap[a].parent \in DOMAIN heap \cup {NULL}
       /\ heap[a].dir = (heap[a].frn \in Dirs) /\ Range(heap[a].children) \subseteq DOMAIN heap
  /\ DirMaps \in [Drive -> [Dirs -> DOMAIN heap \cup {NULL}]]
  /\ old \in [frn : Frn \cup {0}, pfrn : Dirs \cup {0}, i : Drive \cup {0}]
  /\ ALL_FILE_COUNT \in Nat \cup {Raced}
  /\ fault \in {"none", "freed", "null", "assert"}

Running == fault = "none"
Indexed(i) == Subtree(g_rootVols(i)) \ {g_rootVols(i)}
Entry(a) == [frn |-> heap[a].frn, parent |-> heap[heap[a].parent].frn, name |-> heap[a].name]
Drained(i) == journal[i] = <<>> /\ \A f \in Frn : pending[i][f] = {}

(* When every change of a volume is closed and every record of its journal *)
(* has been handled, the tree has one entry for each file of the volume,   *)
(* in the right directory, and no other.  The names agree too, but for a   *)
(* file that was renamed by the move that brought it to its directory:     *)
(* moveFile keeps the name the entry had.                                  *)
IndexMatchesDisk ==
  \A i \in Drive : Running /\ Drained(i) =>
    /\ {heap[a].frn : a \in Indexed(i)} = {f \in Frn : disk[i][f].exists}
    /\ \A a, b \in Indexed(i) : heap[a].frn = heap[b].frn => a = b
    /\ \A a \in Indexed(i) :
         LET f == disk[i][heap[a].frn] IN
         /\ Entry(a).parent = f.parent
         /\ f.renamedByMove \/ Entry(a).name = f.name

(* The children vectors and the parent pointers agree, no entry is in two  *)
(* vectors or twice in one, and no vector holds a freed entry: a search    *)
(* that walks the tree meets every file once and only live memory.         *)
TreeWellFormed ==
  \A p \in DOMAIN heap : heap[p].live =>
    /\ IsInjective(heap[p].children)
    /\ \A c \in Range(heap[p].children) : heap[c].live /\ heap[c].parent = p

(* ALL_FILE_COUNT, which sizes the result buffer of a search, is exactly   *)
(* the number of entries that the trees of all volumes hold.               *)
CountMatchesTree ==
  Running => ALL_FILE_COUNT = Cardinality(UNION {Subtree(g_rootVols(i)) : i \in Drive})

(* A lookup by number may miss or give a stale pointer, it never gives a   *)
(* live entry of another directory.                                        *)
LookupNeverWrong ==
  Running => \A i \in Drive, k \in Dirs :
    Live(findDir(k, i)) => findDir(k, i) \in Subtree(g_rootVols(i)) /\ heap[findDir(k, i)].frn = k

(* Handling a record of one file changes the entry of no other file.       *)
Others(i, f) == {Entry(a) : a \in {b \in Indexed(i) : heap[b].frn # f}}
OnlyTheNamedFileChanges ==
  [][\A i \in Drive, f \in Frn :
       journal[i] # <<>> /\ Head(journal[i]).frn = f /\ journal'[i] = Tail(journal[i])
         => Others(i, f)' = Others(i, f)]_vars

(* The assertion of updateFileEntry: the file it is about to move is the   *)
(* file the record is about.                                               *)
MovedFileIsTheRecords == fault # "assert"

(* "Find the file in the map by its key": a directory of the tree is what  *)
(* findDir returns for its number.                                         *)
FindDirFindsDirs ==
  Running => \A i \in Drive : \A a \in Subtree(g_rootVols(i)) :
    heap[a].dir => findDir(heap[a].frn, i) = a

(* "When a file is deleted its memory structure is deleted too": once all  *)
(* records are handled the tree holds no file that is not on the volume.   *)
DeletedFilesLeaveTheTree ==
  \A i \in Drive : Running /\ Drained(i) =>
    \A a \in Indexed(i) : disk[i][heap[a].frn].exists
=============================================================================
