----------------------------- MODULE Allocator -----------------------------
(***************************************************************************)
(* The allocator of a torrent (internal/allocator/allocator.go) on the     *)
(* file storage (internal/storage): it opens every file of the torrent,    *)
(* makes it as long as the torrent says and reports its progress; after a  *)
(* file that fails it closes those it has opened.                          *)
(***************************************************************************)
EXTENDS Worker, Integers, Sequences

CONSTANTS
    Paths,
    Lengths,        \* lengths of files, and sizes found on the disk
    NoFile,
    MaxFiles        \* bound: files of a torrent

ASSUME LengthsAssumption ==
    Lengths \subseteq Nat /\ NoFile \notin Lengths \cup {0} /\ MaxFiles \in Nat

VARIABLES
    files,          \* info.Files
    disk,           \* path -> size, in the data directory
    found,          \* history: the disk as Run found it
    opened,         \* indices of the files open
    index,          \* of the file Run is at
    failed,         \* a.Error
    hasExisting, hasMissing,
    allocated,      \* allocatedSize
    received        \* the owner received from resultC

allocatorVars == <<files, disk, found, opened, index, failed, hasExisting,
                   hasMissing, allocated, received>>

FileEntries == [path : Paths, length : Lengths, padding : BOOLEAN]

\* NewInfo refuses two files with one path; padding files are not opened.
FileLists ==
    {fs \in UNION {[1 .. n -> FileEntries] : n \in 1 .. MaxFiles} :
        \A i, j \in DOMAIN fs : fs[i].path = fs[j].path => i = j}

AllocatorTypeOK ==
    /\ pc \in {"open", "progress", "close", "result", "ended"}
    /\ files \in FileLists
    /\ disk \in [Paths -> Lengths \cup {0, NoFile}]
    /\ opened \subseteq DOMAIN files
    /\ index \in 1 .. Len(files) + 1
    /\ {failed, hasExisting, hasMissing, received} \subseteq BOOLEAN
    /\ allocated \in Nat

AllocatorInit(lists, sizes) ==
    /\ files \in lists
    /\ disk \in [Paths -> sizes]
    /\ found = disk
    /\ opened = {} /\ index = 1
    /\ failed = FALSE /\ hasExisting = FALSE /\ hasMissing = FALSE
    /\ allocated = 0 /\ received = FALSE

\* Mutant: a file that is there keeps its size.
SizeKept(path, length) == IF disk[path] = NoFile THEN length ELSE disk[path]

\* of.Truncate(size), for a new file and for one of another size
SizeSet(path, length) == length

\* FileStorage.Open succeeds.
OpensFile(f) ==
    /\ disk' = [disk EXCEPT ![f.path] = SizeSet(f.path, f.length)]
    /\ hasExisting' = (hasExisting \/ disk[f.path] # NoFile)
    /\ hasMissing' = (hasMissing \/ disk[f.path] = NoFile)
    /\ opened' = opened \cup {index}
    /\ allocated' = allocated + f.length
    /\ GoTo("progress")
    /\ UNCHANGED failed

\* It fails: before it changed anything, after it has made an empty file, or
\* with the file as it should be (disableReadAhead); the file is closed.
FailsToOpen(f) ==
    /\ \/ UNCHANGED disk
       \/ disk[f.path] = NoFile /\ disk' = [disk EXCEPT ![f.path] = 0]
       \/ disk' = [disk EXCEPT ![f.path] = f.length]
    /\ failed' = TRUE
    /\ GoTo("close")
    /\ UNCHANGED <<hasExisting, hasMissing, opened, allocated>>

OpenPadding(f) ==
    /\ opened' = opened \cup {index}
    /\ allocated' = allocated + f.length
    /\ GoTo("progress")
    /\ UNCHANGED <<disk, hasExisting, hasMissing, failed>>

OpenFile ==
    /\ pc = "open" /\ index <= Len(files)
    /\ IF files[index].padding
       THEN OpenPadding(files[index])
       ELSE OpensFile(files[index]) \/ FailsToOpen(files[index])
    /\ UNCHANGED <<files, found, index, received>>

\* sendProgress: the owner takes it, or the allocator is closed; Run goes on
\* with the next file in both cases.
SendProgress ==
    /\ pc = "progress"
    /\ owner = "working" \/ closeC
    /\ index' = index + 1
    /\ GoTo("open")
    /\ UNCHANGED <<files, disk, found, opened, failed, hasExisting,
                   hasMissing, allocated, received>>

AllOpened ==
    /\ pc = "open" /\ index > Len(files)
    /\ GoTo("close")
    /\ UNCHANGED allocatorVars

\* Mutant: the files that were opened before the error stay open.
OpenedKept == opened

\* The deferred function closes a.Files after an error.
OpenedClosed == IF failed THEN {} ELSE opened

CloseFiles ==
    /\ pc = "close"
    /\ opened' = OpenedClosed
    /\ GoTo("result")
    /\ UNCHANGED <<files, disk, found, index, failed, hasExisting, hasMissing,
                   allocated, received>>

AllocatorResult ==
    /\ pc = "result"
    /\ \/ owner = "working" /\ received' = TRUE
       \/ closeC /\ UNCHANGED received
    /\ RunEnds
    /\ UNCHANGED <<files, disk, found, opened, index, failed, hasExisting,
                   hasMissing, allocated>>

AllocatorStep ==
    OpenFile \/ SendProgress \/ AllOpened \/ CloseFiles \/ AllocatorResult
-----------------------------------------------------------------------------
\* The length of the first n files, for every n.
LengthTo(fs) ==
    LET sum[n \in 0 .. Len(fs)] ==
            IF n = 0 THEN 0 ELSE sum[n - 1] + fs[n].length
    IN  sum

\* Who receives the allocator without an error has every file open and, on the
\* disk, as long as the torrent says, the flags tell what was there before,
\* and the progress adds up; with an error nothing is open.  A file whose path
\* is not the torrent's is never touched (allocator.go:40-96,
\* filestorage.go:31-84).
AllocatedAsReported ==
    LET real == {i \in DOMAIN files : ~files[i].padding}
        before == {i \in real : found[files[i].path] # NoFile}
    IN
    /\ received /\ failed => opened = {}
    /\ received /\ ~failed =>
          /\ opened = DOMAIN files
          /\ \A i \in real : disk[files[i].path] = files[i].length
          /\ hasExisting <=> before # {}
          /\ hasMissing <=> real \ before # {}
          /\ allocated = LengthTo(files)[Len(files)]
    /\ \A p \in Paths :
          p \notin {files[i].path : i \in real} => disk[p] = found[p]
=============================================================================
