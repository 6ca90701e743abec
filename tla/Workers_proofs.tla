--------------------------- MODULE Workers_proofs ---------------------------
(***************************************************************************)
(* Proofs about the workers of a torrent, for any number of connections,   *)
(* trackers and files.                                                     *)
(***************************************************************************)
EXTENDS Workers, WellFoundedInduction, SequenceTheorems, TLAPS

\* What the acceptor keeps: where a connection is, and that only the helper
\* that was told to close the listener does so.
AcceptorInv ==
    /\ AcceptorTypeOK /\ AcceptorLeavesNothing
    /\ accepted + backlog <= MaxConns
    /\ listening <=> helper # "closed"
    /\ ~listening => backlog = 0
    /\ cause = "closed" => ~listening

StopInv == StopTypeOK /\ StopLeavesNothing

Real == {i \in DOMAIN files : ~files[i].padding}

\* The number of files Run has opened, if nothing failed.
Passed == IF pc = "progress" THEN index ELSE index - 1

\* Where Run is in the list of files, and that it has been through without an
\* error only at its end.
AtIndex ==
    /\ ~failed => opened = 1 .. Passed
    /\ pc \in {"open", "progress"} => ~failed
    /\ pc = "progress" => index <= Len(files)
    /\ pc \in {"close", "result", "ended"} /\ ~failed =>
          index = Len(files) + 1
    /\ pc \in {"result", "ended"} /\ failed => opened = {}
    /\ received => pc = "ended"

\* As long as nothing failed, the files that were passed are as they should be
\* and the others as they were found; the flags and the progress speak of the
\* former.
DiskAsTold ==
    ~failed =>
        /\ \A i \in Real : disk[files[i].path] =
              IF i <= Passed THEN files[i].length ELSE found[files[i].path]
        /\ hasExisting <=>
              \E i \in Real : i <= Passed /\ found[files[i].path] # NoFile
        /\ hasMissing <=>
              \E i \in Real : i <= Passed /\ found[files[i].path] = NoFile
        /\ allocated = LengthTo(files)[Passed]

\* Only paths of the torrent are written to.
OthersUntouched ==
    \A p \in Paths : p \notin {files[i].path : i \in Real} => disk[p] = found[p]

AllocatorInv ==
    /\ AllocatorTypeOK /\ found \in [Paths -> Lengths \cup {0, NoFile}]
    /\ AtIndex /\ DiskAsTold /\ OthersUntouched

IInv ==
    /\ WorkerTypeOK /\ worker \in {"acceptor", "stop", "allocator"}
    /\ worker = "acceptor" => AcceptorInv
    /\ worker = "stop" => StopInv
    /\ worker = "allocator" => AllocatorInv
-----------------------------------------------------------------------------
\* A set of natural numbers has a least one.
LEMMA NatLeast ==
  ASSUME NEW T \in SUBSET Nat, T # {}
  PROVE  \E m \in T : \A k \in T : m <= k
<1> DEFINE R == {ss \in Nat \X Nat : ss[1] < ss[2]}
<1>1. IsWellFoundedOn(R, Nat)
  BY NatLessThanWellFounded DEF OpToRel
<1>2. \A i, j \in Nat : i < j => <<i, j>> \in R
  OBVIOUS
<1> HIDE DEF R
<1>3. PICK m \in T : \A k \in T : ~(<<k, m>> \in R)
  BY <1>1, WFMin
<1>4. ASSUME NEW k \in T PROVE m <= k
  <2>1. ~(k < m)
    BY <1>2, <1>3
  <2> QED BY <2>1
<1> QED BY <1>3, <1>4

\* A set with zero and the successor of every number in it has all numbers.
LEMMA SetInduction ==
  ASSUME NEW T, 0 \in T, \A n \in Nat : n \in T => n + 1 \in T
  PROVE  Nat \subseteq T
<1> SUFFICES ASSUME Nat \ T # {} PROVE FALSE
  OBVIOUS
<1>1. PICK m \in Nat \ T : \A k \in Nat \ T : m <= k
  BY NatLeast
<1>2. m # 0 /\ m - 1 \in Nat
  BY <1>1
<1>3. m - 1 \in T
  BY <1>1, <1>2
<1>4. (m - 1) + 1 = m
  BY <1>1
<1> QED BY <1>1, <1>2, <1>3, <1>4

\* A list of files is a sequence, and no two of its files have one path.
LEMMA FileListsTyped ==
  ASSUME NEW fs \in FileLists
  PROVE  /\ fs \in Seq(FileEntries) /\ Len(fs) \in Nat
         /\ DOMAIN fs = 1 .. Len(fs)
         /\ \A i \in 1 .. Len(fs) :
               fs[i].path \in Paths /\ fs[i].length \in Nat
               /\ fs[i].length \in Lengths /\ fs[i].padding \in BOOLEAN
         /\ \A i, j \in 1 .. Len(fs) : fs[i].path = fs[j].path => i = j
<1>1. PICK n \in 1 .. MaxFiles : fs \in [1 .. n -> FileEntries]
  BY DEF FileLists
<1>2. n \in Nat
  BY LengthsAssumption
<1>3. fs \in Seq(FileEntries) /\ Len(fs) = n /\ DOMAIN fs = 1 .. n
  BY <1>1, <1>2
<1>4. \A i \in 1 .. n : fs[i] \in FileEntries
  BY <1>1
<1> QED BY <1>2, <1>3, <1>4, LengthsAssumption DEF FileLists, FileEntries

\* LengthTo adds up.
LEMMA LengthToAdds ==
  ASSUME NEW fs \in FileLists
  PROVE  /\ LengthTo(fs)[0] = 0
         /\ \A n \in 1 .. Len(fs) :
               LengthTo(fs)[n] = LengthTo(fs)[n - 1] + fs[n].length
         /\ \A n \in 0 .. Len(fs) : LengthTo(fs)[n] \in Nat
<1> DEFINE Sums(g, m) ==
             g = [n \in 0 .. m |->
                    IF n = 0 THEN 0 ELSE g[n - 1] + fs[n].length]
           T == {m \in Nat : m <= Len(fs) => \E g : Sums(g, m)}
<1>1. 0 \in T
  <2>1. Sums([n \in 0 .. 0 |-> 0], 0)
    OBVIOUS
  <2> QED BY <2>1
<1>2. ASSUME NEW m \in Nat, m \in T PROVE m + 1 \in T
  <2>1. SUFFICES ASSUME m + 1 <= Len(fs) PROVE \E g : Sums(g, m + 1)
    OBVIOUS
  <2>2. PICK g : Sums(g, m)
    BY <2>1, <1>2, FileListsTyped
  <2> DEFINE h == [n \in 0 .. m + 1 |->
                     IF n = 0 THEN 0 ELSE g[n - 1] + fs[n].length]
  <2>3. \A n \in 0 .. m + 1 :
           h[n] = IF n = 0 THEN 0 ELSE g[n - 1] + fs[n].length
    OBVIOUS
  <2>5. h = [n \in 0 .. m + 1 |-> h[n]]
    OBVIOUS
  <2> HIDE DEF h
  <2>4. \A n \in 0 .. m + 1 :
           h[n] = IF n = 0 THEN 0 ELSE h[n - 1] + fs[n].length
    <3>1. \A n \in 0 .. m : h[n] = g[n]
      BY <2>2, <2>3
    <3>2. \A n \in 0 .. m + 1 : n # 0 => n - 1 \in 0 .. m
      OBVIOUS
    <3> QED BY <3>1, <3>2, <2>3
  <2>6. Sums(h, m + 1)
    BY <2>4, <2>5
  <2> QED BY <2>6
<1>3. Len(fs) \in T
  <2> HIDE DEF T
  <2>1. Nat \subseteq T
    BY <1>1, <1>2, SetInduction
  <2> QED BY <2>1, FileListsTyped
<1>4. PICK g : Sums(g, Len(fs))
  BY <1>3, FileListsTyped
<1>5. Sums(LengthTo(fs), Len(fs))
  BY <1>4 DEF LengthTo
<1> DEFINE U == {m \in Nat : m <= Len(fs) => LengthTo(fs)[m] \in Nat}
<1>6. 0 \in U
  BY <1>5
<1>7. ASSUME NEW m \in Nat, m \in U PROVE m + 1 \in U
  BY <1>5, <1>7, FileListsTyped
<1>8. Nat \subseteq U
  <2> HIDE DEF U
  <2> QED BY <1>6, <1>7, SetInduction
<1>9. \A n \in 0 .. Len(fs) : LengthTo(fs)[n] =
                IF n = 0 THEN 0 ELSE LengthTo(fs)[n - 1] + fs[n].length
  BY <1>5
<1>10. \A n \in 0 .. Len(fs) : LengthTo(fs)[n] \in Nat
  BY <1>8, FileListsTyped
<1> QED BY <1>9, <1>10, FileListsTyped
-----------------------------------------------------------------------------
LEMMA InitIInv == Init => IInv
<1> SUFFICES ASSUME Init PROVE IInv
  OBVIOUS
<1>1. WorkerTypeOK /\ worker \in {"acceptor", "stop", "allocator"}
  BY DEF Init, WorkerInit, WorkerTypeOK
<1>2. CASE worker = "acceptor"
  <2>1. pc = "accept" /\ AcceptorInit
    BY <1>2 DEF Init, WorkerInit
  <2>2. AcceptorTypeOK
    <3>1. listening \in BOOLEAN /\ done \in BOOLEAN
      BY <2>1, Zenon DEF AcceptorInit
    <3>2. 0 \in 0 .. MaxConns
      BY MaxConnsAssumption
    <3> QED BY <2>1, <3>1, <3>2 DEF AcceptorTypeOK, AcceptorInit
  <2>3. AcceptorInv
    BY <2>1, <2>2, MaxConnsAssumption
    DEF AcceptorInv, AcceptorInit, AcceptorLeavesNothing
  <2> QED BY <1>1, <1>2, <2>3 DEF IInv
<1>3. CASE worker = "stop"
  <2>1. pc = "collect" /\ StopInit
    BY <1>3 DEF Init, WorkerInit
  <2>2. StopInv
    BY <2>1 DEF StopInv, StopInit, StopTypeOK, StopLeavesNothing
  <2> QED BY <1>1, <1>3, <2>2 DEF IInv
<1>4. CASE worker = "allocator"
  <2>1. pc = "open" /\ AllocatorInit(FileLists, Lengths \cup {0, NoFile})
    BY <1>4 DEF Init, WorkerInit
  <2> USE <2>1 DEF AllocatorInit
  <2>2. files \in FileLists /\ disk \in [Paths -> Lengths \cup {0, NoFile}]
    OBVIOUS
  <2>3. AllocatorTypeOK
    <3>1. index \in 1 .. Len(files) + 1 /\ allocated \in Nat
      BY <2>2, FileListsTyped
    <3>2. {failed, hasExisting, hasMissing, received} \subseteq BOOLEAN
      OBVIOUS
    <3> QED BY <2>2, <3>1, <3>2 DEF AllocatorTypeOK
  <2>4. AtIndex
    BY DEF AtIndex, Passed
  <2>5. DiskAsTold
    BY <2>2, LengthToAdds, FileListsTyped DEF DiskAsTold, Passed, Real
  <2>6. OthersUntouched
    BY DEF OthersUntouched
  <2> QED BY <1>1, <1>4, <2>2, <2>3, <2>4, <2>5, <2>6 DEF IInv, AllocatorInv
<1> QED BY <1>1, <1>2, <1>3, <1>4

\* Every step of the acceptor.
LEMMA AcceptorNext ==
  ASSUME WorkerTypeOK, AcceptorInv, AcceptorStep
  PROVE  WorkerTypeOK' /\ AcceptorInv'
<1> USE MaxConnsAssumption
<1>1. CASE PeerConnects
  <2> USE <1>1 DEF PeerConnects, GoTo, workerVars
  <2>1. WorkerTypeOK'
    BY DEF WorkerTypeOK
  <2>2. AcceptorTypeOK'
    BY DEF AcceptorInv, AcceptorTypeOK, AcceptorLeavesNothing
  <2>3. AcceptorInv'
    BY <2>2 DEF AcceptorInv, AcceptorTypeOK, AcceptorLeavesNothing
  <2> QED BY <2>1, <2>3
<1>2. CASE Accept
  <2> USE <1>2 DEF Accept, GoTo, workerVars
  <2>1. WorkerTypeOK'
    BY DEF WorkerTypeOK
  <2>2. AcceptorTypeOK'
    BY DEF AcceptorInv, AcceptorTypeOK, AcceptorLeavesNothing
  <2>3. AcceptorInv'
    BY <2>2 DEF AcceptorInv, AcceptorTypeOK, AcceptorLeavesNothing
  <2> QED BY <2>1, <2>3
<1>3. CASE AcceptFails
  <2> USE <1>3 DEF AcceptFails, GoTo, workerVars
  <2>1. WorkerTypeOK'
    BY DEF WorkerTypeOK
  <2>2. AcceptorTypeOK'
    BY DEF AcceptorInv, AcceptorTypeOK, AcceptorLeavesNothing
  <2>3. AcceptorInv'
    BY <2>2 DEF AcceptorInv, AcceptorTypeOK, AcceptorLeavesNothing
  <2> QED BY <2>1, <2>3
<1>4. CASE HandOver
  <2> USE <1>4 DEF HandOver, GoTo, workerVars
  <2>1. WorkerTypeOK'
    BY DEF WorkerTypeOK
  <2>2. AcceptorTypeOK'
    BY DEF AcceptorInv, AcceptorTypeOK, AcceptorLeavesNothing
  <2>3. AcceptorInv'
    BY <2>2 DEF AcceptorInv, AcceptorTypeOK, AcceptorLeavesNothing
  <2> QED BY <2>1, <2>3
<1>5. CASE HandAbandoned
  <2> USE <1>5 DEF HandAbandoned, GoTo, workerVars, ConnDropped
  <2>1. WorkerTypeOK'
    BY DEF WorkerTypeOK
  <2>2. AcceptorTypeOK'
    BY DEF AcceptorInv, AcceptorTypeOK, AcceptorLeavesNothing
  <2>3. AcceptorInv'
    BY <2>2 DEF AcceptorInv, AcceptorTypeOK, AcceptorLeavesNothing
  <2> QED BY <2>1, <2>3
<1>6. CASE CloseDone
  <2> USE <1>6 DEF CloseDone, GoTo, workerVars
  <2>1. WorkerTypeOK'
    BY DEF WorkerTypeOK
  <2>2. AcceptorTypeOK'
    BY DEF AcceptorInv, AcceptorTypeOK, AcceptorLeavesNothing
  <2>3. AcceptorInv'
    BY <2>2 DEF AcceptorInv, AcceptorTypeOK, AcceptorLeavesNothing
  <2> QED BY <2>1, <2>3
<1>7. CASE AcceptorEnds
  <2> USE <1>7 DEF AcceptorEnds, GoTo, workerVars, RunEnds, acceptorVars
  <2>1. WorkerTypeOK'
    BY DEF WorkerTypeOK
  <2>2. AcceptorTypeOK'
    BY DEF AcceptorInv, AcceptorTypeOK, AcceptorLeavesNothing
  <2>3. AcceptorInv'
    BY <2>2 DEF AcceptorInv, AcceptorTypeOK, AcceptorLeavesNothing
  <2> QED BY <2>1, <2>3
<1>8. CASE Helper
  <2> USE <1>8 DEF Helper, workerVars
  <2>1. WorkerTypeOK'
    BY DEF WorkerTypeOK
  <2>2. CASE helper' = "closed" /\ ListenerClosed
    <3>1. listening' \in BOOLEAN /\ ~listening' /\ backlog' = 0
      BY <2>2, Zenon DEF ListenerClosed
    <3> QED BY <2>1, <2>2, <3>1
            DEF AcceptorInv, AcceptorTypeOK, AcceptorLeavesNothing
  <2>3. CASE helper' = "left" /\ UNCHANGED <<listening, backlog>>
    BY <2>1, <2>3 DEF AcceptorInv, AcceptorTypeOK, AcceptorLeavesNothing
  <2> QED BY <2>2, <2>3
<1> QED BY <1>1, <1>2, <1>3, <1>4, <1>5, <1>6, <1>7, <1>8 DEF AcceptorStep

\* Every step of the stop announcer.
LEMMA StopNext ==
  ASSUME WorkerTypeOK, StopInv, StopStep
  PROVE  WorkerTypeOK' /\ StopInv'
<1> USE DEF WorkerTypeOK, StopInv, StopTypeOK, StopLeavesNothing, GoTo,
            workerVars
<1>1. ASSUME NEW t \in StopTrackers, StopAnnounceReturns(t)
      PROVE  WorkerTypeOK' /\ StopInv'
  BY <1>1 DEF StopAnnounceReturns
<1>2. ASSUME NEW t \in StopTrackers, Collect(t)
      PROVE  WorkerTypeOK' /\ StopInv'
  BY <1>2 DEF Collect
<1>3. CASE CollectedAll
  BY <1>3 DEF CollectedAll, AllCollected, stopVars
<1>4. CASE StopResult
  BY <1>4 DEF StopResult, RunEnds
<1>5. CASE Deadline
  BY <1>5 DEF Deadline
<1>6. CASE StopHelper
  BY <1>6 DEF StopHelper
<1> QED BY <1>1, <1>2, <1>3, <1>4, <1>5, <1>6 DEF StopStep

\* FileStorage.Open succeeds for the next file.
LEMMA OpensFileStep ==
  ASSUME WorkerTypeOK, AllocatorInv, pc = "open", index <= Len(files),
         ~files[index].padding, OpensFile(files[index]),
         UNCHANGED <<files, found, index, received>>
  PROVE  WorkerTypeOK' /\ AllocatorInv'
<1> USE DEF OpensFile, GoTo, SizeSet
<1>1. /\ files \in FileLists /\ index \in 1 .. Len(files) /\ ~failed
      /\ index \in Nat /\ Len(files) \in Nat /\ index \in Real
      /\ files[index].path \in Paths /\ files[index].length \in Lengths
      /\ files[index].length \in Nat /\ opened = 1 .. index - 1
      /\ disk \in [Paths -> Lengths \cup {0, NoFile}]
  BY FileListsTyped DEF AllocatorInv, AllocatorTypeOK, AtIndex, Real, Passed
<1>2. \A i \in Real : /\ i \in 1 .. Len(files) /\ files[i].path \in Paths
                      /\ files[i].path = files[index].path => i = index
  BY <1>1, FileListsTyped DEF Real
<1>3. Passed = index - 1 /\ Passed' = index
  BY DEF Passed
<1>4. WorkerTypeOK'
  BY DEF WorkerTypeOK
<1>5. AllocatorTypeOK' /\ (found \in [Paths -> Lengths \cup {0, NoFile}])'
  <2>1. disk' \in [Paths -> Lengths \cup {0, NoFile}]
    BY <1>1
  <2>2. opened' \subseteq DOMAIN files'
    BY <1>1, FileListsTyped
  <2>3. allocated' \in Nat
    BY <1>1 DEF AllocatorInv, AllocatorTypeOK
  <2>4. hasExisting' \in BOOLEAN /\ hasMissing' \in BOOLEAN
    BY Zenon
  <2> QED BY <2>1, <2>2, <2>3, <2>4 DEF AllocatorInv, AllocatorTypeOK
<1>6. AtIndex'
  BY <1>1, <1>3 DEF AllocatorInv, AtIndex
<1>7. DiskAsTold'
  <2>1. ASSUME NEW i \in Real
        PROVE  disk'[files[i].path] = IF i <= index THEN files[i].length
                                      ELSE found[files[i].path]
    <3>1. disk[files[i].path] = IF i <= index - 1 THEN files[i].length
                                ELSE found[files[i].path]
      BY <1>1, <1>3 DEF AllocatorInv, DiskAsTold
    <3>2. CASE i = index
      BY <3>2, <1>1
    <3>3. CASE i # index
      BY <3>1, <3>3, <1>1, <1>2
    <3> QED BY <3>2, <3>3
  <2>2. disk[files[index].path] = found[files[index].path]
    BY <1>1, <1>3 DEF AllocatorInv, DiskAsTold
  <2>3. ASSUME NEW i \in Real
        PROVE  i <= index <=> (i <= index - 1 \/ i = index)
    <3>1. i \in Int /\ index \in Int
      BY <1>1, <1>2
    <3> QED BY <3>1
  <2>4. /\ hasExisting' <=>
             \E i \in Real : i <= index /\ found[files[i].path] # NoFile
        /\ hasMissing' <=>
             \E i \in Real : i <= index /\ found[files[i].path] = NoFile
    BY <1>1, <1>3, <2>2, <2>3 DEF AllocatorInv, DiskAsTold
  <2>5. allocated' = LengthTo(files)[index]
    BY <1>1, <1>3, LengthToAdds DEF AllocatorInv, DiskAsTold
  <2> QED BY <1>1, <1>3, <2>1, <2>4, <2>5 DEF DiskAsTold, Real
<1>8. OthersUntouched'
  BY <1>1 DEF AllocatorInv, OthersUntouched, Real
<1> QED BY <1>4, <1>5, <1>6, <1>7, <1>8 DEF AllocatorInv

\* It fails.
LEMMA FailsToOpenStep ==
  ASSUME WorkerTypeOK, AllocatorInv, pc = "open", index <= Len(files),
         ~files[index].padding, FailsToOpen(files[index]),
         UNCHANGED <<files, found, index, received>>
  PROVE  WorkerTypeOK' /\ AllocatorInv'
<1> USE DEF FailsToOpen, GoTo
<1>1. /\ files \in FileLists /\ index \in Real
      /\ files[index].path \in Paths /\ files[index].length \in Lengths
      /\ disk \in [Paths -> Lengths \cup {0, NoFile}] /\ ~received
  BY FileListsTyped DEF AllocatorInv, AllocatorTypeOK, AtIndex, Real
<1>2. WorkerTypeOK'
  BY DEF WorkerTypeOK
<1>3. AllocatorTypeOK'
  <2>1. disk' \in [Paths -> Lengths \cup {0, NoFile}]
    BY <1>1
  <2> QED BY <2>1 DEF AllocatorInv, AllocatorTypeOK
<1>4. AtIndex' /\ DiskAsTold'
  BY <1>1 DEF AtIndex, DiskAsTold
<1>5. OthersUntouched'
  BY <1>1 DEF AllocatorInv, OthersUntouched, Real
<1> QED BY <1>2, <1>3, <1>4, <1>5 DEF AllocatorInv

\* A padding file is not opened.
LEMMA OpenPaddingStep ==
  ASSUME WorkerTypeOK, AllocatorInv, pc = "open", index <= Len(files),
         files[index].padding, OpenPadding(files[index]),
         UNCHANGED <<files, found, index, received>>
  PROVE  WorkerTypeOK' /\ AllocatorInv'
<1> USE DEF OpenPadding, GoTo
<1>1. /\ files \in FileLists /\ index \in 1 .. Len(files) /\ ~failed
      /\ index \in Nat /\ Len(files) \in Nat /\ index \notin Real
      /\ files[index].length \in Nat /\ opened = 1 .. index - 1
  BY FileListsTyped DEF AllocatorInv, AllocatorTypeOK, AtIndex, Real, Passed
<1>2. Passed = index - 1 /\ Passed' = index
  BY DEF Passed
<1>3. \A i \in Real : i <= index <=> i <= index - 1
  BY <1>1, FileListsTyped DEF Real
<1>4. WorkerTypeOK'
  BY DEF WorkerTypeOK
<1>5. AllocatorTypeOK'
  <2>1. opened' \subseteq DOMAIN files'
    BY <1>1, FileListsTyped
  <2>2. allocated' \in Nat
    BY <1>1 DEF AllocatorInv, AllocatorTypeOK
  <2> QED BY <2>1, <2>2 DEF AllocatorInv, AllocatorTypeOK
<1>6. AtIndex'
  BY <1>1, <1>2 DEF AllocatorInv, AtIndex
<1>7. DiskAsTold'
  <2>1. allocated' = LengthTo(files)[index]
    BY <1>1, <1>2, LengthToAdds DEF AllocatorInv, DiskAsTold
  <2> QED BY <1>1, <1>2, <1>3, <2>1 DEF AllocatorInv, DiskAsTold, Real
<1>8. OthersUntouched'
  BY DEF AllocatorInv, OthersUntouched, Real
<1> QED BY <1>4, <1>5, <1>6, <1>7, <1>8 DEF AllocatorInv

\* Every step of the allocator.
LEMMA AllocatorNext ==
  ASSUME WorkerTypeOK, AllocatorInv, AllocatorStep
  PROVE  WorkerTypeOK' /\ AllocatorInv'
<1>1. CASE OpenFile
  BY <1>1, OpensFileStep, FailsToOpenStep, OpenPaddingStep DEF OpenFile
<1>2. /\ files \in FileLists /\ index \in 1 .. Len(files) + 1
      /\ Len(files) \in Nat
  BY FileListsTyped DEF AllocatorInv, AllocatorTypeOK
<1>3. CASE SendProgress
  <2> USE <1>3 DEF SendProgress, GoTo
  <2>1. Passed' = Passed
    BY <1>2 DEF Passed
  <2>2. WorkerTypeOK'
    BY DEF WorkerTypeOK
  <2>3. AllocatorTypeOK' /\ AtIndex'
    BY <1>2, <2>1 DEF AllocatorInv, AllocatorTypeOK, AtIndex
  <2>4. DiskAsTold' /\ OthersUntouched'
    BY <2>1 DEF AllocatorInv, DiskAsTold, OthersUntouched, Real
  <2> QED BY <2>2, <2>3, <2>4 DEF AllocatorInv
<1>4. CASE AllOpened
  <2> USE <1>4 DEF AllOpened, GoTo, allocatorVars
  <2>1. Passed' = Passed
    BY DEF Passed
  <2>2. WorkerTypeOK'
    BY DEF WorkerTypeOK
  <2>3. AllocatorTypeOK' /\ AtIndex'
    BY <1>2, <2>1 DEF AllocatorInv, AllocatorTypeOK, AtIndex
  <2>4. DiskAsTold' /\ OthersUntouched'
    BY <2>1 DEF AllocatorInv, DiskAsTold, OthersUntouched, Real
  <2> QED BY <2>2, <2>3, <2>4 DEF AllocatorInv
<1>5. CASE CloseFiles
  <2> USE <1>5 DEF CloseFiles, OpenedClosed, GoTo
  <2>1. Passed' = Passed
    BY DEF Passed
  <2>2. WorkerTypeOK'
    BY DEF WorkerTypeOK
  <2>3. AllocatorTypeOK' /\ AtIndex'
    BY <1>2, <2>1 DEF AllocatorInv, AllocatorTypeOK, AtIndex
  <2>4. DiskAsTold' /\ OthersUntouched'
    BY <2>1 DEF AllocatorInv, DiskAsTold, OthersUntouched, Real
  <2> QED BY <2>2, <2>3, <2>4 DEF AllocatorInv
<1>6. CASE AllocatorResult
  <2> USE <1>6 DEF AllocatorResult, RunEnds
  <2>1. Passed' = Passed
    BY DEF Passed
  <2>2. WorkerTypeOK'
    BY DEF WorkerTypeOK
  <2>3. AllocatorTypeOK' /\ AtIndex'
    BY <1>2, <2>1 DEF AllocatorInv, AllocatorTypeOK, AtIndex
  <2>4. DiskAsTold' /\ OthersUntouched'
    BY <2>1 DEF AllocatorInv, DiskAsTold, OthersUntouched, Real
  <2> QED BY <2>2, <2>3, <2>4 DEF AllocatorInv
<1> QED BY <1>1, <1>3, <1>4, <1>5, <1>6 DEF AllocatorStep
-----------------------------------------------------------------------------
\* The owner changes nothing of its worker.
LEMMA NextIInv ==
  ASSUME IInv, [Next]_vars
  PROVE  IInv'
<1>1. CASE AcceptorRuns(AcceptorStep)
  BY <1>1, AcceptorNext DEF IInv, AcceptorRuns
<1>2. CASE StopRuns(StopStep)
  BY <1>2, StopNext DEF IInv, StopRuns
<1>3. CASE AllocatorRuns(AllocatorStep)
  BY <1>3, AllocatorNext DEF IInv, AllocatorRuns
<1>4. CASE /\ UNCHANGED <<pc, acceptorVars, stopVars, allocatorVars, worker>>
           /\ WorkerTypeOK'
  <2> USE <1>4 DEF acceptorVars, stopVars, allocatorVars
  <2>1. AcceptorInv => AcceptorInv'
    BY DEF AcceptorInv, AcceptorTypeOK, AcceptorLeavesNothing
  <2>2. StopInv => StopInv'
    BY DEF StopInv, StopTypeOK, StopLeavesNothing
  <2>3. AllocatorInv => AllocatorInv'
    BY DEF AllocatorInv, AllocatorTypeOK, AtIndex, DiskAsTold,
       OthersUntouched, Passed, Real
  <2> QED BY <2>1, <2>2, <2>3 DEF IInv
<1>5. CASE OwnerStep
  BY <1>4, <1>5
  DEF OwnerStep, Close, CloseReturns, IInv, WorkerTypeOK
<1>6. CASE Idle \/ UNCHANGED vars
  BY <1>4, <1>6 DEF Idle, vars, workerVars, IInv, WorkerTypeOK
<1> QED BY <1>1, <1>2, <1>3, <1>5, <1>6 DEF Next

LEMMA Invariance == Spec => []IInv
BY InitIInv, NextIInv, PTL DEF Spec
-----------------------------------------------------------------------------
\* No worker leaves anything behind that it says it does not: every connection
\* is handed over or closed, every announce is over when Run ends, and the
\* files are as the allocator reports them (acceptor.go:34-65, stop.go:47-66,
\* allocator.go:40-96).
THEOREM NothingIsLeftBehind == Spec => []NothingLeftBehind
<1>1. IInv => NothingLeftBehind
  <2> SUFFICES ASSUME IInv PROVE NothingLeftBehind
    OBVIOUS
  <2>1. worker = "acceptor" => AcceptorTypeOK /\ AcceptorLeavesNothing
    BY DEF IInv, AcceptorInv
  <2>2. worker = "stop" => StopTypeOK /\ StopLeavesNothing
    BY DEF IInv, StopInv
  <2>3. ASSUME worker = "allocator"
        PROVE  AllocatorTypeOK /\ AllocatedAsReported
    <3>1. AllocatorInv /\ AllocatorTypeOK
      BY <2>3 DEF IInv, AllocatorInv
    <3>2. DOMAIN files = 1 .. Len(files) /\ Len(files) \in Nat
      BY <3>1, FileListsTyped DEF AllocatorTypeOK
    <3>3. ASSUME received, ~failed
          PROVE  Passed = Len(files) /\ opened = DOMAIN files
      BY <3>1, <3>2, <3>3 DEF AllocatorInv, AtIndex, Passed
    <3> QED BY <3>1, <3>2, <3>3
            DEF AllocatorInv, AtIndex, DiskAsTold, OthersUntouched, Real,
                AllocatedAsReported
  <2> QED BY <2>1, <2>2, <2>3 DEF IInv, NothingLeftBehind
<1> QED BY <1>1, Invariance, PTL
=============================================================================
