------------------------------ MODULE Metainfo ------------------------------
(***************************************************************************)
(* internal/metainfo: what New and NewInfo make of a decoded torrent file. *)
(* A name is a sequence of characters and MaxName stands for 255; what is  *)
(* done to text that is not UTF-8 is left out.  A hash has HashSize bytes  *)
(* (20).  A torrent file is a record of the fields of infoType and of the  *)
(* struct New decodes into.  Of the raw fields of that struct, Absent is   *)
(* one of no bytes and NoText one that does not decode into the type New   *)
(* asks for; a field of infoType that is absent is empty.                  *)
(***************************************************************************)
EXTENDS Integers, Sequences, FiniteSets, SequencesExt

CONSTANTS HashSize, MaxName,
          Half,                    \* 2^63
          Absent, NoText, NoTorrentFile,
          HttpURLs, UdpURLs, OtherURLs   \* URLs, by their scheme

ASSUME MetainfoAssumption ==
    /\ HashSize \in Nat \ {0}
    /\ MaxName \in Nat /\ MaxName > 2   \* a name that is cut is not ".."
    /\ Half \in Nat \ {0}
    /\ {Absent, NoText} \cap (HttpURLs \cup UdpURLs \cup OtherURLs) = {}

VARIABLES
    file,      \* the torrent file, NoTorrentFile when none is read
    metaInfo   \* what New returned, NoInfo before

metaVars == <<file, metaInfo>>

NoInfo == <<"none">>
Fails(why) == <<"error", why>>

Dot == <<".">>
DotDot == <<".", ".">>
HashName == <<"h">>

(* --- names ------------------------------------------------------------- *)

\* path.Ext: from the last dot of the last path element.
Ext(s) ==
    LET dots == {k \in DOMAIN s : s[k] = "."
                   /\ \A j \in k .. Len(s) : s[j] # "/"}
    IN  IF dots = {} THEN <<>>
        ELSE SubSeq(s, CHOOSE k \in dots : \A j \in dots : j <= k, Len(s))

TrimName(s) ==
    IF Len(s) <= MaxName THEN s
    ELSE IF Len(Ext(s)) > MaxName THEN SubSeq(s, 1, MaxName)
    ELSE SubSeq(s, 1, MaxName - Len(Ext(s))) \o Ext(s)

TruncateName(s) ==
    LET t == TrimName(s)
    IN  [k \in DOMAIN t |-> IF t[k] = "/" THEN "_" ELSE t[k]]

\* filepath.Join, which cleans; the parts hold no separators by now.
Step(path, p) ==
    IF p \in {<<>>, Dot} THEN path
    ELSE IF p = DotDot /\ path # <<>> /\ Last(path) # DotDot
         THEN Front(path)
    ELSE Append(path, p)
Join(parts) ==
    LET path[n \in 0 .. Len(parts)] ==
          IF n = 0 THEN <<>> ELSE Step(path[n - 1], parts[n])
    IN  path[Len(parts)]

(* --- NewInfo ----------------------------------------------------------- *)

\* overrideUTF8Keys
PathOf(f) == IF f.pathUTF8 # <<>> THEN f.pathUTF8 ELSE f.path
NameOf(it) ==
    LET name == IF it.nameUTF8 # <<>> THEN it.nameUTF8 ELSE it.name
    IN  IF name # <<>> THEN name ELSE HashName

\* The attribute of BEP 47, or BitComet's prefix, "__" here.
IsPadding(f) ==
    \/ f.attr
    \/ /\ PathOf(f) # <<>>
       /\ IsPrefix(<<"_", "_">>, Last(PathOf(f)))

\* int64: the sum of the lengths wraps around.
Int64(n) == ((n + Half) % (2 * Half)) - Half

Total(files) ==
    LET total[n \in 0 .. Len(files)] ==
          IF n = 0 THEN 0 ELSE Int64(total[n - 1] + files[n].length)
    IN  total[Len(files)]
LengthOf(it) == IF it.files # <<>> THEN Total(it.files) ELSE it.length

NumPieces(it) == it.pieces \div HashSize

\* Mutant: a last piece without a byte passes.
DeltaTooLarge(delta, it) == delta > it.pieceLength
DeltaInvalid(delta, it) == delta >= it.pieceLength

PieceDataInvalid(it) ==
    LET delta == Int64(it.pieceLength * NumPieces(it) - LengthOf(it))
    IN  DeltaInvalid(delta, it) \/ delta < 0

FilePath(it, f) ==
    Join(<<TruncateName(NameOf(it))>>
         \o [k \in DOMAIN PathOf(f) |-> TruncateName(PathOf(f)[k])])

FilesOf(it) ==
    IF it.files = <<>>
    THEN <<[path |-> <<TruncateName(NameOf(it))>>, length |-> LengthOf(it),
            padding |-> FALSE]>>
    ELSE [j \in DOMAIN it.files |->
            [path |-> FilePath(it, it.files[j]),
             length |-> it.files[j].length,
             padding |-> IsPadding(it.files[j])]]

\* Mutant: the paths are compared as they are in the torrent.
RepeatedInTorrent(it) ==
    \E i, j \in DOMAIN it.files :
        i # j /\ PathOf(it.files[i]) = PathOf(it.files[j])
Repeated(it) ==
    \E i, j \in DOMAIN it.files :
        i # j /\ FilePath(it, it.files[i]) = FilePath(it, it.files[j])

\* strings.TrimSpace(s) = ".."
TrimsToDotDot(s) ==
    \E i \in 1 .. Len(s) - 1 :
       /\ SubSeq(s, i, i + 1) = DotDot
       /\ \A k \in DOMAIN s \ {i, i + 1} : s[k] = " "

NewInfo(it) ==
    IF it.pieceLength = 0 THEN Fails("zero piece length")
    ELSE IF it.pieces % HashSize # 0 THEN Fails("piece data")
    ELSE IF NumPieces(it) = 0 THEN Fails("zero pieces")
    ELSE IF \E f \in ToSet(it.files) : \E p \in ToSet(PathOf(f)) :
              TrimsToDotDot(p)
         THEN Fails("invalid filename")
    ELSE IF PieceDataInvalid(it) THEN Fails("piece data")
    ELSE IF Repeated(it) THEN Fails("duplicate filename")
    ELSE <<"ok", [length |-> LengthOf(it), numPieces |-> NumPieces(it),
                  pieceLength |-> it.pieceLength, files |-> FilesOf(it)]>>

(* --- New --------------------------------------------------------------- *)

\* isTrackerSupported, isWebseedSupported
TrackerURLs == HttpURLs \cup UdpURLs
WebseedURLs == HttpURLs

\* Those of some URLs that are supported, in their order.
Keep(urls, supported) ==
    LET kept[n \in 0 .. Len(urls)] ==
          IF n = 0 THEN <<>>
          ELSE IF urls[n] \in supported THEN Append(kept[n - 1], urls[n])
          ELSE kept[n - 1]
    IN  kept[Len(urls)]

\* What is kept of every tier, unless that is nothing.
KeepTiers(tiers) ==
    LET kept[n \in 0 .. Len(tiers)] ==
          IF n = 0 THEN <<>>
          ELSE IF Keep(tiers[n], TrackerURLs) = <<>> THEN kept[n - 1]
          ELSE Append(kept[n - 1], Keep(tiers[n], TrackerURLs))
    IN  kept[Len(tiers)]

\* The announce URL is only looked at when there is no list: one that is empty
\* or does not decode leaves no tracker at all.
AnnounceList(t) ==
    IF t.announceList = Absent
    THEN IF t.announce \in TrackerURLs THEN <<<<t.announce>>>> ELSE <<>>
    ELSE IF t.announceList = NoText THEN <<>>
    ELSE KeepTiers(t.announceList)

\* A list is filtered; one that does not decode has no URLs.  A single URL is
\* kept if it failed to decode, and s is empty then: it never is.
URLList(t) == IF t.urlIsList THEN Keep(t.urls, WebseedURLs) ELSE <<>>

New(t) ==
    IF t.info = Absent THEN Fails("no info dict")
    ELSE LET info == NewInfo(t.info)
         IN  IF info[1] # "ok" THEN info
             ELSE <<"ok", [info |-> info[2], announceList |-> AnnounceList(t),
                           urlList |-> URLList(t)]>>

Load ==
    /\ file # NoTorrentFile /\ metaInfo = NoInfo
    /\ metaInfo' = New(file)
    /\ UNCHANGED file

(* --- torrent files ----------------------------------------------------- *)

File(length, path, pathUTF8, attr) ==
    [length |-> length, path |-> path, pathUTF8 |-> pathUTF8, attr |-> attr]
Info(pieceLength, pieces, name, nameUTF8, length, files) ==
    [pieceLength |-> pieceLength, pieces |-> pieces, name |-> name,
     nameUTF8 |-> nameUTF8, length |-> length, files |-> files]

\* Every size: pieces and their length, one file or two, with every length that
\* decodes: nothing refuses those below zero.
PieceLengths == 0 .. 3
PieceBytes == 0 .. 3 * HashSize
Int64s == -Half .. Half - 1
OneFile ==
    {Info(pl, p, <<"n">>, <<>>, n, <<>>) :
       pl \in PieceLengths, p \in PieceBytes, n \in Int64s}
TwoFiles ==
    {Info(pl, p, <<"n">>, <<>>, 0, <<File(a, <<<<"a">>>>, <<>>, FALSE),
                                     File(b, <<<<"b">>>>, <<>>, FALSE)>>) :
       pl \in PieceLengths, p \in PieceBytes, a \in Int64s, b \in Int64s}

\* Every pair of paths from a few parts, under three names.
Parts == {<<"a">>, <<"_">>, <<"/">>, Dot, DotDot, <<".", ".", " ">>,
          <<"_", "_", "a">>, <<"a", "a", "a", ".", "b">>,
          <<"a", "a", "a", "_", "a", ".", "b">>}
Named ==
    {Info(2, HashSize, name, utf8, 0,
          <<File(1, p, <<>>, FALSE), File(1, q, q8, TRUE)>>) :
       name \in {<<>>, <<"a", "/">>, DotDot}, utf8 \in {<<>>, <<"b">>},
       p \in BoundedSeq(Parts, 2), q \in BoundedSeq(Parts, 2),
       q8 \in {<<>>, <<<<"a">>>>}}

URLs == HttpURLs \cup UdpURLs \cup OtherURLs
TorrentFile(info, announce, announceList, urlIsList, urls) ==
    [info |-> info, announce |-> announce, announceList |-> announceList,
     urlIsList |-> urlIsList, urls |-> urls]
OnlyInfo(info) == TorrentFile(info, NoText, Absent, FALSE, <<>>)
Announced ==
    LET tiers == BoundedSeq(URLs, 2)
    IN  {TorrentFile(Info(1, HashSize, <<"n">>, <<>>, 1, <<>>), a, l, b, u) :
           a \in URLs \cup {NoText},
           l \in BoundedSeq(tiers, 2) \cup {Absent, NoText},
           b \in BOOLEAN, u \in {<<v, w>> : v, w \in URLs}}

\* The torrent files that are read.
MetaInit ==
    /\ \/ \E it \in OneFile : file = OnlyInfo(it)
       \/ \E it \in TwoFiles : file = OnlyInfo(it)
       \/ \E it \in Named : file = OnlyInfo(it)
       \/ file = OnlyInfo(Absent)
       \/ file \in Announced
    /\ metaInfo = NoInfo

\* Every torrent file that decodes.  The pieces are a string, which the decoder
\* limits to 2^27 - 1 bytes (decoder.go:421), and their length is a uint32:
\* their product is below 2^63.
Names == Seq(STRING)
Files == [length : Int64s, path : Seq(Names), pathUTF8 : Seq(Names),
          attr : BOOLEAN]
Infos == [pieceLength : Nat, pieces : Nat, name : Names, nameUTF8 : Names,
          length : Int64s, files : Seq(Files)]
TorrentFiles ==
    [info : {it \in Infos : it.pieceLength * NumPieces(it) < Half}
              \cup {Absent},
     announce : URLs \cup {NoText},
     announceList : Seq(Seq(URLs)) \cup {Absent, NoText},
     urlIsList : BOOLEAN, urls : Seq(URLs)]

MetaSpec ==
    /\ file \in TorrentFiles /\ metaInfo = NoInfo
    /\ [][Load]_metaVars
-----------------------------------------------------------------------------
Loaded == metaInfo[1] = "ok"

\* The lengths of the files as they are, without any wrapping.
SumOfLengths(files) ==
    LET sum[n \in 0 .. Len(files)] ==
          IF n = 0 THEN 0 ELSE sum[n - 1] + files[n].length
    IN  sum[Len(files)]

\* Of a torrent that is accepted: the pieces are as many as the content needs
\* and the files make up the content, up to the wrapping of their sum; no two
\* files share a path, after names were cut and cleaned; ".." begins the paths
\* of a torrent of that name and is in no other place of any path; trackers
\* come in tiers that are not empty, and are those of the list that can be
\* announced to, or the announce URL when there is no list; a web seed is one
\* that can be fetched from (info.go:86-233, metainfo.go:22-95).
AcceptedIsUsable ==
    Loaded =>
      LET info == metaInfo[2].info
          files == info.files
          tiers == metaInfo[2].announceList
      IN  /\ info.numPieces =
               (info.length + info.pieceLength - 1) \div info.pieceLength
          /\ info.length = Int64(SumOfLengths(files))
          /\ \A i, j \in DOMAIN files :
               files[i].path = files[j].path => i = j
          /\ \A i \in DOMAIN files : \A k \in DOMAIN files[i].path :
               files[i].path[k] = DotDot =>
                 k = 1 /\ NameOf(file.info) = DotDot
          /\ \A tier \in ToSet(tiers) : tier # <<>>
          /\ UNION {ToSet(tier) : tier \in ToSet(tiers)} =
               TrackerURLs \cap
                 (IF file.announceList = Absent THEN {file.announce}
                  ELSE IF file.announceList = NoText THEN {}
                  ELSE UNION {ToSet(tier) :
                              tier \in ToSet(file.announceList)})
          /\ ToSet(metaInfo[2].urlList) \subseteq WebseedURLs
=============================================================================
