------------------------------- MODULE Inputs -------------------------------
(***************************************************************************)
(* What the program computes from its inputs: bencoded bytes (Bencode),    *)
(* what a torrent file says once it is decoded (Metainfo), and a list of   *)
(* blocked networks with the addresses that are checked against it         *)
(* (Resolver).  A behaviour is about one of the three.                     *)
(***************************************************************************)
EXTENDS Bencode, Metainfo, Resolver

VARIABLE about   \* "bytes", "file" or "list"

\* The torrent files that are enumerated are some of those that decode.
ASSUME EnumeratedFilesDecode ==
    /\ \A it \in OneFile : OnlyInfo(it) \in TorrentFiles
    /\ \A it \in TwoFiles : OnlyInfo(it) \in TorrentFiles
    /\ \A it \in Named : OnlyInfo(it) \in TorrentFiles
    /\ OnlyInfo(Absent) \in TorrentFiles
    /\ Announced \subseteq TorrentFiles

inputVars == <<bytesVars, metaVars, vars, about>>

NoBytes == input = <<>> /\ origin = None /\ edits = 0
NoFile == file = NoTorrentFile /\ metaInfo = NoInfo
NoList == Init /\ enabled = FALSE

InputInit ==
    \/ about = "bytes" /\ BytesInit /\ NoFile /\ NoList
    \/ about = "file" /\ NoBytes /\ MetaInit /\ NoList
    \/ about = "list" /\ NoBytes /\ NoFile /\ Init

InputNext ==
    \/ about = "bytes" /\ BytesNext /\ UNCHANGED <<metaVars, vars, about>>
    \/ about = "file" /\ Load /\ UNCHANGED <<bytesVars, vars, about>>
    \/ about = "list" /\ Next /\ UNCHANGED <<bytesVars, metaVars, about>>

InputSpec == InputInit /\ [][InputNext]_inputVars
=============================================================================
