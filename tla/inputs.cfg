\* Byte strings and damaged encodings; torrent files, as Metainfo enumerates
\* them; eight addresses with every list of up to two lines over all prefixes,
\* and shorter ones loaded over each other while a call is anywhere.
SPECIFICATION InputSpec
CONSTANTS
  WordMax = 20
  NarrowMax = 11
  MaxStr = 12
  Bytes = {"-", "0", "1", "2", ":", "d", "e", "i", "l"}
  MaxLen = 5
  MaxEdits = 1
  HashSize = 2
  Half = 16
  MaxName = 4
  Absent = Absent
  NoText = NoText
  NoTorrentFile = NoTorrentFile
  HttpURLs = {h1}
  UdpURLs = {u1}
  OtherURLs = {v1}
  Width = 3
  Invalid = Invalid
  TooLong = TooLong
  NotV4 = NotV4
  MaxLines = 2
  Name = Name
  NoPort = NoPort
  MaxRead = 4
INVARIANTS
  EncodingRoundTrips
  DecodersAgree
  AcceptedIsUsable
  BlockedIffCovered
CHECK_DEADLOCK FALSE
