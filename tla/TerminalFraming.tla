--------------------------- MODULE TerminalFraming ---------------------------
(***************************************************************************)
(* The bytes a terminal connection carries, as QDataStream writes and      *)
(* reads them: bool is one byte, int four, qint64 eight, most significant  *)
(* byte first; QByteArray is its length as an int and its bytes.  A        *)
(* QStringList is abstracted to such an array.  Every number that is       *)
(* written here is below 256.                                              *)
(***************************************************************************)
EXTENDS Integers, SequencesExt

CharRequest == 1       \* TerminalPrivate::RequestType
MultiCharRequest == 2
LineRequest == 3

RequestTypes == {CharRequest, MultiCharRequest, LineRequest}

BoolBytes(b) == IF b THEN <<1>> ELSE <<0>>
IntBytes(n) == <<0, 0, 0, n>>
LongBytes(n) == <<0, 0, 0, 0>> \o IntBytes(n)
ArrayBytes(bytes) == IntBytes(Len(bytes)) \o bytes

\* The int that starts at the byte at position `i`.
IntAt(s, i) == ((s[i] * 256 + s[i + 1]) * 256 + s[i + 2]) * 256 + s[i + 3]

Drop(s, n) == SubSeq(s, n + 1, Len(s))

-----------------------------------------------------------------------------
(* Writers                                                                  *)

\* TerminalClient::connected: the mode and the arguments, once.
Handshake(mode, args) == IntBytes(mode) \o ArrayBytes(args)

\* Terminal::requestChar, requestChars and requestLine.  `num` is a qint64.
RequestFrame(type, num) ==
    BoolBytes(TRUE) \o IntBytes(type) \o (IF type = MultiCharRequest THEN LongBytes(num) ELSE <<>>)

\* Terminal::writeData, in the active mode.
DataFrame(bytes) == BoolBytes(FALSE) \o ArrayBytes(bytes)

-----------------------------------------------------------------------------
(* Readers.  They run in a transaction: an item that has not arrived whole  *)
(* is left in the buffer; its size is then 0.                               *)

WhenComplete(s, size) == IF Len(s) >= size THEN size ELSE 0

HandshakeSizeNoTransaction(s) == IF Len(s) < 8 THEN Len(s) ELSE 8 + IntAt(s, 5)

HandshakeSize(s) == IF Len(s) < 8 THEN 0 ELSE WhenComplete(s, 8 + IntAt(s, 5))

\* TerminalClient::socketReady: a bool, then a type, with an *int* when the
\* type is MultiCharRequest; or a bool, then a QByteArray.
IsRequest(s) == s[1] # 0
RequestType(s) == IntAt(s, 2)
RequestNum(s) == IF RequestType(s) = MultiCharRequest THEN IntAt(s, 6) ELSE 1

FrameSizeNoTransaction(s) ==
    IF Len(s) < 5 THEN Len(s)
    ELSE IF ~IsRequest(s) THEN (IF Len(s) < 5 + IntAt(s, 2) THEN Len(s) ELSE 5 + IntAt(s, 2))
    ELSE IF RequestType(s) = MultiCharRequest THEN 9 ELSE 5

FrameSize(s) ==
    IF Len(s) < 5 THEN 0
    ELSE IF ~IsRequest(s) THEN WhenComplete(s, 5 + IntAt(s, 2))
    ELSE IF RequestType(s) = MultiCharRequest THEN WhenComplete(s, 9)
    ELSE 5
=============================================================================
