------------------------------ MODULE Strings ------------------------------
(***************************************************************************)
(* OcaString on the wire (ocp1_rd_string and ocp1_wr_string of             *)
(* aes70_ocp1.c) and the text properties that are set and read through it: *)
(* labels, device name and role, string settings.                          *)
(*                                                                         *)
(* The wire carries a count of codepoints and their UTF-8 bytes.  A byte   *)
(* is one of four kinds: a character of one byte, the lead of one of two   *)
(* or of three bytes, or a byte that continues a character (a lead of four *)
(* bytes brings nothing new).  A text is kept in a buffer of Cap bytes,    *)
(* the last of them for the terminator.                                    *)
(***************************************************************************)
EXTENDS Naturals, Sequences, FiniteSetsExt, SequencesExt

CONSTANTS
  Cap,        \* size of the buffer a text is read into
  MaxChars,   \* bound on the characters of a text
  MaxCount    \* bound on the count that comes before it

Byte      == {"one", "two", "three", "more"}
Character == {<<"one">>, <<"two", "more">>, <<"three", "more", "more">>}
Texts     == UNION {[1 .. n -> Character] : n \in 0 .. MaxChars}
Bytes(t)  == FlattenSeq(t)

VARIABLES
  stored,    \* the text kept: bytes
  request,   \* the text just sent: its characters, count and what follows it
  result,    \* how it was read
  answer     \* the wire form just answered

vars == <<stored, request, result, answer>>

(* A request of nothing, which is read as nothing.                         *)
NoRequest == [text |-> <<>>, count |-> 0, more |-> FALSE]
NoAnswer  == [count |-> 0, bytes |-> <<>>]

-----------------------------------------------------------------------------
(* ocp1_rd_string.                                                         *)

(* The width a lead byte announces.  A continuation byte passes for the    *)
(* lead of two bytes.                                                      *)
Width == [one |-> 1, two |-> 2, three |-> 3, more |-> 2]

(* Bytes taken by the first count characters of data; past its end the     *)
(* walk stays where it was.                                                *)
Walk(data, count) ==
  LET Taken[c \in 0 .. count] ==
        IF c = 0 THEN 0
        ELSE LET b == Taken[c - 1] IN
             IF b >= Len(data) THEN Len(data) + 1 ELSE b + Width[data[b + 1]]
  IN  Taken[count]

Shorter(a, b) == IF a < b THEN a ELSE b

(* What fits the buffer.                                                   *)
Cut(s) == SubSeq(s, 1, Shorter(Len(s), Cap - 1))

(* Bug: a character cut short at the end of the data is let through.       *)
ReadBeyondBug(data, count) ==
  LET n == Walk(data, count) IN
    IF n > Len(data) + 1 THEN [err |-> TRUE, text |-> <<>>, consumed |-> 0]
    ELSE [err |-> FALSE, text |-> Cut(SubSeq(data, 1, Shorter(n, Len(data)))), consumed |-> n]

ReadString(data, count) ==
  LET n == Walk(data, count) IN
    IF n > Len(data) THEN [err |-> TRUE, text |-> <<>>, consumed |-> 0]
    ELSE [err |-> FALSE, text |-> Cut(SubSeq(data, 1, n)), consumed |-> n]

-----------------------------------------------------------------------------
(* ocp1_wr_string.                                                         *)

(* The bytes that do not continue a character.                             *)
Codepoints(s) == Quantify(DOMAIN s, LAMBDA i : s[i] # "more")

WriteString(s) == [count |-> Codepoints(s), bytes |-> s]

-----------------------------------------------------------------------------
NothingRead == ReadString(<<>>, 0)

Init ==
  /\ stored = <<>>
  /\ request = NoRequest
  /\ result = NothingRead
  /\ answer = NoAnswer

(* The field another one follows, so that reading on would find bytes.     *)
Sent(r) == Bytes(r.text) \o (IF r.more THEN <<"one", "one">> ELSE <<>>)

(* SetLabel, SetDeviceName, SetDeviceRole and SetSetting: BadFormat leaves *)
(* the text alone.                                                         *)
SetText(r) ==
  /\ request' = r
  /\ result' = ReadString(Sent(r), r.count)
  /\ stored' = IF result'.err THEN stored ELSE result'.text
  /\ answer' = NoAnswer

(* aes70_string_set: strlcpy into the request.                             *)
ApplicationSetText(t) ==
  /\ stored' = Cut(Bytes(t))
  /\ answer' = NoAnswer
  /\ request' = NoRequest /\ result' = NothingRead

GetText ==
  /\ answer' = WriteString(stored)
  /\ request' = NoRequest /\ result' = NothingRead
  /\ UNCHANGED stored

Next ==
  \/ \E t \in Texts, n \in 0 .. MaxCount, b \in BOOLEAN :
       SetText([text |-> t, count |-> n, more |-> b])
  \/ \E t \in Texts : ApplicationSetText(t)
  \/ GetText

Spec == Init /\ [][Next]_vars

-----------------------------------------------------------------------------
(* Properties.                                                             *)

(* Type invariant: the text and its terminator fit the buffer.             *)
TypeOK ==
  /\ stored \in Seq(Byte) /\ Len(stored) < Cap
  /\ request.text \in Texts /\ request.count \in 0 .. MaxCount /\ request.more \in BOOLEAN
  /\ result.err \in BOOLEAN /\ result.consumed \in Nat
  /\ answer.count \in Nat /\ answer.bytes \in Seq(Byte)

(* A text whose count is that of its characters is read whole, whatever    *)
(* follows it: the next field begins where it ends, though less is kept.   *)
WellFormedIsRead ==
  request.count = Len(request.text) =>
    /\ ~result.err
    /\ result.consumed = Len(Bytes(request.text))
    /\ result.text = Cut(Bytes(request.text))

(* A count that does not fit the data is refused or stays inside it.       *)
StaysInside == result.consumed <= Len(Sent(request))

(* Bytes that are whole characters: the reference the codec is held to.    *)
Whole(s) == \E t \in Texts : Bytes(t) = s

(* Who reads an answer gets the text that is kept, and finds the next      *)
(* field behind it, if the text ends with a whole character.               *)
Decodes == LET r == ReadString(answer.bytes \o <<"one", "one">>, answer.count) IN
             ~r.err /\ r.text = answer.bytes /\ r.consumed = Len(answer.bytes)

WholeTextsDecode == Whole(answer.bytes) => Decodes
=============================================================================
