----------------------------- MODULE ProtoCodec -----------------------------
(***************************************************************************)
(* Two messages of a generated class (module ProtoMessages) and what the   *)
(* programs do with them: accessors, Clear, MergeFrom, CopyFrom and Swap;  *)
(* the frame in which a codec sends one (ContactSerializeTransfer,         *)
(* ProtocolMessageCodec), and the file in which Contacts keeps it.         *)
(*                                                                         *)
(* The parts of a frame are units: the length, the length of the name, the *)
(* name and a blank, then the bytes of the data.                           *)
(***************************************************************************)
EXTENDS ProtoMessages

CONSTANTS
  Classes,   \* the classes that the run is about
  ExtraTags, \* tags of fields as a later version of the program writes them
  MaxBytes   \* bound: bytes of the two messages together, between the calls

ASSUME CodecAssumption == /\ Classes \subseteq DOMAIN Class
                          /\ ExtraTags \subseteq 1 .. 127 /\ MaxBytes \in Nat

\* A number, or a string that may be a packed list of numbers.
Extras == {<<>>} \union {IF tag % 8 = 2 THEN <<tag, 1, 3>> ELSE <<tag, 9>> : tag \in ExtraTags}

VARIABLES
  class,   \* the class
  a, b     \* two messages of it

vars == <<class, a, b>>

Row == Class[class]

Init == /\ class \in Classes
        /\ a = Fresh(Row) /\ b = Fresh(Row)

Fits(x, y) == ByteSize(Row, x) + ByteSize(Row, y) <= MaxBytes

Call == /\ a' \in Calls(class, a)
        /\ Fits(a', b)
        /\ UNCHANGED <<class, b>>

ClearA == /\ a' = Cleared(Row, a)
          /\ UNCHANGED <<class, b>>

Merge == /\ a' = MergeFrom(Row, a, b)
         /\ Fits(a', b)
         /\ UNCHANGED <<class, b>>

Copy == /\ a' = CopyFrom(Row, a, b)
        /\ Fits(a', b)
        /\ UNCHANGED <<class, b>>

Swap == /\ a' = Swapped(Row, a, b)
        /\ b' = Swapped(Row, b, a)
        /\ UNCHANGED class

-----------------------------------------------------------------------------
(* The codec *)

PackLeng == 1
MsgTypeNameLen == 1

\* (mutant) the length of the name is not counted in the length
FillStringNoName(m) ==
  <<ByteSize(Row, m) + MsgTypeNameLen, 2, class, " ">>
    \o Serialized("toArray", Row, m)

\* fillEmptyString.
FillString(m) ==
  LET nameLen == 1 + 1
      dataSize == ByteSize(Row, m)
  IN  <<dataSize + nameLen + MsgTypeNameLen, nameLen, class, " ">>
        \o Serialized("toArray", Row, m)

\* parseDataPack of one frame, into a new message.
ParseDataPack(message) ==
  LET len == message[1]
      nameLen == message[2]
      data == SubSeq(message, PackLeng + MsgTypeNameLen + nameLen + 1, Len(message))
      dataLen == len - MsgTypeNameLen - nameLen
  IN  Parse(Class[message[3]], Fresh(Class[message[3]]), SubSeq(data, 1, dataLen))

\* The message arrives, with a field that this program does not know.
Receive == \E extra \in Extras :
  /\ b' = ParseDataPack([FillString(a) \o extra EXCEPT ![1] = @ + Len(extra)]).msg
  /\ Fits(a, b')
  /\ UNCHANGED <<class, a>>

\* The program that wrote the file did not come to the end of it
\* (serializeToOstream), or the file is complete; b is read from it.
Load == \E n \in 0 .. ByteSize(Row, a) :
  /\ b' = Parse(Row, b, SubSeq(Serialized("write", Row, a), 1, n)).msg
  /\ Fits(a, b')
  /\ UNCHANGED <<class, a>>

Next == Call \/ ClearA \/ Merge \/ Copy \/ Swap \/ Receive \/ Load

Spec == Init /\ [][Next]_vars

-----------------------------------------------------------------------------
(* Properties *)

\* A message that is sent arrives as it is, through the frame and through a
\* stream, and a message without a required field is refused, whatever calls,
\* merges and broken files made it (ContactSerializeTransfer.cpp:60, 139).
RoundTrip ==
  /\ ParseDataPack(FillString(a)) = [ok |-> IsInitialized(Row, a), msg |-> a]
  /\ Parse(Row, b, Serialized("write", Row, a)).msg = a

\* Parsing the bytes of two messages one after the other is merging the two.
MergeIsConcat ==
  MergePartial(Row, a, Serialized("write", Row, b))
    = [ok |-> TRUE, msg |-> MergeFrom(Row, a, b), rest |-> <<>>]

\* A file that was not written to its end is noticed when it is read.
CutIsNoticed == \A n \in 0 .. ByteSize(Row, a) - 1 :
  ~Parse(Row, b, SubSeq(Serialized("write", Row, a), 1, n)).ok
=============================================================================
