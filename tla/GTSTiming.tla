------------------------------ MODULE GTSTiming ------------------------------
(***************************************************************************)
(* The durations of srwsn802154MAC.cc for data sent in a guaranteed time   *)
(* slot (GTS), in symbols.  SymbolsPerByte is 8 * symbol rate / bit rate,  *)
(* 2 on the channels of the 2.4 GHz band and 8 on the others.              *)
(***************************************************************************)
EXTENDS Integers

CONSTANTS
    SymbolsPerByte,
    SlotDuration,   \* txSfSlotDuration, also rxSfSlotDuration of a device
    Ack4Gts         \* whether data in a GTS asks for an ACK

ASSUME TimingAssumption ==
    /\ SymbolsPerByte \in {2, 8}
    /\ SlotDuration \in Nat /\ SlotDuration >= 60   \* aBaseSlotDuration
    /\ Ack4Gts \in BOOLEAN

aNumSuperframeSlots == 16
aMinCAPLength == 440
aTurnaroundTime == 12
macAckWaitDuration == 54
UINT_8 == 256

\* calDuration of a frame of some bytes, behind the header of the physical layer.
calDuration(bytes) == (6 + bytes) * SymbolsPerByte

AckBytes == 5
DataBytes(payload) == 11 + payload + 2

\* SIFS up to aMaxSIFSFrameSize bytes, LIFS above.
Ifs(payload) == IF DataBytes(payload) <= 18 THEN 12 ELSE 40

gtsTransDuration(payload) ==
    calDuration(DataBytes(payload))
      + (IF Ack4Gts THEN macAckWaitDuration ELSE aTurnaroundTime)
      + Ifs(payload)

\* A slip of gtsLength: the part of a slot that is left over is not rounded up.
LengthTruncated(payload) ==
    LET duration == gtsTransDuration(payload)
    IN  IF duration < SlotDuration THEN 1 ELSE (duration \div SlotDuration) % UINT_8

\* The slots a device asks for.
gtsLength(payload) ==
    LET duration == gtsTransDuration(payload)
        slots == (duration \div SlotDuration) % UINT_8
    IN  IF duration < SlotDuration THEN 1
        ELSE IF duration % SlotDuration > 0 THEN (slots + 1) % UINT_8
        ELSE slots

=============================================================================
