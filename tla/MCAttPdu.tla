------------------------------ MODULE MCAttPdu ------------------------------
(* Handles whose two bytes differ, and UUIDs that need 2, 4 and 16 bytes;  *)
(* the first are the types of services and of characteristics.             *)
EXTENDS AttPdu

MCHandle == {1, 515, 65535}

PrimaryService == UUID16(40, 0)
CharacteristicType == UUID16(40, 3)
MCType == {PrimaryService, CharacteristicType}

MCItemUuid == {UUID16(24, 13), UUID32(<<1, 2, 24, 13>>), [i \in 1..16 |-> 16 * i - 1]}

MCValue == {<<>>, <<1, 0>>, <<13, 24, 255>>}
=============================================================================
