---------------------------- MODULE MCModbusSlave ----------------------------
(* Instances of ModbusSlave small enough to be explored exhaustively.        *)
EXTENDS ModbusSlave

F(to, len, crc) == [to |-> to, len |-> len, crc |-> crc]

\* A request for this slave, one for another slave, and one that overflows the buffer.
AnyFrames == {F("us", 4, TRUE), F("other", 4, TRUE), F("us", 6, TRUE)}

\* Sound requests for everyone, and the damaged, short and overlong frames.
AllFrames == {F("us", 4, TRUE), F("us", 5, TRUE), F("other", 4, TRUE),
              F("broadcast", 4, TRUE), F("us", 4, FALSE), F("us", 3, TRUE), F("us", 6, TRUE)}

\* What a master that keeps to the protocol sends.
ConformingFrames == {F("us", 4, TRUE), F("other", 4, TRUE), F("broadcast", 4, TRUE)}

\* One request for this slave at a time, each one answered before the next.
OwnFrames == {F("us", 4, TRUE)}

=============================================================================
