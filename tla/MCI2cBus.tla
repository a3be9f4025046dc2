------------------------------ MODULE MCI2cBus -------------------------------
(* The transfers of the TMP117 driver: a command, and a register that is    *)
(* read after its number was written.                                       *)
EXTENDS I2cBus

Command == <<[rd |-> FALSE, buf |-> <<30>>]>>
ReadRegister == <<[rd |-> FALSE, buf |-> <<1>>], [rd |-> TRUE, buf |-> <<0, 0>>]>>

MCTransfers == {Command, ReadRegister}
MCRegisters == {<<0, 165>>, <<255, 0>>}
=============================================================================
