---------------------------- MODULE MCRegisters ------------------------------
(* Requests around the calibration registers 4 and 5, the temperature 6 and *)
(* the end of the registers 11, complete and not.                           *)
EXTENDS Registers

Base == [fn |-> 3, len |-> 5, addr |-> 0, count |-> 1, waddr |-> 0, wcount |-> 0, bytes |-> 0,
         vals |-> <<>>, broadcast |-> FALSE]

ReadRequests ==
    {[Base EXCEPT !.addr = ac[1], !.count = ac[2]] :
        ac \in {<<0, 12>>, <<4, 3>>, <<11, 2>>, <<65535, 1>>, <<4, 0>>, <<0, 126>>}}
      \cup {[Base EXCEPT !.len = 4]}

WriteRequests ==
    {[Base EXCEPT !.fn = 6, !.waddr = a, !.vals = <<v>>, !.broadcast = b] :
        a \in {4, 5, 6, 12}, v \in {2000, 63000}, b \in BOOLEAN}
      \cup {[Base EXCEPT !.fn = 6, !.waddr = a, !.vals = <<2000>>, !.len = l] : a \in {11, 65535}, l \in {5, 6}}

\* Read/write of n words at a, m of which are in the frame.
ReadWrite(addr, count, a, n, m) ==
    [Base EXCEPT !.fn = 23, !.len = 10 + 2 * m, !.addr = addr, !.count = count, !.waddr = a,
                 !.wcount = n, !.bytes = 2 * n, !.vals = SubSeq(<<32767, 100>>, 1, m)]

ReadWriteRequests ==
    {ReadWrite(4, 3, 4, 2, 2), ReadWrite(0, 4, 5, 1, 1), ReadWrite(4, 3, 11, 2, 2), ReadWrite(11, 2, 5, 1, 1),
     ReadWrite(4, 0, 4, 2, 2), ReadWrite(4, 1, 4, 0, 0), ReadWrite(4, 1, 4, 2, 1), ReadWrite(4, 1, 4, 1, 2),
     [ReadWrite(4, 1, 4, 2, 2) EXCEPT !.bytes = 2], [ReadWrite(4, 1, 4, 2, 0) EXCEPT !.len = 9]}

MCRequests == ReadRequests \cup WriteRequests \cup ReadWriteRequests \cup {[Base EXCEPT !.fn = 16]}

\* 25.5 degrees, both ends of the range, and -256 degrees, which is what the sensor gives before
\* its first measurement.
MCRaws == {3264, 19200, 58496, 32768}
=============================================================================
