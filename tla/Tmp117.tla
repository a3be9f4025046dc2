------------------------------- MODULE Tmp117 --------------------------------
(***************************************************************************)
(* The arithmetic of tmp117_get_temp (drv_tmp117.c): from the sensor's     *)
(* register, in 1/128 of a degree, to hundredths of a degree, scaled by    *)
(* 1 + k/100000 and moved by b.  Registers are words of 16 bits.           *)
(***************************************************************************)
EXTENDS Integers

Word == 0 .. 65535
INT32_MAX == 2147483647

\* The conversions to int16_t and to a register.
Int16(x) == ((x + 32768) % 65536) - 32768
UInt16(x) == x % 65536

Magnitude(x) == IF x < 0 THEN -x ELSE x

\* C's division by a positive number, towards zero.
Quotient(x, n) == IF x < 0 THEN -((-x) \div n) ELSE x \div n

\* (int16_t)temp *100>>7
Hundredths(temp) == (Int16(temp) * 100) \div 128

\* Whether the product that follows fits an int32_t; -2^31, which does, is left out.
ProductFits(t, k) == Magnitude(t) <= INT32_MAX \div (100000 + k)

\* The result as an int, before its conversion to int16_t.
Scaled(t, k, b) == Quotient(t * (100000 + k), 100000) + b

\* The range in which the sensor measures, -55 to 150 degrees.
InSensorRange(temp) == -7040 <= Int16(temp) /\ Int16(temp) <= 19200

\* A temperature that a register can hold, also if it is 2 off.
Representable(t) == -32766 <= t /\ t <= 32765

\* The calibrated temperature raw*100/128 * (1 + k/100000) + b, its terms rounded down.
Reference(temp, k, b) == (25 * Int16(temp)) \div 32 + (Int16(temp) * k) \div 128000 + b
=============================================================================
