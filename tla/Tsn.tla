-------------------------------- MODULE Tsn --------------------------------
(***************************************************************************)
(* Transmission sequence numbers (src/src/common/number.ts and the last    *)
(* lines of src/src/sctp/sctp.ts): serial number arithmetic on 2 * Half    *)
(* values, 2^32 in the code.                                               *)
(***************************************************************************)
EXTENDS Integers

CONSTANT Half          \* halfMod, 2^31 in the code

ASSUME HalfAssumption == Half \in Nat \ {0}

Modulo == 2 * Half     \* SCTP_TSN_MODULO

TSN == 0 .. Modulo - 1

\* The remainder of JavaScript has the sign of the dividend.
JsRem(a) == IF a >= 0 THEN a % Modulo ELSE -((-a) % Modulo)

\* Return a > b
uint32Gt(a, b) ==
    \/ a < b /\ b - a > Half
    \/ a > b /\ a - b < Half

uint32Gte(a, b) == a = b \/ uint32Gt(a, b)

\* -1 for 0: the remainder of a negative number is negative.
tsnMinusOne(a) == JsRem(a - 1)

\* Variant: no wrap-around.
tsnPlusOneUnbounded(a) == a + 1

tsnPlusOne(a) == JsRem(a + 1)

\* Variant: counted from the TSN after the cumulative one.
OffsetFromNext(tsn, cumulative) == JsRem(tsn - cumulative - 1)

\* tsn counted from a cumulative TSN, as sendSack does it.
Offset(tsn, cumulative) == JsRem(tsn - cumulative)
=============================================================================
