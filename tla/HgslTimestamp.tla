--------------------------- MODULE HgslTimestamp ---------------------------
(***************************************************************************)
(* The 32-bit context timestamps of the driver: wrap-around comparison     *)
(* (hgsl.h, hgsl_ts32_ge) and the rule that picks the next timestamp of a  *)
(* context (hgsl.c, hgsl_db_next_timestamp).  The word is scaled down: a   *)
(* timestamp is a number below 2 * Half, where the code has Half = 2^31.   *)
(***************************************************************************)
EXTENDS Integers

CONSTANT Half      \* TIMESTAMP_WINDOW, half of the range of the counter

ASSUME HalfAssumption == Half \in Nat /\ Half >= 2

TsMod == 2 * Half
Ts == 0 .. (TsMod - 1)
UINT_MAX == TsMod - 1

\* Unsigned subtraction: a - b wraps when it is negative.
U32Sub(a, b) == IF a >= b THEN a - b ELSE a - b + TsMod

\* a is at or after b: the wrapped distance is inside the window.
hgsl_ts32_ge(a, b) == U32Sub(a, b) < Half

(***************************************************************************)
(* The three ways a context gets its timestamps, from the flags of         *)
(* hgsl_ioctl_ctxt_create: without USER_GENERATED_TS the caller's value is *)
(* taken as it is; with CLIENT_GENERATED_TS it must be after the last one; *)
(* with USER_GENERATED_TS alone the driver assigns the next one.           *)
(***************************************************************************)
TsModes == {"verbatim", "client", "driver"}

\* The value the driver assigns after `queued'.  0 and ~0 are special values
\* for the callers and are not assigned; ~0 rolls over to 1.
DriverTs(queued) ==
    LET ts == IF queued = UINT_MAX THEN 0 ELSE queued + 1
    IN  IF ts = UINT_MAX THEN 1 ELSE ts

\* hgsl_db_next_timestamp: whether it returns 0, and the timestamp it leaves.
hgsl_db_next_timestamp_ok(mode, queued, ts) ==
    mode = "client" => ~hgsl_ts32_ge(queued, ts)
hgsl_db_next_timestamp(mode, queued, ts) ==
    IF mode = "driver" THEN DriverTs(queued) ELSE ts

=============================================================================
