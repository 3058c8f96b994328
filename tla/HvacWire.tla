-------------------------------- MODULE HvacWire --------------------------------
(***************************************************************************)
(* The integers of read, pread and lseek on their way to the server and    *)
(* back.  The C calls have 64 bits; the messages of hvac_comm.h carry      *)
(* counts, seek offsets and results as int32_t, and only the offset of a   *)
(* pread as int64_t.  One client with one tracked descriptor; the call is  *)
(* one step (HvacSystem), so that only the conversions are left.  Mercury  *)
(* is taken to transfer 0 bytes as it does any other number.               *)
(*                                                                         *)
(* WireBits is 32 in the code; off_t, size_t and ssize_t are integers.     *)
(***************************************************************************)
EXTENDS Integers

CONSTANTS
    WireBits,       \* the width of an int32_t
    Size,           \* the length of the file
    MaxOffset,      \* the largest position the file system accepts
    Counts,         \* counts that the application asks for
    Offsets         \* offsets of its preads and seeks

\* The second conjunct is arithmetic that the provers do not know.
ASSUME WireAssumption ==
    /\ WireBits \in Nat \ {0}
    /\ 2 ^ (WireBits - 1) \in Nat \ {0}
    /\ Size \in Nat
    /\ MaxOffset \in Nat
    /\ Size <= MaxOffset
    /\ Counts \subseteq Nat
    /\ Offsets \subseteq Int

VARIABLES
    alive,          \* the server has not been aborted by an assert
    pos,            \* the position of its descriptor
    ret,            \* what the last call returned
    want_pos,       \* observed: where POSIX would be
    want,           \* observed: what POSIX would have returned
    bent,           \* observed: the arguments of the last call that were not
                    \* carried over unchanged
    astray          \* observed: such a call may have moved the position, and
                    \* no absolute seek has followed

vars == <<alive, pos, ret, want_pos, want, bent, astray>>

Half == 2 ^ (WireBits - 1)

\* The values of an int32_t.
FitsInt32(x) == x \in (-Half)..(Half - 1)

TypeOK ==
    /\ alive \in BOOLEAN
    /\ pos \in 0..MaxOffset
    /\ FitsInt32(ret)
    /\ want_pos \in 0..MaxOffset
    /\ want \in Int
    /\ bent \subseteq {"count", "offset", "pread"}
    /\ astray \in BOOLEAN

Init ==
    /\ alive = TRUE
    /\ pos = 0
    /\ ret = 0
    /\ want_pos = 0
    /\ want = 0
    /\ bent = {}
    /\ astray = FALSE

-----------------------------------------------------------------------------
\* Faulty variant of Int32: the wire is unsigned.
UInt32(x) == x % (2 * Half)

\* A conversion to int32_t keeps the low bits, in two's complement.
Int32(x) == ((x + Half) % (2 * Half)) - Half

\* Bytes read(2) or pread(2) gets from a position.
Available(from, n) ==
    IF from >= Size THEN 0 ELSE IF n <= Size - from THEN n ELSE Size - from

\* lseek(2) by whence and offset from a position, or -1.
Target(from, offset, whence) ==
    LET to == CASE whence = "SEEK_SET" -> offset
                [] whence = "SEEK_CUR" -> from + offset
                [] whence = "SEEK_END" -> Size + offset
    IN  IF to \in 0..MaxOffset THEN to ELSE -1

\* Faulty variant of hvac_rpc_handler: the size of the transfer is not reduced
\* to what was read.
RpcHandlerKeepsSize(input_val, offset) ==
    IF input_val < 0
    THEN /\ alive' = FALSE
         /\ UNCHANGED <<pos, ret>>
    ELSE /\ ret' = Int32(input_val)
         /\ pos' = IF offset = -1 THEN pos + Available(pos, input_val) ELSE pos
         /\ UNCHANGED alive

\* Faulty variant of hvac_rpc_handler: a pread that fails is asserted on.
RpcHandlerAssertsRead(input_val, offset) ==
    IF input_val < 0 \/ offset < -1
    THEN /\ alive' = FALSE
         /\ UNCHANGED <<pos, ret>>
    ELSE LET n == Available(IF offset = -1 THEN pos ELSE offset, input_val)
         IN  /\ ret' = Int32(n)
             /\ pos' = IF offset = -1 THEN pos + n ELSE pos
             /\ UNCHANGED alive

(***************************************************************************)
(* hvac_rpc_handler with the count and offset of the message.  calloc of a *)
(* negative count, a size of nearly 2^64, fails, and assert(buffer) aborts *)
(* the server; offset -1 stands for read; a pread that fails is reported   *)
(* as the count.                                                           *)
(***************************************************************************)
hvac_rpc_handler(input_val, offset) ==
    IF input_val < 0
    THEN /\ alive' = FALSE
         /\ UNCHANGED <<pos, ret>>
    ELSE LET n == IF offset = -1 THEN Available(pos, input_val)
                  ELSE IF offset < 0 THEN input_val
                  ELSE Available(offset, input_val)
         IN  /\ ret' = Int32(n)
             /\ pos' = IF offset = -1 THEN pos + n ELSE pos
             /\ UNCHANGED alive

\* read: gen_read_rpc puts the count into input_val and -1 into offset.
hvac_remote_read(count) ==
    /\ alive
    /\ hvac_rpc_handler(Int32(count), -1)
    /\ want' = Available(want_pos, count)
    /\ want_pos' = want_pos + Available(want_pos, count)
    /\ bent' = IF FitsInt32(count) THEN {} ELSE {"count"}
    /\ astray' = (astray \/ ~FitsInt32(count))

\* pread: the offset is carried whole, and a negative one is an error.
hvac_remote_pread(count, offset) ==
    /\ alive
    /\ hvac_rpc_handler(Int32(count), offset)
    /\ want' = IF offset < 0 THEN -1 ELSE Available(offset, count)
    /\ bent' = (IF FitsInt32(count) THEN {} ELSE {"count"})
                   \cup (IF offset < 0 THEN {"pread"} ELSE {})
    /\ astray' = (astray \/ offset = -1)
    /\ UNCHANGED want_pos

\* Faulty variant of hvac_seek_rpc_handler: the position is kept in 32 bits.
SeekHandlerNarrow(offset, whence) ==
    LET to == Int32(Target(pos, offset, whence))
    IN  /\ pos' = IF to >= 0 THEN to ELSE pos
        /\ ret' = to
        /\ UNCHANGED alive

hvac_seek_rpc_handler(offset, whence) ==
    LET to == Target(pos, offset, whence)
    IN  /\ pos' = IF to >= 0 THEN to ELSE pos
        /\ ret' = Int32(to)
        /\ UNCHANGED alive

\* lseek: hvac_remote_lseek takes an int.
hvac_remote_lseek(offset, whence) ==
    /\ alive
    /\ hvac_seek_rpc_handler(Int32(offset), whence)
    /\ LET to == Target(want_pos, offset, whence)
       IN  /\ want' = to
           /\ want_pos' = IF to >= 0 THEN to ELSE want_pos
    /\ bent' = IF FitsInt32(offset) THEN {} ELSE {"offset"}
    /\ astray' = IF FitsInt32(offset)
                 THEN astray /\ (whence = "SEEK_CUR" \/ want' = -1)
                 ELSE TRUE

Next ==
    \/ \E n \in Counts : hvac_remote_read(n)
    \/ \E n \in Counts, offset \in Offsets : hvac_remote_pread(n, offset)
    \/ \E offset \in Offsets, whence \in {"SEEK_SET", "SEEK_CUR", "SEEK_END"} :
           hvac_remote_lseek(offset, whence)

Spec == Init /\ [][Next]_vars

-----------------------------------------------------------------------------
(***************************************************************************)
(* The position on the server is that of POSIX, also beyond the range of   *)
(* an int32_t: a relative seek by a small offset works in a file of any    *)
(* size, and results that do not fit never move it.  Three calls can lead  *)
(* it astray: a read with a count that does not fit, a seek with an offset *)
(* that does not, and a pread at -1, which is taken for a read.  Nothing   *)
(* else does, no other pread above all; and the next absolute seek that    *)
(* fits and succeeds puts it right.                                        *)
(***************************************************************************)
PositionFollows == ~astray => pos = want_pos

(***************************************************************************)
(* And a result is that of POSIX if it fits into an int32_t, and the       *)
(* arguments of its call did.                                              *)
(***************************************************************************)
ResultFollows == ~astray /\ bent = {} /\ FitsInt32(want) => ret = want

(***************************************************************************)
(* assert(hvac_rpc_state_p->buffer) (hvac_comm.cpp:212): the handler gets  *)
(* its buffer for every count in the range of an int32_t, 0 too, whatever  *)
(* the offsets and the history.  A legal count beyond it may arrive        *)
(* negative, and then aborts the server.                                   *)
(***************************************************************************)
OnlyCountsAbort == ~alive => "count" \in bent
=================================================================================
