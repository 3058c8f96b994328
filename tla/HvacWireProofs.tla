----------------------------- MODULE HvacWireProofs -----------------------------
(***************************************************************************)
(* Proofs of the properties of HvacWire, for every width of the wire, size *)
(* of the file, and set of arguments.                                      *)
(***************************************************************************)
EXTENDS HvacWire, TLAPS

WireInv == TypeOK /\ PositionFollows /\ ResultFollows /\ OnlyCountsAbort

-----------------------------------------------------------------------------
(***************************************************************************)
(* What the operators return.                                              *)
(***************************************************************************)

\* The range of the wire is not empty.
LEMMA HalfIsPositive == Half \in Nat \ {0}
  BY WireAssumption DEF Half

\* The conversion to int32_t yields a number in the range, and leaves one that
\* is in the range alone.
LEMMA ConversionToInt32 ==
  ASSUME NEW x \in Int
  PROVE  /\ Int32(x) \in Int
         /\ FitsInt32(Int32(x))
         /\ FitsInt32(x) => Int32(x) = x
<1> DEFINE h == Half
<1>1. h \in Nat \ {0}
  BY HalfIsPositive
<1>2. (x + h) % (2 * h) \in 0..(2 * h - 1)
  <2> HIDE DEF h
  <2> QED BY <1>1
<1>3. x \in (-h)..(h - 1) => (x + h) % (2 * h) = x + h
  <2> HIDE DEF h
  <2> QED BY <1>1
<1> QED BY <1>1, <1>2, <1>3 DEF Int32, FitsInt32

\* A read gets at most what it asks for and what the file has.
LEMMA AvailableBounds ==
  ASSUME NEW from \in Nat, NEW n \in Nat
  PROVE  /\ Available(from, n) \in 0..n
         /\ from <= MaxOffset => from + Available(from, n) <= MaxOffset
  BY WireAssumption DEF Available

\* A seek ends inside the limits of the file system, or fails.
LEMMA TargetBounds ==
  ASSUME NEW from, NEW offset, NEW whence
  PROVE  Target(from, offset, whence) \in (0..MaxOffset) \cup {-1}
  BY DEF Target

-----------------------------------------------------------------------------
LEMMA WireInit == Init => WireInv
<1> SUFFICES ASSUME Init PROVE WireInv
  OBVIOUS
<1>1. FitsInt32(0)
  BY HalfIsPositive DEF FitsInt32
<1>2. TypeOK
  <2>1. 0 \in 0..MaxOffset
    BY WireAssumption
  <2>2. FitsInt32(ret)
    BY <1>1 DEF Init, FitsInt32
  <2>3. alive \in BOOLEAN /\ astray \in BOOLEAN
    BY DEF Init
  <2>4. pos \in 0..MaxOffset /\ want_pos \in 0..MaxOffset /\ want \in Int
    BY <2>1 DEF Init
  <2>5. bent \subseteq {"count", "offset", "pread"}
    BY DEF Init
  <2> QED BY <2>2, <2>3, <2>4, <2>5 DEF TypeOK
<1>3. PositionFollows /\ ResultFollows /\ OnlyCountsAbort
  BY DEF Init, PositionFollows, ResultFollows, OnlyCountsAbort
<1> QED BY <1>2, <1>3 DEF WireInv

\* The handler of reads and preads: it aborts exactly on a negative count,
\* and keeps its types.
LEMMA RpcHandlerTypes ==
  ASSUME TypeOK, NEW n \in Int, NEW offset \in Int,
         hvac_rpc_handler(n, offset)
  PROVE  /\ alive' \in BOOLEAN
         /\ pos' \in 0..MaxOffset
         /\ FitsInt32(ret')
<1>1. CASE n < 0
  BY <1>1 DEF TypeOK, hvac_rpc_handler
<1>2. CASE ~(n < 0)
  <2>1. Available(pos, n) \in 0..n /\ pos + Available(pos, n) <= MaxOffset
    <3>1. pos \in Nat /\ pos <= MaxOffset /\ n \in Nat
      BY <1>2, WireAssumption DEF TypeOK
    <3> QED BY <3>1, AvailableBounds
  <2>2. offset >= 0 => Available(offset, n) \in 0..n
    BY <1>2, AvailableBounds
  <2> DEFINE got == IF offset = -1 THEN Available(pos, n)
                    ELSE IF offset < 0 THEN n
                    ELSE Available(offset, n)
  <2>3. got \in Nat /\ (offset = -1 => got = Available(pos, n))
    BY <1>2, <2>1, <2>2
  <2>4. /\ ret' = Int32(got)
        /\ pos' = IF offset = -1 THEN pos + got ELSE pos
        /\ alive' = alive
    BY <1>2 DEF hvac_rpc_handler
  <2>5. FitsInt32(Int32(got))
    BY <2>3, ConversionToInt32
  <2> HIDE DEF got
  <2> QED BY <2>1, <2>3, <2>4, <2>5, WireAssumption DEF TypeOK
<1> QED BY <1>1, <1>2

-----------------------------------------------------------------------------
LEMMA ReadKeepsInv ==
  ASSUME WireInv, NEW count \in Counts, hvac_remote_read(count)
  PROVE  WireInv'
<1> USE DEF WireInv
<1>1. count \in Nat /\ count \in Int
  BY WireAssumption
<1>2. /\ Int32(count) \in Int
      /\ FitsInt32(count) => Int32(count) = count
  BY <1>1, ConversionToInt32
<1>3. /\ Available(want_pos, count) \in 0..count
      /\ want_pos + Available(want_pos, count) <= MaxOffset
  <2>1. want_pos \in Nat /\ want_pos <= MaxOffset
    BY WireAssumption DEF TypeOK
  <2> QED BY <1>1, <2>1, AvailableBounds
<1>4. TypeOK'
  <2>1. alive' \in BOOLEAN /\ pos' \in 0..MaxOffset /\ FitsInt32(ret')
    BY <1>2, RpcHandlerTypes DEF hvac_remote_read
  <2>2. want_pos' \in 0..MaxOffset /\ want' \in Int
    BY <1>1, <1>3, WireAssumption DEF hvac_remote_read, TypeOK
  <2>3. bent' \subseteq {"count", "offset", "pread"} /\ astray' \in BOOLEAN
    BY DEF hvac_remote_read, TypeOK
  <2> QED BY <2>1, <2>2, <2>3 DEF TypeOK
<1>5. CASE FitsInt32(count)
  <2>1. /\ alive' = alive
        /\ ret' = Int32(Available(pos, count))
        /\ pos' = pos + Available(pos, count)
        /\ alive
        /\ ~astray' => ~astray
    <3>1. Int32(count) = count /\ ~(count < 0)
      BY <1>1, <1>2, <1>5
    <3> QED BY <1>5, <3>1 DEF hvac_remote_read, hvac_rpc_handler
  <2>2. OnlyCountsAbort'
    BY <2>1 DEF OnlyCountsAbort
  <2>3. PositionFollows'
    BY <2>1 DEF PositionFollows, hvac_remote_read
  <2>4. ResultFollows'
    <3>1. FitsInt32(Available(want_pos, count)) =>
              Int32(Available(want_pos, count)) = Available(want_pos, count)
      BY <1>1, <1>3, ConversionToInt32
    <3> QED BY <2>1, <3>1 DEF ResultFollows, PositionFollows, hvac_remote_read, FitsInt32
  <2> QED BY <1>4, <2>2, <2>3, <2>4
<1>6. CASE ~FitsInt32(count)
  <2>1. "count" \in bent' /\ astray'
    BY <1>6 DEF hvac_remote_read
  <2> QED BY <1>4, <2>1 DEF PositionFollows, ResultFollows, OnlyCountsAbort
<1> QED BY <1>5, <1>6

LEMMA PreadKeepsInv ==
  ASSUME WireInv, NEW count \in Counts, NEW offset \in Offsets,
         hvac_remote_pread(count, offset)
  PROVE  WireInv'
<1> USE DEF WireInv
<1>1. count \in Nat /\ count \in Int /\ offset \in Int
  BY WireAssumption
<1>2. /\ Int32(count) \in Int
      /\ FitsInt32(count) => Int32(count) = count
  BY <1>1, ConversionToInt32
<1>3. offset >= 0 => Available(offset, count) \in 0..count
  BY <1>1, AvailableBounds
<1>4. TypeOK'
  <2>1. alive' \in BOOLEAN /\ pos' \in 0..MaxOffset /\ FitsInt32(ret')
    BY <1>1, <1>2, RpcHandlerTypes DEF hvac_remote_pread
  <2>2. want_pos' \in 0..MaxOffset /\ want' \in Int
    BY <1>1, <1>3 DEF hvac_remote_pread, TypeOK
  <2>3. bent' \subseteq {"count", "offset", "pread"} /\ astray' \in BOOLEAN
    BY DEF hvac_remote_pread, TypeOK
  <2> QED BY <2>1, <2>2, <2>3 DEF TypeOK
<1>5. CASE FitsInt32(count) /\ offset >= 0
  <2>1. /\ alive' = alive
        /\ ret' = Int32(Available(offset, count))
        /\ pos' = pos
        /\ want' = Available(offset, count)
        /\ want_pos' = want_pos
        /\ alive
        /\ ~astray' => ~astray
    <3>1. Int32(count) = count /\ ~(count < 0) /\ ~(offset < 0) /\ offset # -1
      BY <1>1, <1>2, <1>5
    <3> QED BY <1>5, <3>1 DEF hvac_remote_pread, hvac_rpc_handler
  <2>2. FitsInt32(Available(offset, count)) =>
            Int32(Available(offset, count)) = Available(offset, count)
    BY <1>1, <1>3, <1>5, ConversionToInt32
  <2>3. ResultFollows'
    BY <2>1, <2>2 DEF ResultFollows, FitsInt32
  <2> QED BY <1>4, <2>1, <2>3 DEF PositionFollows, OnlyCountsAbort
<1>6. CASE ~(FitsInt32(count) /\ offset >= 0)
  <2>1. bent' # {} /\ (~FitsInt32(count) => "count" \in bent')
    BY <1>1, <1>6 DEF hvac_remote_pread
  <2>2. OnlyCountsAbort'
    <3>1. CASE FitsInt32(count)
      <4>1. Int32(count) = count /\ ~(count < 0)
        BY <1>1, <1>2, <3>1
      <4> QED BY <4>1 DEF hvac_remote_pread, hvac_rpc_handler, OnlyCountsAbort
    <3>2. CASE ~FitsInt32(count)
      BY <2>1, <3>2 DEF OnlyCountsAbort
    <3> QED BY <3>1, <3>2
  <2>3. PositionFollows'
    <3>1. CASE offset = -1
      BY <3>1 DEF hvac_remote_pread, PositionFollows
    <3>2. CASE offset # -1
      BY <3>2 DEF hvac_remote_pread, hvac_rpc_handler, PositionFollows
    <3> QED BY <3>1, <3>2
  <2> QED BY <1>4, <2>1, <2>2, <2>3 DEF ResultFollows
<1> QED BY <1>5, <1>6

LEMMA LseekKeepsInv ==
  ASSUME WireInv, NEW offset \in Offsets, NEW whence,
         hvac_remote_lseek(offset, whence)
  PROVE  WireInv'
<1> USE DEF WireInv
<1> DEFINE to   == Target(pos, Int32(offset), whence)
           goal == Target(want_pos, offset, whence)
<1>1. offset \in Int
  BY WireAssumption
<1>2. FitsInt32(offset) => Int32(offset) = offset
  BY <1>1, ConversionToInt32
<1>3. to \in (0..MaxOffset) \cup {-1} /\ goal \in (0..MaxOffset) \cup {-1}
  BY TargetBounds
<1>4. to \in Int /\ goal \in Int
  BY <1>3, WireAssumption
<1>5. FitsInt32(Int32(to)) /\ (FitsInt32(to) => Int32(to) = to)
  BY <1>4, ConversionToInt32
<1>6. /\ alive' = alive
      /\ pos' = IF to >= 0 THEN to ELSE pos
      /\ ret' = Int32(to)
      /\ want' = goal
      /\ want_pos' = IF goal >= 0 THEN goal ELSE want_pos
      /\ bent' = IF FitsInt32(offset) THEN {} ELSE {"offset"}
      /\ alive
  BY DEF hvac_remote_lseek, hvac_seek_rpc_handler
<1>7. /\ astray' \in BOOLEAN
      /\ ~astray' => FitsInt32(offset)
      /\ ~astray' /\ astray => whence # "SEEK_CUR" /\ goal # -1
  BY <1>6 DEF hvac_remote_lseek, TypeOK
\* Both seeks start from the same place, or do not look at it.
<1>8. ~astray' => to = goal /\ (astray => goal >= 0)
  <2>1. SUFFICES ASSUME ~astray' PROVE to = goal /\ (astray => goal >= 0)
    OBVIOUS
  <2>2. Int32(offset) = offset
    BY <1>2, <1>7, <2>1
  <2>3. CASE ~astray
    BY <2>2, <2>3 DEF PositionFollows
  <2>4. CASE astray
    <3>1. to = goal
      BY <1>7, <2>1, <2>2, <2>4 DEF Target
    <3>2. goal # -1
      BY <1>7, <2>1, <2>4
    <3> HIDE DEF to, goal
    <3> QED BY <1>3, <3>1, <3>2, WireAssumption
  <2> QED BY <2>3, <2>4
<1> HIDE DEF to, goal
<1>9. TypeOK'
  <2>1. pos' \in 0..MaxOffset /\ want_pos' \in 0..MaxOffset
    BY <1>3, <1>6, WireAssumption DEF TypeOK
  <2> QED BY <1>4, <1>5, <1>6, <1>7, <2>1 DEF TypeOK
<1>10. PositionFollows'
  <2>1. SUFFICES ASSUME ~astray' PROVE pos' = want_pos'
    BY DEF PositionFollows
  <2> QED BY <1>6, <1>8, <2>1 DEF PositionFollows
<1>11. ResultFollows'
  BY <1>5, <1>6, <1>8 DEF ResultFollows, FitsInt32
<1>12. OnlyCountsAbort'
  BY <1>6 DEF OnlyCountsAbort
<1> QED BY <1>9, <1>10, <1>11, <1>12

LEMMA WireInvariant == Spec => []WireInv
<1>1. Init => WireInv
  BY WireInit
<1>2. WireInv /\ [Next]_vars => WireInv'
  <2> SUFFICES ASSUME WireInv, [Next]_vars PROVE WireInv'
    OBVIOUS
  <2>1. CASE \E n \in Counts : hvac_remote_read(n)
    BY <2>1, ReadKeepsInv
  <2>2. CASE \E n \in Counts, offset \in Offsets : hvac_remote_pread(n, offset)
    BY <2>2, PreadKeepsInv
  <2>3. CASE \E offset \in Offsets, whence \in {"SEEK_SET", "SEEK_CUR", "SEEK_END"} :
                 hvac_remote_lseek(offset, whence)
    BY <2>3, LseekKeepsInv
  <2>4. CASE UNCHANGED vars
    BY <2>4 DEF vars, WireInv, TypeOK, PositionFollows, ResultFollows,
                OnlyCountsAbort, FitsInt32
  <2> QED BY <2>1, <2>2, <2>3, <2>4 DEF Next
<1> QED BY <1>1, <1>2, PTL DEF Spec

-----------------------------------------------------------------------------
\* Positions stay inside the limits of the file system, also after a read with
\* a converted count, and results inside those of the wire.
THEOREM WireTypeCorrect == Spec => []TypeOK
<1>1. WireInv => TypeOK
  BY DEF WireInv
<1> QED BY <1>1, WireInvariant, PTL

\* The server's position is that of POSIX, whatever the size of the file
\* (hvac_seek_rpc_handler's own lseek has 64 bits), unless a read or seek whose
\* argument does not fit, or a pread at -1, has led it astray since the last
\* absolute seek.
THEOREM PositionsFollow == Spec => []PositionFollows
<1>1. WireInv => PositionFollows
  BY DEF WireInv
<1> QED BY <1>1, WireInvariant, PTL

\* Then every result that fits, of a call whose arguments fit, is that of POSIX.
THEOREM ResultsFollow == Spec => []ResultFollows
<1>1. WireInv => ResultFollows
  BY DEF WireInv
<1> QED BY <1>1, WireInvariant, PTL

\* Only a count that does not fit makes assert(buffer) abort the server.
THEOREM OnlyCountsAbortTheServer == Spec => []OnlyCountsAbort
<1>1. WireInv => OnlyCountsAbort
  BY DEF WireInv
<1> QED BY <1>1, WireInvariant, PTL
=================================================================================
