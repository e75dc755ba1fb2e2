--------------------------------- MODULE Ucs ---------------------------------
(***************************************************************************)
(* ucs.c: the UTF-8 <-> UCS-2 conversions the FAT engine applies to long  *)
(* names.  fat_utf8_to_ucs2 turns a path component into the UCS-2 that    *)
(* fat_add_dentry spreads over long-name entries and fat_search_long      *)
(* compares with; fat_ucs2_to_utf8 turns a stored long name back for      *)
(* readdir.  Strings are sequences of byte or code unit values; the NUL  *)
(* terminator the code writes is counted against the buffer size olen    *)
(* but left out of the result.                                            *)
(***************************************************************************)
EXTENDS Integers, Sequences, Bitwise

CONSTANTS UcsUnits,   \* code units the checks draw names from
          UcsBytes,   \* bytes the checks draw byte strings from
          UcsLen,     \* the longest name or byte string checked
          UcsOlen     \* the largest buffer size checked

Fail == [ok |-> FALSE]

\* fat_utf8_to_ucs2's loop filling the whole buffer, with no unit kept for
\* the terminator.
RECURSIVE Utf8LoopFull(_, _, _, _)
Utf8LoopFull(in, olen, i, out) ==
    IF ~(i < Len(in) /\ Len(out) < olen) THEN [ok |-> TRUE, out |-> out]
    ELSE LET b == in[i + 1] IN
         IF b <= 127 THEN Utf8LoopFull(in, olen, i + 1, Append(out, b))
         ELSE IF (b & 224) = 192
         THEN IF Len(in) < i + 2 \/ (in[i + 2] & 192) # 128 THEN Fail
              ELSE Utf8LoopFull(in, olen, i + 2,
                                Append(out, (b & 31) * 64 + (in[i + 2] & 63)))
         ELSE IF (b & 240) = 224
         THEN IF Len(in) < i + 3 \/ (in[i + 2] & 192) # 128
                 \/ (in[i + 3] & 192) # 128 THEN Fail
              ELSE Utf8LoopFull(in, olen, i + 3,
                                Append(out, (b & 15) * 4096 + (in[i + 2] & 63) * 64
                                            + (in[i + 3] & 63)))
         ELSE Fail

(* fat_utf8_to_ucs2's loop: i bytes read, out the units written.  It     *)
(* stops when the input ends or olen - 1 units are written, and fails on *)
(* a truncated or malformed sequence and on 4-byte leads.  The lead and *)
(* continuation bytes are tested by their masks only.                   *)
RECURSIVE Utf8Loop(_, _, _, _)
Utf8Loop(in, olen, i, out) ==
    IF ~(i < Len(in) /\ Len(out) < olen - 1) THEN [ok |-> TRUE, out |-> out]
    ELSE LET b == in[i + 1] IN
         IF b <= 127 THEN Utf8Loop(in, olen, i + 1, Append(out, b))
         ELSE IF (b & 224) = 192
         THEN IF Len(in) < i + 2 \/ (in[i + 2] & 192) # 128 THEN Fail
              ELSE Utf8Loop(in, olen, i + 2,
                            Append(out, (b & 31) * 64 + (in[i + 2] & 63)))
         ELSE IF (b & 240) = 224
         THEN IF Len(in) < i + 3 \/ (in[i + 2] & 192) # 128
                 \/ (in[i + 3] & 192) # 128 THEN Fail
              ELSE Utf8Loop(in, olen, i + 3,
                            Append(out, (b & 15) * 4096 + (in[i + 2] & 63) * 64
                                        + (in[i + 3] & 63)))
         ELSE Fail

Utf8ToUcs2(in, olen) == Utf8Loop(in, olen, 0, <<>>)

\* fat_ucs2_to_utf8's loop with the room test one byte short: no room kept
\* for the terminator.
RECURSIVE Ucs2LoopNoNul(_, _, _, _)
Ucs2LoopNoNul(in, olen, i, out) ==
    IF i = Len(in) THEN [ok |-> TRUE, out |-> out]
    ELSE LET u == in[i + 1]
             j == Len(out)
             enc == IF u <= 127 THEN <<u>>
                    ELSE IF u <= 2047
                    THEN <<192 + (shiftR(u, 6) & 31), 128 + (u & 63)>>
                    ELSE <<224 + (shiftR(u, 12) & 15), 128 + (shiftR(u, 6) & 63),
                           128 + (u & 63)>>
         IN IF olen < j + Len(enc) THEN Fail
            ELSE Ucs2LoopNoNul(in, olen, i + 1, out \o enc)

(* fat_ucs2_to_utf8's loop: each unit is written as one, two or three    *)
(* bytes, after a test that they and the terminator fit in olen.        *)
RECURSIVE Ucs2Loop(_, _, _, _)
Ucs2Loop(in, olen, i, out) ==
    IF i = Len(in) THEN [ok |-> TRUE, out |-> out]
    ELSE LET u == in[i + 1]
             j == Len(out)
             enc == IF u <= 127 THEN <<u>>
                    ELSE IF u <= 2047
                    THEN <<192 + (shiftR(u, 6) & 31), 128 + (u & 63)>>
                    ELSE <<224 + (shiftR(u, 12) & 15), 128 + (shiftR(u, 6) & 63),
                           128 + (u & 63)>>
         IN IF olen < j + Len(enc) + 1 THEN Fail
            ELSE Ucs2Loop(in, olen, i + 1, out \o enc)

Ucs2ToUtf8(in, olen) == Ucs2Loop(in, olen, 0, <<>>)

(* fat_strlen_ucs2: the units before the first 0. *)
StrlenUcs2(in) ==
    LET Z == {k \in 1..Len(in) : in[k] = 0}
    IN IF Z = {} THEN Len(in) ELSE (CHOOSE k \in Z : \A m \in Z : k <= m) - 1

-----------------------------------------------------------------------------
(* The reference: UTF-8 as RFC 3629 defines it for the code points of    *)
(* the basic plane, one code point at a time.                             *)
RefUnit(cp) ==
    IF cp < 128 THEN <<cp>>
    ELSE IF cp < 2048 THEN <<192 + cp \div 64, 128 + (cp % 64)>>
    ELSE <<224 + cp \div 4096, 128 + ((cp \div 64) % 64), 128 + (cp % 64)>>

RECURSIVE RefUtf8(_)
RefUtf8(s) == IF s = <<>> THEN <<>> ELSE RefUnit(Head(s)) \o RefUtf8(Tail(s))

Strs(S) == UNION {[1..n -> S] : n \in 0..UcsLen}
Prefix(s, n) == IF Len(s) <= n THEN s ELSE SubSeq(s, 1, n)

(* fat_ucs2_to_utf8 writes exactly the UTF-8 of a name when it and its   *)
(* terminator fit in olen, and fails otherwise: no name cut short and no *)
(* terminator past the buffer, for every bounded name and buffer size.   *)
EncodeBounded ==
    \A u \in Strs(UcsUnits), olen \in 1..UcsOlen :
        IF Len(RefUtf8(u)) + 1 <= olen
        THEN Ucs2ToUtf8(u, olen) = [ok |-> TRUE, out |-> RefUtf8(u)]
        ELSE ~Ucs2ToUtf8(u, olen).ok

(* fat_utf8_to_ucs2 of the UTF-8 of a name gives the name back, cut to   *)
(* olen - 1 units so that its terminator fits: it never fails on what    *)
(* the encoder writes and never writes past the buffer.                  *)
DecodeBounded ==
    \A u \in Strs(UcsUnits), olen \in 1..UcsOlen :
        Utf8ToUcs2(RefUtf8(u), olen) = [ok |-> TRUE, out |-> Prefix(u, olen - 1)]

(* fat_utf8_to_ucs2 accepts only the shortest encoding of each unit, so  *)
(* a byte string it accepts is the UTF-8 of what it produced.             *)
DecodeCanonical ==
    \A b \in Strs(UcsBytes) :
        LET r == Utf8ToUcs2(b, UcsLen + 1) IN r.ok => RefUtf8(r.out) = b
====
