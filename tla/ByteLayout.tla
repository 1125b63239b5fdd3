----------------------------- MODULE ByteLayout -----------------------------
(***************************************************************************)
(* Binary records as the code writes and reads them with SrsBuffer.        *)
(*                                                                         *)
(* An object (a box, a packet, a tag) is a function from fields to         *)
(* numbers; a field is <<name, index>>, index 0 for a scalar member and    *)
(* 1, 2, ... for the elements of a vector.  A layout is the sequence of    *)
(* the items <<name, index, width>> a function writes or reads, in order,  *)
(* one per write_Nbytes or read_Nbytes call.  A byte remembers the value   *)
(* it is part of, which byte of it it is and how many it has, so that      *)
(* reading with another width or at another place than was written gives   *)
(* Garbage and not, by luck, the value.                                    *)
(***************************************************************************)
EXTENDS Integers, Sequences, SequencesExt, TLC

Garbage == -1

(* One member; the elements of n rows of columns; an array; unused bytes.  *)
F(f, w) == <<f, 0, w>>

Rows(n, cols) ==
    IF n <= 0 THEN <<>> ELSE [k \in 1..(n * Len(cols)) |->
        LET c == cols[((k - 1) % Len(cols)) + 1]
        IN  <<c[1], ((k - 1) \div Len(cols)) + 1, c[2]>>]

A(f, n, w) == Rows(n, <<<<f, w>>>>)

Skip(w) == <<"_", 0, w>>

(* The member f of object o, zero until it is assigned.                    *)
V(o, f) == IF <<f, 0>> \in DOMAIN o THEN o[<<f, 0>>] ELSE 0

Set(o, f, v) == (<<f, 0>> :> v) @@ o

(* Is the bit of weight m set in v?                                        *)
Bit(v, m) == (v \div m) % 2 = 1

(* An object whose members have the given values, whose other members      *)
(* (names) and array elements (arrays: <<name, count>>) are all different, *)
(* so that two exchanged fields are noticed.                               *)
Object(values, names, arrays) ==
    LET scalars == [k \in {<<f, 0>> : f \in DOMAIN values} |-> values[k[1]]]
        named   == [k \in {<<names[i], 0>> : i \in DOMAIN names} |->
                       CHOOSE i \in DOMAIN names : names[i] = k[1]]
        elems   == UNION {{<<arrays[i][1], j>> : j \in 1..arrays[i][2]} : i \in DOMAIN arrays}
    IN  scalars @@ named @@ [k \in elems |->
            10 * k[2] + CHOOSE i \in DOMAIN arrays : arrays[i][1] = k[1]]

-----------------------------------------------------------------------------
(* SrsBuffer                                                               *)

(* write_1bytes .. write_8bytes: the bytes of one value.                   *)
Put(v, w) == [k \in 1..w |-> <<v, k, w>>]

(* read_1bytes .. read_8bytes at the (zero based) position pos.            *)
Get(wire, pos, w) ==
    IF pos + w <= Len(wire) /\ \A k \in 1..w : wire[pos + k] = <<wire[pos + 1][1], k, w>>
    THEN wire[pos + 1][1]
    ELSE Garbage

(* require(n): are n bytes left?                                           *)
Require(wire, pos, n) == pos + n <= Len(wire)

(* Everything a layout writes of an object.                                *)
WriteAll(o, l) ==
    FlattenSeq([i \in DOMAIN l |->
        Put(IF <<l[i][1], l[i][2]>> \in DOMAIN o THEN o[<<l[i][1], l[i][2]>>] ELSE 0, l[i][3])])

Width(l) == FoldLeft(LAMBDA n, item : n + item[3], 0, l)
=============================================================================
