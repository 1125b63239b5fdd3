-------------------------------- MODULE Amf0 --------------------------------
(***************************************************************************)
(* AMF0 values as srs_protocol_amf0 writes and reads them, byte by byte:   *)
(* here a byte is a number, because the end of an object is recognised by  *)
(* looking at three bytes that may belong to something else.               *)
(*                                                                         *)
(* A value is [m, s, p, n]: its marker, the bytes of a scalar (a string's  *)
(* characters, the eight bytes of a number), the properties of an object   *)
(* or an ecma array as <<key, value>> in order (an empty key for the       *)
(* elements of a strict array), and the count field of an array.           *)
(***************************************************************************)
EXTENDS Integers, Sequences, SequencesExt

Number == 0
Boolean == 1
String == 2
ObjectMark == 3
Null == 5
Undefined == 6
EcmaArray == 8
ObjectEnd == 9
StrictArray == 10
Date == 11

Value(m, s, p, n) == [m |-> m, s |-> s, p |-> p, n |-> n]

NoValue == Value(63, <<>>, <<>>, 0)

-----------------------------------------------------------------------------
(* The classes                                                             *)

SrsAmf0String(chars) == Value(String, chars, <<>>, 0)

SrsAmf0Boolean(b) == Value(Boolean, IF b THEN <<1>> ELSE <<0>>, <<>>, 0)

(* The eight bytes of the double.                                          *)
SrsAmf0Number(bytes) == Value(Number, bytes, <<>>, 0)

SrsAmf0Date(bytes) == Value(Date, bytes, <<>>, 0)

SrsAmf0Null == Value(Null, <<>>, <<>>, 0)

SrsAmf0Undefined == Value(Undefined, <<>>, <<>>, 0)

SrsAmf0ObjectEOF == Value(ObjectEnd, <<>>, <<>>, 0)

SrsAmf0Object(props) == Value(ObjectMark, <<>>, props, 0)

(* The count is what was read; set() does not change it.                   *)
SrsAmf0EcmaArray(props, count) == Value(EcmaArray, <<>>, props, count)

SrsAmf0StrictArray(elems) == Value(StrictArray, <<>>, [i \in DOMAIN elems |-> <<<<>>, elems[i]>>], Len(elems))

(* The number of a small integer: zero is all zeros, the other bytes are   *)
(* never looked into.                                                      *)
Num(n) == SrsAmf0Number(<<IF n < 0 THEN 192 ELSE IF n = 0 THEN 0 ELSE 64,
                          IF n < 0 THEN 0 - n ELSE n, 0, 0, 0, 0, 0, 0>>)

to_number(v) == IF v.s[1] = 192 THEN 0 - v.s[2] ELSE v.s[2]

(* SrsUnSortedHashtable::set(): a key that is there is moved to the end.   *)
hashtable_set(props, key, v) ==
    Append(SelectSeq(props, LAMBDA e : e[1] # key), <<key, v>>)

get_property(props, key) ==
    IF \E i \in DOMAIN props : props[i][1] = key
    THEN LET i == CHOOSE j \in DOMAIN props : props[j][1] = key IN props[i][2]
    ELSE NoValue

(* copy(): property by property.                                           *)
hashtable_copy(props) == FoldLeft(LAMBDA a, e : hashtable_set(a, e[1], e[2]), <<>>, props)

-----------------------------------------------------------------------------
(* Sizes                                                                   *)

utf8_size(s) == 2 + Len(s)

SumOver(seq, Size(_)) == FoldLeft(LAMBDA a, e : a + Size(e), 0, seq)

(* SrsAmf0Size and total_size() of every class.                            *)
RECURSIVE total_size(_)
total_size(v) ==
    CASE v.m = String -> 1 + utf8_size(v.s)
      [] v.m = Number -> 1 + 8
      [] v.m = Boolean -> 1 + 1
      [] v.m = Date -> 1 + 8 + 2
      [] v.m \in {Null, Undefined} -> 1
      [] v.m = ObjectEnd -> 2 + 1
      [] v.m = ObjectMark -> 1 + SumOver(v.p, LAMBDA e : utf8_size(e[1]) + total_size(e[2])) + 3
      [] v.m = EcmaArray -> 1 + 4 + SumOver(v.p, LAMBDA e : utf8_size(e[1]) + total_size(e[2])) + 3
      [] v.m = StrictArray -> 1 + 4 + SumOver(v.p, LAMBDA e : total_size(e[2]))

-----------------------------------------------------------------------------
(* Writing                                                                 *)

write_2bytes(n) == <<n \div 256, n % 256>>

write_4bytes(n) == <<0, 0>> \o write_2bytes(n)

srs_amf0_write_utf8(s) == write_2bytes(Len(s)) \o s

srs_amf0_write_string(s) == <<String>> \o srs_amf0_write_utf8(s)

srs_amf0_write_boolean(s) == <<Boolean>> \o s

srs_amf0_write_number(s) == <<Number>> \o s

srs_amf0_write_null == <<Null>>

srs_amf0_write_undefined == <<Undefined>>

srs_amf0_write_object_eof == write_2bytes(0) \o <<ObjectEnd>>

RECURSIVE srs_amf0_write_any(_)

write_properties(p) ==
    FlattenSeq([i \in DOMAIN p |-> srs_amf0_write_utf8(p[i][1]) \o srs_amf0_write_any(p[i][2])])

object_write(v) == <<ObjectMark>> \o write_properties(v.p) \o srs_amf0_write_object_eof

ecma_write(v) == <<EcmaArray>> \o write_4bytes(v.n) \o write_properties(v.p) \o srs_amf0_write_object_eof

strict_write(v) ==
    <<StrictArray>> \o write_4bytes(v.n) \o FlattenSeq([i \in DOMAIN v.p |-> srs_amf0_write_any(v.p[i][2])])

date_write(v) == <<Date>> \o v.s

srs_amf0_write_any(v) ==
    CASE v.m = String -> srs_amf0_write_string(v.s)
      [] v.m = Boolean -> srs_amf0_write_boolean(v.s)
      [] v.m = Number -> srs_amf0_write_number(v.s)
      [] v.m = Null -> srs_amf0_write_null
      [] v.m = Undefined -> srs_amf0_write_undefined
      [] v.m = ObjectMark -> object_write(v)
      [] v.m = EcmaArray -> ecma_write(v)
      [] v.m = StrictArray -> strict_write(v)
      [] v.m = Date -> date_write(v)
      [] v.m = ObjectEnd -> srs_amf0_write_object_eof

-----------------------------------------------------------------------------
(* Reading: the value, the position after it, and whether there was one.   *)

Read(v, pos) == [v |-> v, pos |-> pos, ok |-> TRUE]

Bad(pos) == [v |-> NoValue, pos |-> pos, ok |-> FALSE]

Left(wire, pos, n) == pos + n <= Len(wire)

read_2bytes(wire, pos) == wire[pos + 1] * 256 + wire[pos + 2]

read_4bytes(wire, pos) == read_2bytes(wire, pos + 2)

Marked(wire, pos, m) == Left(wire, pos, 1) /\ wire[pos + 1] = m

(* A marker and n bytes.                                                   *)
ReadFixed(wire, pos, m, n, Make(_)) ==
    IF Marked(wire, pos, m) /\ Left(wire, pos + 1, n)
    THEN Read(Make(SubSeq(wire, pos + 2, pos + 1 + n)), pos + 1 + n)
    ELSE Bad(pos)

(* The length is a signed 16 bit number; strings are short here.           *)
srs_amf0_read_utf8(wire, pos) ==
    IF ~Left(wire, pos, 2) THEN Bad(pos)
    ELSE LET n == read_2bytes(wire, pos)
         IN  IF Left(wire, pos + 2, n)
             THEN Read(SubSeq(wire, pos + 3, pos + 2 + n), pos + 2 + n) ELSE Bad(pos)

srs_amf0_read_string(wire, pos) ==
    LET Made(s) == IF Marked(wire, pos, String) /\ s.ok THEN Read(SrsAmf0String(s.v), s.pos) ELSE Bad(pos)
    IN  Made(srs_amf0_read_utf8(wire, pos + 1))

srs_amf0_read_boolean(wire, pos) ==
    ReadFixed(wire, pos, Boolean, 1, LAMBDA b : SrsAmf0Boolean(b # <<0>>))

srs_amf0_read_number(wire, pos) == ReadFixed(wire, pos, Number, 8, SrsAmf0Number)

date_read(wire, pos) == ReadFixed(wire, pos, Date, 10, SrsAmf0Date)

srs_amf0_read_null(wire, pos) == ReadFixed(wire, pos, Null, 0, LAMBDA b : SrsAmf0Null)

srs_amf0_read_undefined(wire, pos) == ReadFixed(wire, pos, Undefined, 0, LAMBDA b : SrsAmf0Undefined)

(* Mutant: an empty name is taken for the end mark.                        *)
is_object_eof_short(wire, pos) == Left(wire, pos, 3) /\ SubSeq(wire, pos + 1, pos + 2) = <<0, 0>>

srs_amf0_is_object_eof(wire, pos) == Left(wire, pos, 3) /\ SubSeq(wire, pos + 1, pos + 3) = <<0, 0, ObjectEnd>>

eof_read(wire, pos) == IF srs_amf0_is_object_eof(wire, pos) THEN Read(SrsAmf0ObjectEOF, pos + 3) ELSE Bad(pos)

RECURSIVE srs_amf0_read_any(_, _), read_properties(_, _, _), read_elements(_, _, _, _)

(* The loop of object_read and ecma_read: until the end mark, or the end   *)
(* of the bytes.                                                           *)
read_properties(wire, pos, props) ==
    IF pos = Len(wire) THEN Read(props, pos)
    ELSE IF srs_amf0_is_object_eof(wire, pos) THEN Read(props, pos + 3)
    ELSE LET More(k, v) ==
                IF ~k.ok \/ ~v.ok THEN Bad(pos) ELSE read_properties(wire, v.pos, hashtable_set(props, k.v, v.v))
             AfterKey(k) == More(k, srs_amf0_read_any(wire, k.pos))
         IN  AfterKey(srs_amf0_read_utf8(wire, pos))

object_read(wire, pos) ==
    LET Made(r) == IF Marked(wire, pos, ObjectMark) /\ r.ok THEN Read(SrsAmf0Object(r.v), r.pos) ELSE Bad(pos)
    IN  Made(read_properties(wire, pos + 1, <<>>))

ecma_read(wire, pos) ==
    LET Made(r) ==
            IF Marked(wire, pos, EcmaArray) /\ Left(wire, pos + 1, 4) /\ r.ok
            THEN Read(SrsAmf0EcmaArray(r.v, read_4bytes(wire, pos + 1)), r.pos) ELSE Bad(pos)
    IN  Made(read_properties(wire, pos + 5, <<>>))

read_elements(wire, pos, n, elems) ==
    IF n = 0 \/ pos = Len(wire) THEN Read(elems, pos)
    ELSE LET More(v) == IF v.ok THEN read_elements(wire, v.pos, n - 1, Append(elems, <<<<>>, v.v>>)) ELSE Bad(pos)
         IN  More(srs_amf0_read_any(wire, pos))

strict_read(wire, pos) ==
    LET n == read_4bytes(wire, pos + 1)
        Made(r) ==
            IF Marked(wire, pos, StrictArray) /\ Left(wire, pos + 1, 4) /\ r.ok
            THEN Read(Value(StrictArray, <<>>, r.v, n), r.pos) ELSE Bad(pos)
    IN  Made(read_elements(wire, pos + 5, n, <<>>))

(* SrsAmf0Any::discovery(): the end mark is looked for first.              *)
srs_amf0_read_any(wire, pos) ==
    IF srs_amf0_is_object_eof(wire, pos) THEN eof_read(wire, pos)
    ELSE IF ~Left(wire, pos, 1) THEN Bad(pos)
    ELSE CASE wire[pos + 1] = String -> srs_amf0_read_string(wire, pos)
           [] wire[pos + 1] = Boolean -> srs_amf0_read_boolean(wire, pos)
           [] wire[pos + 1] = Number -> srs_amf0_read_number(wire, pos)
           [] wire[pos + 1] = Null -> srs_amf0_read_null(wire, pos)
           [] wire[pos + 1] = Undefined -> srs_amf0_read_undefined(wire, pos)
           [] wire[pos + 1] = ObjectMark -> object_read(wire, pos)
           [] wire[pos + 1] = EcmaArray -> ecma_read(wire, pos)
           [] wire[pos + 1] = StrictArray -> strict_read(wire, pos)
           [] wire[pos + 1] = Date -> date_read(wire, pos)
           [] OTHER -> Bad(pos)

-----------------------------------------------------------------------------
(* to_json(): numbers are integers or floats, undefined and dates null.    *)
RECURSIVE to_json(_)
to_json(v) ==
    CASE v.m = String -> [type |-> "string", kids |-> <<>>]
      [] v.m = Boolean -> [type |-> "boolean", kids |-> <<>>]
      [] v.m = Number -> [type |-> "number", kids |-> <<>>]
      [] v.m \in {ObjectMark, EcmaArray} ->
            [type |-> "object", kids |-> [i \in DOMAIN v.p |-> <<v.p[i][1], to_json(v.p[i][2])>>]]
      [] v.m = StrictArray -> [type |-> "array", kids |-> [i \in DOMAIN v.p |-> to_json(v.p[i][2])]]
      [] OTHER -> [type |-> "null", kids |-> <<>>]
=============================================================================
