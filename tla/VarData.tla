------------------------------- MODULE VarData -------------------------------
(***************************************************************************)
(* The variables in a frame (VarData.h, Types.h) and the conversions of    *)
(* the getters, which LiveClient.cpp and DiskClient.cpp spell out alike.   *)
(*                                                                         *)
(* Numbers are counted in halves, so that floats have a fraction, and are  *)
(* small: a float holds every int, and an int every float without its      *)
(* fraction.  A bool is 0 or 1.                                            *)
(***************************************************************************)
EXTENDS Integers, Sequences

VarDataTypeBytes ==
    [Char |-> 1, Bool |-> 1, Int32 |-> 4, Bitmask |-> 4, Float |-> 4, Double |-> 8]

One == 2

(* The header of a variable; shape gives type and count of each name.      *)
VarDataHeader(name, shape, offset) ==
    [name |-> name, type |-> shape[name].type, count |-> shape[name].count,
     offset |-> offset]

(* The headers of variables that follow each other in a row.               *)
Headers(names, shape) ==
    LET Size(j) == shape[names[j]].count * VarDataTypeBytes[shape[names[j]].type]
        offset[i \in 1 .. Len(names)] ==
            IF i = 1 THEN 0 ELSE offset[i - 1] + Size(i - 1)
    IN  [i \in DOMAIN names |-> VarDataHeader(names[i], shape, offset[i])]

(* Mutant: an entry is taken to be a byte.                                 *)
AddressInBytes(header, entry) == header.offset + entry

(* data + offset, as a pointer to the type, at [entry].                    *)
Address(header, entry) == header.offset + entry * VarDataTypeBytes[header.type]

(* What stands at an address of a row as a value of the type: the value of *)
(* the element that begins there, garbage when there is none.              *)
Stored(headers, row, address, type, garbage) ==
    LET ofRow == UNION {{i} \X (0 .. headers[i].count - 1) : i \in DOMAIN headers}
        elements == {el \in ofRow :
                       /\ headers[el[1]].type = type
                       /\ headers[el[1]].offset + el[2] * VarDataTypeBytes[type] = address}
    IN  IF elements = {} THEN garbage
        ELSE LET c == CHOOSE element \in elements : TRUE IN row[headers[c[1]].name][c[2] + 1]

(* getVarBool: "technically there is no right conversion".                 *)
ToBool(type, v) ==
    IF v >= One \/ (v # 0 /\ type \notin {"Float", "Double"}) THEN One ELSE 0

(* getVarInt: towards zero.                                                *)
ToInt(type, v) == One * (IF v >= 0 THEN v \div One ELSE -((-v) \div One))

(* getVarFloat and getVarDouble.                                           *)
ToFloat(type, v) == v

Kinds == {"bool", "int", "float"}
Convert(kind, type, v) ==
    CASE kind = "bool" -> ToBool(type, v)
      [] kind = "int" -> ToInt(type, v)
      [] kind = "float" -> ToFloat(type, v)
=============================================================================
