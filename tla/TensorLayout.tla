---------------------------- MODULE TensorLayout ----------------------------
(***************************************************************************)
(* tp_tensor_header_validate (src/common/tp_tensor.c): the strides of a    *)
(* tensor that were left open are inferred, the others and the progress    *)
(* stride are checked, and the header is taken or refused.  What it has to *)
(* mean is stated about the addresses of the elements.                     *)
(*                                                                         *)
(* int32_t is modelled with Width bits; a product that leaves the width is *)
(* undefined in C and wraps in the builds at hand.                         *)
(***************************************************************************)
EXTENDS Integers, Sequences, FiniteSets, FiniteSetsExt

CONSTANTS
    MaxDims,   \* TP_MAX_DIMS
    Width,     \* bits of int32_t
    Headers    \* the decoded headers looked at

\* tp_tensor_header_t; its arrays have room for every dimension it may have.
HeaderRecords ==
    [ndims : Nat, dtype : {"UINT8", "INT16", "FLOAT32", "FLOAT64", "UNKNOWN"}, order : {"ROW", "COLUMN", "UNKNOWN"},
     dims : Seq(Int), strides : Seq(Int), unit : {"NONE", "ROWS", "COLUMNS"}, step : Nat]

ASSUME TensorAssumption == MaxDims \in Nat \ {0} /\ Width \in Nat \ {0}
ASSUME HeadersAssumption ==
    \A h \in Headers : /\ h \in HeaderRecords
                       /\ h.ndims <= MaxDims => h.ndims <= Len(h.dims) /\ h.ndims <= Len(h.strides)

VARIABLES
    header,   \* tp_tensor_header_t, its strides filled in once validated
    verdict   \* "open", "taken" or "refused"

tensorVars == <<header, verdict>>

\* tp_dtype_size_bytes; 0 is no type
DtypeSizeBytes(dtype) ==
    [UINT8 |-> 1, INT16 |-> 2, FLOAT32 |-> 4, FLOAT64 |-> 8, UNKNOWN |-> 0][dtype]

Wrap(n) == ((n + 2^(Width - 1)) % 2^Width) - 2^(Width - 1)

\* Positions from the innermost dimension outwards.
Inwards(h) == IF h.order = "ROW" THEN [k \in 1 .. h.ndims |-> h.ndims + 1 - k] ELSE [k \in 1 .. h.ndims |-> k]

\* The distance that clears the next inner dimension, an empty one counted as 1.
Expected(inner, dim) == Wrap(inner * (IF dim > 0 THEN dim ELSE 1))

\* The loop of tp_tensor_fill_strides: from the inside, what is 0 is filled in.
StridesInwards(h) ==
    LET pos == Inwards(h)
        first == IF h.strides[pos[1]] = 0 THEN DtypeSizeBytes(h.dtype) ELSE h.strides[pos[1]]
        f[k \in 1 .. h.ndims] ==
            IF k = 1 THEN first
            ELSE IF h.strides[pos[k]] # 0 THEN h.strides[pos[k]]
            ELSE Expected(f[k - 1], h.dims[pos[k - 1]])
    IN  f

\* tp_tensor_fill_strides.  Inwards is its own inverse.
FilledStrides(h) == [i \in 1 .. h.ndims |-> StridesInwards(h)[Inwards(h)[i]]]

\* Mutant: a given stride may cut into the dimension inside it.
StridesAnyway(h, strides) == h.order \in {"ROW", "COLUMN"}

\* ... and what is given must not be below what the dimension inside needs.
StridesConsistent(h, strides) ==
    LET pos == Inwards(h)
    IN  /\ h.order \in {"ROW", "COLUMN"}
        /\ \A k \in 2 .. h.ndims : h.strides[pos[k]] # 0 =>
              h.strides[pos[k]] >= Expected(strides[pos[k - 1]], h.dims[pos[k - 1]])

\* tp_tensor_validate_progress
ProgressValid(h, strides) ==
    \/ h.unit = "NONE"
    \/ h.step > 0 /\ h.unit = "ROWS" /\ strides[1] = h.step
    \/ h.step > 0 /\ h.unit = "COLUMNS" /\ h.ndims >= 2 /\ strides[2] = h.step

\* tp_tensor_header_validate.  On refusal the code may have filled some strides already;
\* its caller drops the header, so it stays as it was here.
Validate ==
    /\ verdict = "open"
    /\ LET shaped == header.ndims \in 1 .. MaxDims
           sized == /\ DtypeSizeBytes(header.dtype) > 0
                    /\ \A i \in 1 .. header.ndims : header.dims[i] >= 0 /\ header.strides[i] >= 0
           strides == FilledStrides(header)
       IN  IF shaped /\ sized /\ StridesConsistent(header, strides) /\ ProgressValid(header, strides)
           THEN header' = [header EXCEPT !.strides = strides] /\ verdict' = "taken"
           ELSE verdict' = "refused" /\ UNCHANGED header

TensorInit == header \in Headers /\ verdict = "open"

(***************************************************************************)
(* Reference: where the elements are                                       *)
(***************************************************************************)
Indices(h) == {ix \in [1 .. h.ndims -> 0 .. Max({h.dims[i] : i \in 1 .. h.ndims} \cup {1}) - 1] :
                  \A i \in 1 .. h.ndims : ix[i] < h.dims[i]}
ByteOffset(h, ix) ==
    LET pos == Inwards(h)
        part == [k \in 1 .. h.ndims |-> ix[pos[k]] * h.strides[pos[k]]]
        sum[k \in 0 .. h.ndims] == IF k = 0 THEN 0 ELSE sum[k - 1] + part[k]
    IN  sum[h.ndims]

\* The two things the code leaves to the producer: an innermost stride that is
\* given is not compared with the element's size, and products are not checked.
InnerFits(h) == h.strides[Inwards(h)[1]] >= DtypeSizeBytes(h.dtype)
InRange(h) == \A i \in 1 .. h.ndims : h.strides[i] * Max({h.dims[i], 1}) < 2^(Width - 1)

\* In a header that is taken no two elements share a byte
\* (docs/SHM_Tensor_Pool_Wire_Spec_v1.2.md 8.2: headers whose strides would overlap
\* are rejected), as long as the producer keeps to the two conditions above.
ElementsDisjoint ==
    verdict = "taken" /\ InnerFits(header) /\ InRange(header) =>
        \A a, b \in Indices(header) : a # b =>
            LET x == ByteOffset(header, a)  y == ByteOffset(header, b)
            IN  IF x > y THEN x - y >= DtypeSizeBytes(header.dtype) ELSE y - x >= DtypeSizeBytes(header.dtype)

\* Progress counted in the outermost dimension means what a consumer takes it for:
\* every element of the first k rows (columns) lies in the first k steps of bytes,
\* and no other element begins there.
OuterUnit(h) ==
    \/ h.order = "ROW" /\ h.unit = "ROWS"
    \/ h.order = "COLUMN" /\ h.unit = "COLUMNS" /\ h.ndims = 2
PrefixHoldsWholeUnits ==
    verdict = "taken" /\ OuterUnit(header) /\ InnerFits(header) /\ InRange(header) =>
        LET outer == IF header.unit = "ROWS" THEN 1 ELSE 2
        IN  \A ix \in Indices(header) :
                /\ ByteOffset(header, ix) >= ix[outer] * header.step
                /\ ByteOffset(header, ix) + DtypeSizeBytes(header.dtype) <= (ix[outer] + 1) * header.step

\* A header that tp_tensor_header_validate takes can be relied on for where elements
\* are and for what a progress report covers.
LayoutSound == ElementsDisjoint /\ PrefixHoldsWholeUnits

=============================================================================
