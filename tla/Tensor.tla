------------------------------- MODULE Tensor -------------------------------
(***************************************************************************)
(* Matrix3D of common.h as a value: three dimensions over one flat array   *)
(* in row-major order, and the operations by which attention rearranges    *)
(* it.  Indices count from 0, as in the code.                              *)
(***************************************************************************)
EXTENDS Integers

Size(m) == m.x * m.y * m.z

\* operator(): the element behind three indices.
At(m, i, j, k) == m.data[(i * m.y * m.z) + (j * m.z) + k]

\* A matrix of dimensions x, y and z whose element i, j, k is Value(i, j, k).
Filled(x, y, z, Value(_, _, _)) ==
  [x |-> x, y |-> y, z |-> z,
   data |-> [a \in 0..(x * y * z - 1) |-> Value(a \div (y * z), (a \div z) % y, a % z)]]

\* The columns start_z .. end_z - 1 of the last dimension, copied.
Slice(m, start_z, end_z) ==
  LET Column(i, j, k) == At(m, i, j, start_z + k)
  IN  Filled(m.x, m.y, end_z - start_z, Column)

\* New dimensions over the data as it lies; the sizes must agree.
View(m, x, y, z) == [m EXCEPT !.x = x, !.y = y, !.z = z]

\* Rows of the last dimension are copied from the source's strides to the
\* result's, which exchanges the first two dimensions.
Permute01(m) ==
  LET outer_stride == m.y * m.z
      inner_stride == m.z
      SourceOf(i, j, k) == m.data[(j * outer_stride) + (i * inner_stride) + k]
  IN  Filled(m.y, m.x, m.z, SourceOf)
=============================================================================
