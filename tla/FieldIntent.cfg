\* One node with two levels of nesting, one scalar besides null.
CONSTANTS
  x = x
  Null = Null
  Scalars = {x, Null}
  Schema <- MCSchema
  Nullable <- MCNullable
SPECIFICATION Spec
INVARIANTS EditsStayProjectable PatchIsExact UnrelatedPatchesCommute
