CONSTANTS
  r1 = r1
  r2 = r2
  Hash <- MC_Hash
  Reg <- MC_Reg
  MaxIter <- MC_MaxIter
SYMMETRY MC_Symmetry
SPECIFICATION Spec
INVARIANTS
  TypeOK
  Uniqueness
PROPERTIES
  ImplementsContract
