SPECIFICATION Spec
INVARIANTS
  MemoryIsOwned
  FieldsAreRight
  EncoderIsExact
  ConversionsAgree
CHECK_DEADLOCK FALSE
