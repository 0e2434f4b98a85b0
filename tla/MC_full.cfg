SPECIFICATION Spec
CONSTANTS
  Programs <- FullPrograms
  MaxStack = 3
  code_gen_max_blocks = 6
  code_gen_buffer_size = 13
  code_gen_buffer_max_size = 12
  PATCH_ARRAY_SIZE = 4
  MAX_INSNS = 4
  PATCH_MAX = 3
  TB_FROM_MAX = 2
  IND_SLOT_MAX = 2
  OffsetRange = 65536
  RET_CACHE_SIZE = 2
  SIEVE_SIZE = 2
  STB_MAX = 6
  SIEVE_BUFFER_SIZE = 3
INVARIANTS
  IInv
PROPERTIES
  TcPtrIsFinal
