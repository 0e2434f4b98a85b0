SPECIFICATION LiveSpec
CONSTANTS
  Programs <- LimitPrograms
  MaxStack = 3
  code_gen_max_blocks = 20
  code_gen_buffer_size = 120
  code_gen_buffer_max_size = 100
  PATCH_ARRAY_SIZE = 3
  MAX_INSNS = 1
  PATCH_MAX = 3
  TB_FROM_MAX = 2
  IND_SLOT_MAX = 2
  OffsetRange = 65536
  RET_CACHE_SIZE = 2
  SIEVE_SIZE = 2
  STB_MAX = 40
  SIEVE_BUFFER_SIZE = 60
PROPERTIES
  ImplementsLiveGuest
