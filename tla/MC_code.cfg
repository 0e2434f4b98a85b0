SPECIFICATION MCSpec
CONSTANTS
  PCs = {1, 2, 3, 4}
  EntryPC = 1
  Buckets = {0, 1}
  Lines = {0, 1}
  tb_phys_hash_func <- MCPhysHash
  tb_jmp_cache_hash_func <- MCJmpCacheHash
  code_gen_max_blocks = 4
  code_gen_buffer_max_size = 3
  MaxBlockSize = 2
  PageOf <- MCPageOf
  Falls <- MCFalls
  MaxVersion = 2
INVARIANTS TypeOK OneBlockPerPC ChainsPartitionBlocks LookupIsExact DecodersAgree ProfileTellsTheTruth
PROPERTIES ImplementsTBMap CopiesAreSound
CHECK_DEADLOCK FALSE
