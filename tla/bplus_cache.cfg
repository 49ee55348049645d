SPECIFICATION Spec
CONSTANT MIN_CACHE_NUM = 5
INVARIANTS
    CacheNeverExhausted
    NoBufferLeak
