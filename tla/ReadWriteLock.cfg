SPECIFICATION FairSpec
CONSTANT Threads = {t1, t2, t3}
INVARIANTS NoLostWakeup
PROPERTIES WriterPreference WriterProgress ReaderProgress Implements
