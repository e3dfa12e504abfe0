----------------------------- MODULE MCAtomicFile -----------------------------
EXTENDS AtomicFile
MCInitialContent == <<1, 1>>
MCWrites == {<<1, 1, 2>>, <<1, 1, 1>>, <<5, 5, 2>>}
MCWideWrites == {<<1, 2, 2>>}
MCSizes == {1, 10}
===============================================================================
