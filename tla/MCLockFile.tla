----------------------------- MODULE MCLockFile -----------------------------
EXTENDS LockFile
MCReaders == {<<1, 1>>, <<1, 2>>}
=============================================================================
