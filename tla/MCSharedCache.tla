---------------------------- MODULE MCSharedCache ----------------------------
EXTENDS SharedCache
=============================================================================
