---------------------------- MODULE MC_StateCache ----------------------------
EXTENDS StateCache
=============================================================================
