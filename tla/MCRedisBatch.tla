---------------------------- MODULE MCRedisBatch ----------------------------
\* RedisBatch for TLC; the configuration gives the constants.
EXTENDS RedisBatch
=============================================================================
