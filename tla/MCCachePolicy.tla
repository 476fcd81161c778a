---------------------------- MODULE MCCachePolicy ---------------------------
(* CachePolicy for TLC: file sizes as fractions of an 8-value word.        *)
EXTENDS CachePolicy

\* Sizes that cannot wrap: the largest plus a full tier stays below Modulus.
SmallSizes == {1, 2, 3}
=============================================================================
