-------------------------- MODULE MCArchiveDiskCache --------------------------
(* Model-checking instances of ArchiveDiskCache. *)
EXTENDS ArchiveDiskCache, FiniteSetsExt, TLC

CONSTANTS a, b,      \* two entries; b is encrypted and twice as long as a
          s1, s2     \* two of the 64 stripes

MCKeys == {a, b}
MCEncrypted == {b}
MCStripes == {s1, s2}
MCStripeOf == [k \in MCKeys |-> IF k = a THEN s1 ELSE s2]
MCLength(k) == IF k = b THEN 2 ELSE 1
MCBytes == [S \in SUBSET MCKeys |-> MapThenSumSet(MCLength, S)]

\* Either file fits, both do not.
MCMaxBytes == 2

FetcherSymmetry == Permutations(Fetchers)
=============================================================================
