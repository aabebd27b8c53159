-------------------------- MODULE MCExtrinsicFrame ---------------------------
(* Texts for TLC: every length up to past the limit of the two-byte mode, and *)
(* lengths around the powers of two that matter above it.                     *)
EXTENDS ExtrinsicFrame

Around(n) == {n + d : d \in -20..20}

MCLengths ==
    (0..600) \cup Around(32752) \cup Around(65536) \cup Around(131072)
    \cup Around(33554432) \cup Around(536870912) \cup Around(1073741824)
    \cup {2147483647 - d : d \in 0..40}

=============================================================================
