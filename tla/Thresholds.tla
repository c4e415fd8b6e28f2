----------------------------- MODULE Thresholds -----------------------------
(***************************************************************************)
(* The share-count arithmetic of utilities/src/lib.rs, used by the         *)
(* witnesser, the keygen response status and the signing ceremonies.       *)
(***************************************************************************)
EXTENDS Integers

\* The largest number of shares that cannot produce a signature.
threshold_from_share_count(share_count) ==
  IF share_count = 0 THEN 0 ELSE (2 * share_count - 1) \div 3

\* The number of parties needed for a ceremony to succeed.
success_threshold_from_share_count(share_count) ==
  threshold_from_share_count(share_count) + 1

\* The number of bad parties needed for a ceremony to fail.
failure_threshold_from_share_count(share_count) ==
  share_count - threshold_from_share_count(share_count)

=============================================================================
