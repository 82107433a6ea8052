----------------------------- MODULE MCAnnounce -----------------------------
(* A callback and its reload; each job is attempted twice, by workers that   *)
(* run every channel.                                                        *)
EXTENDS Announce, TLC

AttemptsOfJobs == Jobs \X (1..MaxAttempts)
WholeFleet == {Channels}
Symmetry == Permutations(Jobs) \cup Permutations(Channels)
=============================================================================
