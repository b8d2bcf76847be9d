-------------------------- MODULE MCVoiceConfirmation --------------------------
(* Small instances of VoiceConfirmation: calls are interchangeable.        *)
EXTENDS VoiceConfirmation, TLC

CallSymmetry == Permutations(Calls)
=============================================================================
