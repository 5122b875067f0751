-------------------------- MODULE MCValidatorStore --------------------------
(* Model values for the validator store: IDs and signers are symmetric.   *)
EXTENDS ValidatorStore, TLC

CONSTANTS i1, i2, s1, s2, s3

MCIDs == {i1, i2}
MCSigners == {s1, s2, s3}

MCSymmetry == Permutations(MCIDs) \cup Permutations(MCSigners)
====
