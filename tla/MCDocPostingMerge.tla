-------------------------- MODULE MCDocPostingMerge --------------------------
EXTENDS DocPostingMerge

MCPositions == 0..4
MCJunk == {0, 9}
MCDeltaKinds == {"deltas", "single"}
MCAbsoluteKinds == {"absolute"}
MCMergeMode == {"merge"}
MCProximityMode == {"proximity"}

MCBothModes == {"merge", "proximity"}
====
