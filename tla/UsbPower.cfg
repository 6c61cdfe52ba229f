SPECIFICATION Spec
INVARIANTS NeverHangs DeepSleepHasWayOut
PROPERTY PowerFollowsBus
