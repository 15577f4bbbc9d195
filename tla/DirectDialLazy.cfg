\* The same, asked what the documentation promises.
SPECIFICATION Spec
INVARIANT HappyEyeballs
CHECK_DEADLOCK FALSE
