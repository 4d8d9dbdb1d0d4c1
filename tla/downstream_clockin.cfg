\* The sports clock-in alone.
SPECIFICATION ChangeSpec
CONSTANT Service = {"ygdk"}
INVARIANT HonestReport
