----------------------------- MODULE MCUiRuns -----------------------------
(* Instances of UiRuns for TLC; the configurations give the bounds.        *)
EXTENDS UiRuns
=============================================================================
