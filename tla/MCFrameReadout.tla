--------------------------- MODULE MCFrameReadout ---------------------------
(* FrameReadout with VGA and QVGA, the resolutions of config.txt:27, a tenth of *)
(* their size: 48 lines, a buffer for 12 lines of 64 pixels or 24 of 32.        *)
EXTENDS FrameReadout

ScaledResolutions == {[width |-> 64, line_skip |-> 1], [width |-> 32, line_skip |-> 2]}
=============================================================================
