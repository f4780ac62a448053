------------------------- MODULE MCArtifactCapture -------------------------
(* Two candidates of any kind, files of up to two blocks in chunks of two *)
(* and two changes to the tree while they are captured.                     *)
EXTENDS ArtifactCapture
=============================================================================
