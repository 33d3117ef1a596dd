-------------------------------- MODULE MCApps --------------------------------
(* Loaded programs on small desktops. *)
EXTENDS Apps
=============================================================================
