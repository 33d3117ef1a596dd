-------------------------------- MODULE MCBoot --------------------------------
(* One user with two passwords, one kernel to install. *)
EXTENDS Boot

BootContents ==
    Records \cup Images \cup HostFiles \cup {Empty, Forged, Partial, Huge}
=============================================================================
