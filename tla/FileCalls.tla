------------------------------- MODULE FileCalls -------------------------------
(***************************************************************************)
(* The calls on the files of one directory: a name has contents or is      *)
(* absent, one call runs at a time, and a call that succeeds takes effect  *)
(* at one moment.  A call that fails or is cut off by a loss of power      *)
(* leaves a name that was absent absent, may leave a name that had         *)
(* contents with others, and touches no further name.                      *)
(***************************************************************************)
EXTENDS Integers

CONSTANTS
    Names,     \* the names a directory can have
    Contents,  \* what a file can be written to hold
    Empty,     \* of Contents: a file of no bytes
    Lost       \* reads as nothing that was ever written

Absent == <<"absent">>

VARIABLES
    files,  \* name -> its contents
    busy    \* the call that runs: <<operation, name, new contents>>, or <<>>

callVars == <<files, busy>>

Idle == <<>>
Ops == {"touch", "write", "rm"}
Readable == Contents \cup {Lost}

NoFiles ==
    /\ files = [n \in Names |-> Absent]
    /\ busy = Idle

Begin(op, n, c) ==
    /\ busy = Idle /\ busy' = <<op, n, c>>
    /\ UNCHANGED files

(* What the call makes of the name.                                        *)
Effect(call, old) ==
    CASE call[1] = "touch" -> IF old = Absent THEN Empty ELSE old
      [] call[1] = "write" -> call[3]
      [] call[1] = "rm" -> Absent

Succeed ==
    /\ busy # Idle /\ busy' = Idle
    /\ busy[1] = "rm" => files[busy[2]] # Absent
    /\ files' = [files EXCEPT ![busy[2]] = Effect(busy, @)]

(* Nothing happened; or the old contents were given up and the new ones    *)
(* not put in their place.                                                 *)
Fail ==
    /\ busy # Idle /\ busy' = Idle
    /\ \/ UNCHANGED files
       \/ /\ busy[1] # "touch" /\ files[busy[2]] # Absent
          /\ \E c \in Readable : files' = [files EXCEPT ![busy[2]] = c]
=============================================================================
