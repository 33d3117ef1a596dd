-------------------------------- MODULE MCNet --------------------------------
(* One network, a web server on our subnet and one beyond the gateway. *)
EXTENDS Net

(* Two segments, which fit the buffer of two bytes or do not. *)
CutReplies == {[cuts |-> <<1, 2, 3>>, finLast |-> TRUE],
               [cuts |-> <<1, 2, 4>>, finLast |-> FALSE]}
=============================================================================
