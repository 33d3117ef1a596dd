--------------------------------- MODULE Calls ---------------------------------
(* A pure function is called once, with arguments from a small set. *)
VARIABLES call,  \* the function called and its arguments
          result
vars == <<call, result>>

Idle == call = <<"none">>
Init == Idle /\ result = <<>>
Call(name, args, answer) == call' = <<name, args>> /\ result' = answer

Called(name) == call[1] = name
Args == call[2]
=============================================================================
