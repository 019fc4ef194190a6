------------------------ MODULE MCDeploymentMutation ------------------------
(* Small instances of DeploymentMutation.                                   *)
EXTENDS DeploymentMutation

VARIABLE apart   \* the two commands run on two machines

\* Two commands on one machine, an instance that is deleted and created again.
Together == [o \in {"a", "b"} |-> "here"]

\* Two commands on two machines, and a controller that writes the status.
Apart == INSTANCE DeploymentMutation WITH
    Host <- [a |-> "here", b |-> "there"], MaxUid <- 1, MaxStatus <- 1

SpecEither ==
    /\ \/ apart = FALSE /\ Init
       \/ apart = TRUE /\ Apart!Init
    /\ [][/\ IF apart THEN Apart!Next ELSE Next
          /\ UNCHANGED apart]_<<vars, apart>>
=============================================================================
