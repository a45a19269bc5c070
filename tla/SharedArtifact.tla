--------------------------- MODULE SharedArtifact ---------------------------
(***************************************************************************)
(* What shared storage promises to the models that use an artifact,        *)
(* whoever downloads, repairs, recovers or deletes it                      *)
(* (docs/administration/shared-hf-artifacts.md): the files change only     *)
(* while the artifact is not offered, it is offered only when it is whole, *)
(* models begin to use it only while it is offered, and it is removed only *)
(* when no model uses it.  Module HfArtifact implements this.              *)
(***************************************************************************)
CONSTANT Models

VARIABLES
  content,   \* what is on the disk
  offered,   \* whether models may begin to use it
  users      \* the models whose path leads to it

Init == content = "none" /\ offered = FALSE /\ users = {}

\* Files are written, replaced or removed.
Work ==
  /\ ~ offered
  /\ content' \in {"none", "partial", "whole"}
  /\ content' = "none" => users = {}
  /\ UNCHANGED <<offered, users>>

Offer ==
  /\ content = "whole"
  /\ offered' = TRUE
  /\ UNCHANGED <<content, users>>

Withdraw ==
  /\ offered' = FALSE
  /\ UNCHANGED <<content, users>>

Begin(m) ==
  /\ offered
  /\ users' = users \cup {m}
  /\ UNCHANGED <<content, offered>>

Stop(m) ==
  /\ users' = users \ {m}
  /\ UNCHANGED <<content, offered>>

Next == Work \/ Offer \/ Withdraw \/ \E m \in Models : Begin(m) \/ Stop(m)

Spec == Init /\ [][Next]_<<content, offered, users>>
=============================================================================
