------------------------------ MODULE MCGopher ------------------------------
(***************************************************************************)
(* Instances of Gopher for TLC.                                            *)
(***************************************************************************)
EXTENDS Gopher

CONSTANTS m1, m2, d1, disp, w1, h1, nil

In(type, kind, shared, confirmed) ==
  [type |-> type, kind |-> kind, shared |-> shared, confirmed |-> confirmed]

OneModel == {m1}
TwoModels == {m1, m2}
OnePath == {d1}
NoModels == {}
JustM1 == {m1}
JustM2 == {m2}

PathOfOne == [m \in OneModel |-> d1]
PathOfTwo == [m \in TwoModels |-> d1]
CreatedOne == [m \in OneModel |-> 1]
CreatedTwo == [m \in TwoModels |-> IF m = m1 THEN 1 ELSE 2]

NormalPool == {w1}
HighPool == {h1}
AllProcs == {disp, w1, h1}

\* One file-managed model: object storage, or a hub that changes its copy.
FileInputs ==
  { In("Download", "object", FALSE, FALSE),
    In("DownloadOverride", "hub", FALSE, FALSE),
    In("Delete", "object", FALSE, TRUE) }
NoSteps == {}
DeleteOnly == {"delete"}

\* Object storage models, possibly of one directory.
ObjectInputs ==
  { In("Download", "object", FALSE, FALSE),
    In("Delete", "object", FALSE, TRUE) }

\* A model whose storage changes between no files, its own and shared files.
KindInputs ==
  { In("Download", "plain", FALSE, FALSE),
    In("Delete", "plain", FALSE, TRUE),
    In("DownloadOverride", "hub", TRUE, FALSE),
    In("Delete", "hub", FALSE, FALSE) }
DownloadInputs == {In("Download", "object", FALSE, FALSE)}
OverrideInputs == ObjectInputs \cup {In("DownloadOverride", "object", FALSE, FALSE)}
EveryStep == {"delete", "vanish", "replace"}
StopToo == {"delete", "stop"}
=============================================================================
