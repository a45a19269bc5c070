-------------------------- MODULE GopherTaskQueue --------------------------
(***************************************************************************)
(* The model agent's priority queue (pkg/modelagent/gopher_task_queue.go). *)
(* The code's lists hold pointers to task objects that their holders       *)
(* mutate; here a list holds sequence numbers, and tasks[s] is the object  *)
(* whose Sequence is s.                                                    *)
(***************************************************************************)
EXTENDS Naturals, Sequences, FiniteSets

NewQueue ==
  [ high |-> <<>>, normalDownload |-> <<>>, normalRevalidation |-> <<>>,
    closed |-> FALSE ]

\* Storage types whose files the agent writes: OCI object storage ("object"), of
\* which a ModelPack download is the case that always transfers, and Hugging Face
\* ("hub").  "plain" is Local, PVC and Vendor.
isDirectFileTask(t) == ~ t.shared /\ t.kind \in {"object", "hub"}

usesArtifactTaskCoordinator(t) == t.shared \/ isDirectFileTask(t)

isObjectStorageDownloadTask(t) ==
  /\ t.type = "Download"
  /\ ~ t.normalOnly /\ ~ t.replay
  /\ t.kind = "object"

shouldUseHighPriorityQueue(t) ==
  \/ t.type = "Delete"
  \/ isObjectStorageDownloadTask(t)
  \/ ~ t.normalOnly /\ ~ t.replay /\ t.waited

\* Mutant: a delete prunes the work that was asked for after it.
SupersededAll(tasks, s, d) ==
  tasks[s].type # "Delete" /\ tasks[s].model = tasks[d].model

\* A delete keeps other deletes and other models' tasks; if it is coordinated
\* it also keeps the work that was asked for after it.
Superseded(tasks, s, d) ==
  /\ tasks[s].type # "Delete"
  /\ tasks[s].model = tasks[d].model
  /\ ~ (usesArtifactTaskCoordinator(tasks[d]) /\ s > d)

\* The tasks of a list that a delete keeps, in their order.
removeSupersededTasks(list, tasks, d) ==
  LET kept     == {i \in DOMAIN list : ~ Superseded(tasks, list[i], d)}
      place    == [i \in kept |-> Cardinality({j \in kept : j <= i})]
  IN  [n \in 1 .. Cardinality(kept) |-> list[CHOOSE i \in kept : place[i] = n]]

enqueue(q, tasks, s) ==
  IF q.closed THEN q
  ELSE IF tasks[s].type = "Delete"
  THEN [q EXCEPT
          !.high = <<s>> \o removeSupersededTasks(@, tasks, s),
          !.normalDownload = removeSupersededTasks(@, tasks, s),
          !.normalRevalidation = removeSupersededTasks(@, tasks, s)]
  ELSE IF shouldUseHighPriorityQueue(tasks[s])
  THEN [q EXCEPT !.high = Append(@, s)]
  ELSE IF tasks[s].replay
  THEN [q EXCEPT !.normalRevalidation = Append(@, s)]
  ELSE [q EXCEPT !.normalDownload = Append(@, s)]

normalTasks(q) == q.normalDownload \o q.normalRevalidation

\* popNormal takes the first of the two lists that is not empty.
popNormal(q) ==
  IF q.normalDownload # <<>>
  THEN [q EXCEPT !.normalDownload = Tail(@)]
  ELSE [q EXCEPT !.normalRevalidation = Tail(@)]

popHighPriority(q) == [q EXCEPT !.high = Tail(@)]

Queued(q) ==
  {q.high[i] : i \in DOMAIN q.high}
    \cup {q.normalDownload[i] : i \in DOMAIN q.normalDownload}
    \cup {q.normalRevalidation[i] : i \in DOMAIN q.normalRevalidation}
=============================================================================
