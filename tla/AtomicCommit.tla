---------------------------- MODULE AtomicCommit ----------------------------
(***************************************************************************)
(* What `patch.apply` and `patch.rollback` promise of a workspace (README, *)
(* "Apply the patch transactionally" and "Roll a commit back"): the files  *)
(* change by whole commits and whole rollbacks, nothing in between is ever *)
(* to be seen, and the log holds what each commit replaced and with what.  *)
(***************************************************************************)
CONSTANTS
  File, Text, NoFile,  \* paths, what they may hold, and that one does not exist
  Id, NoEntry          \* commit ids, and that the log holds nothing under one

VARIABLES files, log

Image == [File -> Text \cup {NoFile}]
Entry == [before : Image, after : Image]

Init ==
  /\ files \in Image
  /\ log = [i \in Id |-> NoEntry]

\* The files image speaks of hold what it says.
Holds(image) == \A f \in File : image[f] # NoFile => files[f] = image[f]

Install(image) ==
  files' = [f \in File |-> IF image[f] # NoFile THEN image[f] ELSE files[f]]

\* A commit touches the same files before and after. It is recorded, or the log
\* could not be written and the commit stands all the same.
Commit(i, e) ==
  /\ log[i] = NoEntry
  /\ \A f \in File : (e.before[f] = NoFile) <=> (e.after[f] = NoFile)
  /\ Holds(e.before)
  /\ Install(e.after)
  /\ log' \in {log, [log EXCEPT ![i] = e]}

\* A rollback applies to a commit whose result is still there, and undoes all of it.
Rollback(i) ==
  /\ log[i] # NoEntry
  /\ Holds(log[i].after)
  /\ Install(log[i].before)
  /\ log' \in {log, [log EXCEPT ![i] = NoEntry]}

Next ==
  \/ \E i \in Id : \E e \in Entry : Commit(i, e)
  \/ \E i \in Id : Rollback(i)

Spec == Init /\ [][Next]_<<files, log>>
=============================================================================
