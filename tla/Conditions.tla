----------------------------- MODULE Conditions -----------------------------
(***************************************************************************)
(* The status conditions of the lib-common library, as the controllers use *)
(* them.  The library is not part of this repository.  A condition is      *)
(* reduced to what the controllers tell apart: its status, and for a       *)
(* condition that is False its severity and whether its reason is          *)
(* JobReasonBackoffLimitExceeded:                                          *)
(*                                                                         *)
(*   Absent     the condition list has no entry of this type               *)
(*   Unknown    status Unknown (reason Init)                               *)
(*   True       status True                                                *)
(*   Requested  status False, severity Info, reason Requested              *)
(*   Warning    status False, severity Warning, reason Error               *)
(*   Error      status False, severity Error, reason Error                 *)
(*   Backoff    status False, severity Error, reason BackoffLimitExceeded  *)
(***************************************************************************)

FalseConds == {"Requested", "Warning", "Error", "Backoff"}

Cond == {"Absent", "Unknown", "True"} \cup FalseConds

IsTrue(c) == c = "True"

IsFalse(c) == c \in FalseConds

\* A condition that is not in the list counts as Unknown.
IsUnknown(c) == c \in {"Absent", "Unknown"}

\* False with severity Error.
IsError(c) == c \in {"Error", "Backoff"}

(***************************************************************************)
(* The most critical of the conditions in the set S: False before Unknown  *)
(* before True, and among the False ones Error before Warning before Info. *)
(***************************************************************************)
Mirror(S) ==
  IF "Backoff" \in S THEN "Backoff"
  ELSE IF "Error" \in S THEN "Error"
  ELSE IF "Warning" \in S THEN "Warning"
  ELSE IF "Requested" \in S THEN "Requested"
  ELSE IF "Unknown" \in S THEN "Unknown"
  ELSE IF "True" \in S THEN "True"
  ELSE "Absent"

\* A field of a status that helper.PatchInstance writes as a merge patch: only
\* what differs from the copy that was read.
Merge(old, new, stored) == IF new = old THEN stored ELSE new

=============================================================================
