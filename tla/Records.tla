------------------------------ MODULE Records ------------------------------
(***************************************************************************)
(* Records put together from parts: what a port chose about one concern is *)
(* a record of its own, and the policy of the port has the fields of all.  *)
(***************************************************************************)

\* The fields of both records; no two parts of a policy share one.
r ++ s ==
  [x \in DOMAIN r \cup DOMAIN s |-> IF x \in DOMAIN r THEN r[x] ELSE s[x]]
=============================================================================
