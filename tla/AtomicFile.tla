----------------------------- MODULE AtomicFile -----------------------------
(***************************************************************************)
(* What sign_pdf_file promises to its callers (its doc comment,            *)
(* src/src/sign.rs:127-131), whatever happens in between: a call reads its *)
(* input, and later either replaces its output, in one step, with the      *)
(* signed version of what it read, or changes no file at all.              *)
(***************************************************************************)
EXTENDS Sequences

CONSTANTS
  Calls, Paths,
  InputOf, OutputOf,  \* the paths a call is given
  None                \* no file

VARIABLES
  file,    \* path -> the document there: its origin and who signed it, or None
  status,  \* call -> "idle", "busy", "done" or "failed"
  seen     \* call -> the document it read

vars == <<file, status, seen>>

Init ==
  /\ file \in [Paths -> {<<p>> : p \in Paths} \cup {None}]
  /\ \A p \in Paths : file[p] \in {<<p>>, None}
  /\ status = [c \in Calls |-> "idle"] /\ seen = [c \in Calls |-> None]

Read(c) ==
  /\ status[c] = "idle" /\ file[InputOf[c]] # None
  /\ status' = [status EXCEPT ![c] = "busy"]
  /\ seen' = [seen EXCEPT ![c] = file[InputOf[c]]]
  /\ UNCHANGED file

Replace(c) ==
  /\ status[c] = "busy"
  /\ status' = [status EXCEPT ![c] = "done"]
  /\ file' = [file EXCEPT ![OutputOf[c]] = Append(seen[c], c)]
  /\ UNCHANGED seen

\* Some calls fail, at once if their process dies.
Fail(cs) ==
  /\ \A c \in cs : status[c] \in {"idle", "busy"}
  /\ status' = [c \in Calls |-> IF c \in cs THEN "failed" ELSE status[c]]
  /\ UNCHANGED <<file, seen>>

Next ==
  \/ \E c \in Calls : Read(c) \/ Replace(c)
  \/ \E cs \in SUBSET Calls : Fail(cs)

Spec == Init /\ [][Next]_vars
=============================================================================
