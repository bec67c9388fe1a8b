---------------------------- MODULE AtomicWrite ----------------------------
(***************************************************************************)
(* sign_pdf_file and write_atomic of src/src/sign.rs: the input is read,   *)
(* its signed version written to a temporary file next to the output, and  *)
(* the temporary file renamed over it.  Calls run in processes that may be *)
(* killed; the temporary name is made of the output's and the process id.  *)
(*                                                                         *)
(* A file is written in chunks.  A chunk is the document it comes from:    *)
(* the path it first was at, and the calls that signed it; << >> is a hole *)
(* of zeros.  A file is known by its creator: the path it was at to begin  *)
(* with, or the call that opened it.                                       *)
(*                                                                         *)
(* A definition right before another of the same parameters is the other   *)
(* with a likely mistake in it, used by no specification.                  *)
(***************************************************************************)
EXTENDS Integers, Sequences

CONSTANTS
  Calls, Paths,
  InputOf, OutputOf,  \* the paths a call is given
  ProcessOf,          \* the process id it runs under
  None,               \* no file
  Chunks,             \* how many chunks a document is written in
  OneThread           \* a process makes its calls one after the other

Tmp(c) == <<OutputOf[c], ProcessOf[c]>>
Names  == Paths \cup {Tmp(c) : c \in Calls}
Files  == Paths \cup Calls

ASSUME CallsAssumption ==
  /\ InputOf \in [Calls -> Paths] /\ OutputOf \in [Calls -> Paths]
  /\ Chunks \in Nat \ {0} /\ OneThread \in BOOLEAN
ASSUME NamesAssumption ==
  /\ Paths \cap Calls = {} /\ None \notin Files /\ None \notin Seq(Files)
  /\ \A c \in Calls : Tmp(c) \notin Paths

VARIABLES
  dir,      \* name -> the file that has it, or None
  content,  \* file -> its chunks
  pc,       \* call -> what it is at
  seen,     \* call -> the chunks it read
  fd, off   \* call -> the file it has open for writing, and its offset there

vars == <<dir, content, pc, seen, fd, off>>

Whole(s) ==
  /\ Len(s) = Chunks /\ s[1] # << >>
  /\ \A k \in 1..Chunks : s[k] = s[1]

\* sign_pdf_bytes: the same call signs every part of what it read.
Signed(c) == [k \in 1..Len(seen[c]) |-> Append(seen[c][k], c)]

Active == {c \in Calls : pc[c] \in {"read", "writing", "renaming", "cleanup"}}
Goto(c, label) == pc' = [pc EXCEPT ![c] = label]

-----------------------------------------------------------------------------

\* std::fs::read of the input.
Read(c) ==
  /\ pc[c] = "idle" /\ dir[InputOf[c]] # None
  /\ OneThread => \A d \in Active : ProcessOf[d] # ProcessOf[c]
  /\ Goto(c, "read") /\ seen' = [seen EXCEPT ![c] = content[dir[InputOf[c]]]]
  /\ UNCHANGED <<dir, content, fd, off>>

\* The input or the keystore cannot be read, or the document not be signed.
Refuse(c) ==
  /\ pc[c] \in {"idle", "read"}
  /\ Goto(c, "failed") /\ UNCHANGED <<dir, content, seen, fd, off>>

\* std::fs::write creates the temporary file, or truncates the one that has its name.
Open(c) ==
  /\ pc[c] = "read"
  /\ LET f == IF dir[Tmp(c)] = None THEN c ELSE dir[Tmp(c)]
     IN  /\ dir' = [dir EXCEPT ![Tmp(c)] = f]
         /\ content' = [content EXCEPT ![f] = << >>]
         /\ fd' = [fd EXCEPT ![c] = f]
  /\ Goto(c, "writing") /\ UNCHANGED <<seen, off>>

OpenFails(c) ==
  /\ pc[c] = "read"
  /\ Goto(c, "cleanup") /\ UNCHANGED <<dir, content, seen, fd, off>>

\* A chunk written at an offset; a gap before it is filled with zeros.
Overwritten(s, at, chunk) ==
  [k \in 1..(IF at > Len(s) THEN at ELSE Len(s)) |->
     IF k = at THEN chunk ELSE IF k <= Len(s) THEN s[k] ELSE << >>]

WriteChunk(c) ==
  /\ pc[c] = "writing" /\ off[c] < Len(Signed(c))
  /\ LET at == off[c] + 1
     IN  /\ content' = [content EXCEPT ![fd[c]] = Overwritten(@, at, Signed(c)[at])]
         /\ off' = [off EXCEPT ![c] = at]
  /\ UNCHANGED <<dir, pc, seen, fd>>

\* std::fs::write returns; the file is closed.
Written(c) ==
  /\ pc[c] = "writing" /\ off[c] = Len(Signed(c))
  /\ Goto(c, "renaming") /\ fd' = [fd EXCEPT ![c] = None]
  /\ UNCHANGED <<dir, content, seen, off>>

\* No space left, or an I/O error.
WriteFailsLeaks(c) ==
  /\ pc[c] = "writing" /\ off[c] < Len(Signed(c))
  /\ Goto(c, "cleanup") /\ UNCHANGED <<dir, content, seen, fd, off>>
WriteFailsUnnoticed(c) ==
  /\ pc[c] = "writing" /\ off[c] < Len(Signed(c))
  /\ Goto(c, "renaming") /\ fd' = [fd EXCEPT ![c] = None]
  /\ UNCHANGED <<dir, content, seen, off>>
WriteFails(c) ==
  /\ pc[c] = "writing" /\ off[c] < Len(Signed(c))
  /\ Goto(c, "cleanup") /\ fd' = [fd EXCEPT ![c] = None]
  /\ UNCHANGED <<dir, content, seen, off>>

Rename(c) ==
  /\ pc[c] = "renaming" /\ dir[Tmp(c)] # None
  /\ dir' = [dir EXCEPT ![OutputOf[c]] = dir[Tmp(c)], ![Tmp(c)] = None]
  /\ Goto(c, "done") /\ UNCHANGED <<content, seen, fd, off>>

\* There is no such file any more, or the output may not be replaced.
RenameFailsForgets(c) ==
  /\ pc[c] = "renaming"
  /\ Goto(c, "failed") /\ UNCHANGED <<dir, content, seen, fd, off>>
RenameFails(c) ==
  /\ pc[c] = "renaming"
  /\ Goto(c, "cleanup") /\ UNCHANGED <<dir, content, seen, fd, off>>

\* The error path removes whatever has the temporary name; that may fail, silently.
Remove(c) ==
  /\ pc[c] = "cleanup"
  /\ \/ dir' = [dir EXCEPT ![Tmp(c)] = None] /\ Goto(c, "failed")
     \/ dir[Tmp(c)] # None /\ UNCHANGED dir /\ Goto(c, "littered")
  /\ UNCHANGED <<content, seen, fd, off>>

\* A process is killed in the middle of its calls.
Kill(p) ==
  LET killed == {c \in Active : ProcessOf[c] = p}
  IN  /\ killed # {}
      /\ pc' = [c \in Calls |-> IF c \in killed THEN "killed" ELSE pc[c]]
      /\ fd' = [c \in Calls |-> IF c \in killed THEN None ELSE fd[c]]
      /\ UNCHANGED <<dir, content, seen, off>>

Init ==
  /\ dir \in [Names -> Paths \cup {None}]
  /\ \A n \in Names : dir[n] \in {n, None}
  /\ content = [f \in Files |-> IF f \in Paths THEN [k \in 1..Chunks |-> <<f>>] ELSE << >>]
  /\ pc = [c \in Calls |-> "idle"] /\ seen = [c \in Calls |-> << >>]
  /\ fd = [c \in Calls |-> None] /\ off = [c \in Calls |-> 0]

Step(c) ==
  \/ Read(c) \/ Refuse(c) \/ Open(c) \/ OpenFails(c)
  \/ WriteChunk(c) \/ Written(c) \/ WriteFails(c)
  \/ Rename(c) \/ RenameFails(c) \/ Remove(c)

Next ==
  \/ \E c \in Calls : Step(c)
  \/ \E c \in Calls : Kill(ProcessOf[c])

Spec == Init /\ [][Next]_vars

-----------------------------------------------------------------------------
(* Properties.                                                             *)

\* Type invariant: a call has a file open while it is writing and at no other time.
TypeOK ==
  /\ dir \in [Names -> Files \cup {None}]
  /\ content \in [Files -> Seq(Seq(Files))]
  /\ pc \in [Calls -> {"idle", "read", "writing", "renaming", "cleanup", "done", "failed",
                    "littered", "killed"}]
  /\ seen \in [Calls -> Seq(Seq(Files))]
  /\ fd \in [Calls -> Files \cup {None}]
  /\ off \in [Calls -> 0..Chunks]
  /\ \A c \in Calls : pc[c] = "writing" <=> fd[c] # None

\* What the paths and the calls look like from outside.
FileAt(p) ==
  IF dir[p] = None THEN None
  ELSE IF Whole(content[dir[p]]) THEN content[dir[p]][1] ELSE << >>
StatusOf(c) ==
  CASE pc[c] \in {"idle", "done"} -> pc[c]
    [] pc[c] \in {"failed", "littered", "killed"} -> "failed"
    [] OTHER -> "busy"
ReadBy(c) == IF seen[c] = << >> THEN None ELSE seen[c][1]

\* sign.rs:129-131: "renamed into place, so a failure never leaves a truncated file
\* behind (and output may safely equal input)".  Seen from the paths alone, a call
\* replaces its output by the signed version of what it read in one step, or it
\* changes nothing, whenever a write fails or a process is killed.
Atomic == INSTANCE AtomicFile WITH
  file   <- [p \in Paths |-> FileAt(p)],
  status <- [c \in Calls |-> StatusOf(c)],
  seen   <- [c \in Calls |-> ReadBy(c)]
ReplacedInOneStep == Atomic!Spec

\* sign.rs:158-165: a temporary file belongs to a call that is still at work; only
\* a process that was killed, or a file that could not be removed, leaves one.
NothingLeftBehind ==
  \A c \in Calls :
    dir[Tmp(c)] # None =>
      \E d \in Calls : Tmp(d) = Tmp(c) /\ pc[d] \in {"writing", "renaming", "cleanup", "littered", "killed"}

\* sign.rs:129-131: "a failure never leaves a truncated file behind": once every
\* call has returned, every file at a path is whole.
NoTruncatedFile ==
  (\A c \in Calls : pc[c] \in {"done", "failed"}) =>
    \A p \in Paths : dir[p] # None => Whole(content[dir[p]])
=============================================================================
