------------------------- MODULE AtomicWriteProofs -------------------------
(***************************************************************************)
(* Proofs about AtomicWrite, for any number of calls, processes, paths and *)
(* chunks: if a process makes its calls one after the other, write_atomic  *)
(* implements AtomicFile.                                                  *)
(***************************************************************************)
EXTENDS AtomicWrite, TLAPS

-----------------------------------------------------------------------------
(* Documents.                                                              *)

LEMMA EmptyIsSeq == \A S : << >> \in Seq(S)
OBVIOUS

\* The signed version of a whole document is whole, and signed by the call.
LEMMA SignedWhole ==
  ASSUME NEW c \in Calls, seen[c] \in Seq(Seq(Files)), Whole(seen[c])
  PROVE  /\ Signed(c) \in Seq(Seq(Files)) /\ Len(Signed(c)) = Chunks
         /\ Whole(Signed(c)) /\ Signed(c)[1] = Append(seen[c][1], c)
         /\ seen[c] # << >>
<1>. DEFINE n == Len(seen[c])
<1>1. n = Chunks /\ Chunks \in Nat \ {0} /\ c \in Files
  BY CallsAssumption DEF Whole, Files
<1>2. \A k \in 1..n : seen[c][k] = seen[c][1] /\ seen[c][k] \in Seq(Files)
  BY <1>1 DEF Whole
<1>3. \A k \in 1..n : Append(seen[c][k], c) \in Seq(Files) /\ Append(seen[c][k], c) # << >>
  BY <1>1, <1>2, SMTT(30)
<1>4. Signed(c) = [k \in 1..n |-> Append(seen[c][k], c)]
  BY DEF Signed
<1>5. Signed(c) \in [1..n -> Seq(Files)] /\ n \in Nat
  BY <1>1, <1>3, <1>4
<1>6. Signed(c) \in Seq(Seq(Files)) /\ Len(Signed(c)) = n
  BY <1>5
<1>7. \A k \in 1..n : Signed(c)[k] = Append(seen[c][1], c) /\ Signed(c)[k] # << >>
  BY <1>2, <1>3, <1>4
<1>8. 1 \in 1..n
  BY <1>1
<1>9. Signed(c)[1] = Append(seen[c][1], c) /\ Whole(Signed(c))
  BY <1>1, <1>6, <1>7, <1>8 DEF Whole
<1>10. seen[c] # << >>
  BY <1>1
<1>. QED
  BY <1>1, <1>6, <1>9, <1>10

\* Writing the chunk behind the last one appends it.
LEMMA OverwrittenNext ==
  ASSUME NEW s \in Seq(Seq(Files)), NEW chunk \in Seq(Files), NEW at \in Nat, at = Len(s) + 1
  PROVE  /\ Overwritten(s, at, chunk) \in Seq(Seq(Files))
         /\ Len(Overwritten(s, at, chunk)) = at
         /\ \A k \in 1..Len(s) : Overwritten(s, at, chunk)[k] = s[k]
         /\ Overwritten(s, at, chunk)[at] = chunk
<1>. DEFINE t == Overwritten(s, at, chunk)
<1>1. Len(s) \in Nat /\ at \in Nat /\ at > Len(s)
  OBVIOUS
<1>2. t = [k \in 1..at |->
             IF k = at THEN chunk ELSE IF k <= Len(s) THEN s[k] ELSE << >>]
  BY <1>1 DEF Overwritten
<1>3. \A k \in 1..at : t[k] \in Seq(Files)
  <2>1. \A k \in 1..Len(s) : s[k] \in Seq(Files)
    OBVIOUS
  <2>2. \A k \in 1..at : t[k] = chunk \/ t[k] = << >> \/ (k \in 1..Len(s) /\ t[k] = s[k])
    BY <1>1, <1>2
  <2>. HIDE DEF t
  <2>. QED
    BY <2>1, <2>2, EmptyIsSeq, Zenon
<1>4. t \in [1..at -> Seq(Files)]
  BY <1>2, <1>3
<1>. HIDE DEF t
<1>5. t \in Seq(Seq(Files)) /\ Len(t) = at
  <2>1. \A S, n : n \in Nat => \A u \in [1..n -> S] : u \in Seq(S) /\ Len(u) = n
    OBVIOUS
  <2>. QED
    BY <1>4, <2>1, Zenon
<1>6. (\A k \in 1..Len(s) : t[k] = s[k]) /\ t[at] = chunk
  BY <1>1, <1>2
<1>. QED
  BY <1>5, <1>6 DEF t

-----------------------------------------------------------------------------
(* The inductive invariant.                                                *)

\* No file has two names.
OneName == \A m, n \in Names : dir[m] # None /\ dir[m] = dir[n] => m = n

\* What is at a path is whole.
Published == \A p \in Paths : dir[p] # None => Whole(content[dir[p]])

\* A call at work has read a whole document, and is alone in its process.
SeenWhole == \A c \in Active : Whole(seen[c])
Alone == \A c, d \in Active : ProcessOf[c] = ProcessOf[d] => c = d

\* The file a call may create does not exist before it does.
Uncreated ==
  \A c \in Calls : pc[c] \in {"idle", "read"} =>
    off[c] = 0 /\ \A n \in Names : dir[n] # c

\* The temporary file holds what has been written so far.
Holds(c) ==
  LET f == dir[Tmp(c)]
  IN  /\ f # None
      /\ pc[c] = "writing" => fd[c] = f /\ off[c] = Len(content[f])
      /\ pc[c] = "renaming" => Len(content[f]) = Chunks
      /\ \A k \in 1..Len(content[f]) : content[f][k] = Signed(c)[k]
InProgress == \A c \in Calls : pc[c] \in {"writing", "renaming"} => Holds(c)

IInv ==
  /\ TypeOK /\ OneName /\ Published /\ SeenWhole /\ Alone /\ Uncreated /\ InProgress

LEMMA InitInv == Init => IInv
<1>. SUFFICES ASSUME Init PROVE IInv
  OBVIOUS
<1>. USE DEF Init
<1>1. \A p \in Paths : /\ content[p] = [k \in 1..Chunks |-> <<p>>]
                       /\ content[p] \in Seq(Seq(Files)) /\ Whole(content[p])
  <2>. SUFFICES ASSUME NEW p \in Paths
                PROVE  /\ content[p] = [k \in 1..Chunks |-> <<p>>]
                       /\ content[p] \in Seq(Seq(Files)) /\ Whole(content[p])
    OBVIOUS
  <2>1. content[p] = [k \in 1..Chunks |-> <<p>>] /\ Chunks \in Nat \ {0} /\ <<p>> \in Seq(Files)
    BY CallsAssumption DEF Files
  <2>2. content[p] \in [1..Chunks -> Seq(Files)]
    BY <2>1
  <2>3. content[p] \in Seq(Seq(Files)) /\ Len(content[p]) = Chunks
    BY <2>1, <2>2
  <2>4. \A k \in 1..Chunks : content[p][k] = <<p>>
    BY <2>1
  <2>. QED
    BY <2>1, <2>3, <2>4 DEF Whole
<1>2. content \in [Files -> Seq(Seq(Files))]
  <2>1. \A f \in Files \ Paths : content[f] = << >>
    BY DEF Files
  <2>2. \A f \in Files : content[f] \in Seq(Seq(Files))
    BY <1>1, <2>1, Zenon, EmptyIsSeq
  <2>3. content = [f \in Files |-> content[f]]
    BY Zenon
  <2>. QED
    BY <2>2, <2>3
<1>3. TypeOK
  <2>1. dir \in [Names -> Files \cup {None}]
    BY DEF Files
  <2>2. seen \in [Calls -> Seq(Seq(Files))]
    BY EmptyIsSeq
  <2>3. off \in [Calls -> 0..Chunks]
    BY CallsAssumption
  <2>4. /\ pc \in [Calls -> {"idle"}] /\ fd \in [Calls -> Files \cup {None}]
        /\ \A c \in Calls : pc[c] = "writing" <=> fd[c] # None
    OBVIOUS
  <2>. QED
    BY <1>2, <2>1, <2>2, <2>3, <2>4 DEF TypeOK
<1>4. OneName /\ Published /\ Uncreated
  <2>1. Paths \subseteq Names /\ \A n \in Names : dir[n] = n \/ dir[n] = None
    BY DEF Names
  <2>2. OneName
    BY <2>1, Zenon DEF OneName
  <2>3. \A p \in Paths : Whole(content[p])
    BY <1>1
  <2>4. Published
    BY <2>1, <2>3, Zenon DEF Published
  <2>5. Uncreated
    BY NamesAssumption DEF Uncreated, Files
  <2>. QED
    BY <2>2, <2>4, <2>5
<1>5. SeenWhole /\ Alone /\ InProgress
  BY DEF SeenWhole, Alone, InProgress, Active
<1>. QED
  BY <1>3, <1>4, <1>5 DEF IInv

\* A call's temporary name is no path, and no other call's that is at work.
LEMMA TmpFacts ==
  ASSUME IInv, NEW c \in Calls
  PROVE  /\ Tmp(c) \in Names \ Paths /\ OutputOf[c] \in Paths /\ Paths \subseteq Names
         /\ InputOf[c] \in Paths
         /\ \A d \in Active : c \in Active /\ d # c => Tmp(d) # Tmp(c)
<1>1. \A d \in Calls : Tmp(d) = Tmp(c) => ProcessOf[d] = ProcessOf[c]
  BY DEF Tmp
<1>. QED
  BY <1>1, CallsAssumption, NamesAssumption DEF IInv, Alone, Active, Names

\* A step that leaves the files of a call, its name and its state alone.
LEMMA HoldsFrame ==
  ASSUME NEW d \in Calls, Holds(d), dir[Tmp(d)]' = dir[Tmp(d)],
         content[dir[Tmp(d)]]' = content[dir[Tmp(d)]],
         pc'[d] = pc[d], fd'[d] = fd[d], off'[d] = off[d], seen'[d] = seen[d]
  PROVE  Holds(d)'
BY DEF Holds, Signed, Tmp

LEMMA ReadInv ==
  ASSUME IInv, OneThread, NEW c \in Calls, Read(c)
  PROVE  IInv'
<1>. USE DEF IInv
<1>1. /\ pc' = [pc EXCEPT ![c] = "read"] /\ seen' = [seen EXCEPT ![c] = content[dir[InputOf[c]]]]
      /\ UNCHANGED <<dir, content, fd, off>> /\ pc[c] = "idle" /\ dir[InputOf[c]] # None
      /\ \A d \in Active : ProcessOf[d] # ProcessOf[c]
  BY DEF Read, Goto
<1>2. InputOf[c] \in Paths /\ InputOf[c] \in Names
  BY TmpFacts
<1>3. dir[InputOf[c]] \in Files /\ Whole(content[dir[InputOf[c]]])
  BY <1>1, <1>2 DEF TypeOK, Published
<1>4. TypeOK'
  BY <1>1, <1>3 DEF TypeOK
<1>5. Active' = Active \cup {c}
  BY <1>1 DEF Active, TypeOK
<1>6. SeenWhole' /\ Alone'
  <2>1. \A d \in Active' : Whole(seen'[d])
    BY <1>1, <1>3, <1>5 DEF SeenWhole, TypeOK, Active
  <2>2. SeenWhole'
    BY <2>1 DEF SeenWhole, Whole
  <2>. QED
    BY <1>1, <1>5, <2>2 DEF Alone
<1>7. OneName' /\ Published' /\ Uncreated'
  BY <1>1 DEF OneName, Published, Uncreated, Whole, TypeOK
<1>8. InProgress'
  <2>. SUFFICES ASSUME NEW d \in Calls, pc'[d] \in {"writing", "renaming"}
                PROVE  Holds(d)'
    BY DEF InProgress
  <2>1. d # c /\ pc'[d] = pc[d] /\ seen'[d] = seen[d]
    BY <1>1 DEF TypeOK
  <2>. QED
    BY <1>1, <2>1, HoldsFrame DEF InProgress, Tmp
<1>. QED
  BY <1>4, <1>6, <1>7, <1>8

\* A step of a call that changes neither names nor contents.
LEMMA QuietInv ==
  ASSUME IInv, NEW c \in Calls, NEW l \in {"renaming", "cleanup", "failed", "littered"},
         UNCHANGED <<dir, content, seen, off>>, pc' = [pc EXCEPT ![c] = l],
         fd' = [fd EXCEPT ![c] = None], pc[c] \in {"idle", "failed"} => l = "failed",
         pc[c] \notin {"done", "killed", "littered", "failed"},
         l = "renaming" => pc[c] = "writing" /\ off[c] = Chunks
  PROVE  IInv'
<1>. USE DEF IInv
<1>1. TypeOK'
  BY DEF TypeOK
<1>2. Active' \subseteq Active
  BY DEF Active, TypeOK
<1>3. SeenWhole' /\ Alone'
  BY <1>2 DEF SeenWhole, Alone, Whole
<1>4. OneName' /\ Published' /\ Uncreated'
  BY DEF OneName, Published, Uncreated, Whole, TypeOK
<1>5. InProgress'
  <2>. SUFFICES ASSUME NEW d \in Calls, pc'[d] \in {"writing", "renaming"}
                PROVE  Holds(d)'
    BY DEF InProgress
  <2>1. CASE d # c
    <3>1. pc'[d] = pc[d] /\ fd'[d] = fd[d] /\ pc[d] \in {"writing", "renaming"}
      BY <2>1 DEF TypeOK
    <3>. QED
      BY <3>1, HoldsFrame DEF InProgress, Tmp
  <2>2. CASE d = c
    <3>1. l = "renaming" /\ pc'[c] = "renaming"
      BY <2>2 DEF TypeOK
    <3>2. Holds(c) /\ off[c] = Len(content[dir[Tmp(c)]]) /\ off[c] = Chunks
      BY <3>1 DEF InProgress, Holds
    <3>. QED
      <4>1. Signed(c)' = Signed(c) /\ Tmp(c)' = Tmp(c) /\ dir' = dir /\ content' = content
        BY DEF Signed, Tmp
      <4>2. Len(content[dir[Tmp(c)]]) = Chunks /\ pc'[c] # "writing"
        BY <3>1, <3>2
      <4>. QED
        BY <2>2, <3>2, <4>1, <4>2 DEF Holds
  <2>. QED
    BY <2>1, <2>2
<1>. QED
  BY <1>1, <1>3, <1>4, <1>5

\* What a call works with while it is at work.
LEMMA SignedFacts ==
  ASSUME IInv, NEW c \in Active
  PROVE  /\ Signed(c) \in Seq(Seq(Files)) /\ Len(Signed(c)) = Chunks
         /\ Whole(Signed(c)) /\ Signed(c)[1] = Append(seen[c][1], c)
         /\ seen[c] # << >> /\ c \in Calls
<1>1. c \in Calls /\ seen[c] \in Seq(Seq(Files)) /\ Whole(seen[c])
  BY DEF IInv, TypeOK, SeenWhole, Active
<1>. QED
  BY <1>1, SignedWhole

LEMMA QuietSteps ==
  ASSUME IInv, NEW c \in Calls,
         Refuse(c) \/ OpenFails(c) \/ Written(c) \/ WriteFails(c) \/ RenameFails(c)
  PROVE  IInv'
<1>1. pc[c] # "writing" => fd = [fd EXCEPT ![c] = None]
  BY DEF IInv, TypeOK
<1>2. CASE Refuse(c)
  BY <1>1, <1>2, QuietInv DEF Refuse, Goto
<1>3. CASE OpenFails(c)
  BY <1>1, <1>3, QuietInv DEF OpenFails, Goto
<1>4. CASE Written(c)
  <2>1. c \in Active /\ pc[c] = "writing"
    BY <1>4 DEF Written, Active
  <2>2. off[c] = Chunks
    BY <1>4, <2>1, SignedFacts DEF Written
  <2>. QED
    BY <1>4, <2>1, <2>2, QuietInv DEF Written, Goto
<1>5. CASE WriteFails(c)
  BY <1>5, QuietInv DEF WriteFails, Goto
<1>6. CASE RenameFails(c)
  BY <1>1, <1>6, QuietInv DEF RenameFails, Goto
<1>. QED
  BY <1>2, <1>3, <1>4, <1>5, <1>6

LEMMA OpenInv ==
  ASSUME IInv, NEW c \in Calls, Open(c)
  PROVE  IInv'
<1>. USE DEF IInv
<1>. DEFINE t == Tmp(c)
            f == IF dir[t] = None THEN c ELSE dir[t]
<1>1. /\ dir' = [dir EXCEPT ![t] = f] /\ content' = [content EXCEPT ![f] = << >>]
      /\ fd' = [fd EXCEPT ![c] = f] /\ pc' = [pc EXCEPT ![c] = "writing"]
      /\ pc[c] = "read" /\ UNCHANGED <<seen, off>>
  BY DEF Open, Goto
<1>2. t \in Names \ Paths /\ Paths \subseteq Names /\ t' = t
  BY TmpFacts DEF Tmp
<1>3. f \in Files /\ f # None
  BY <1>2, NamesAssumption DEF TypeOK, Files
\* Nothing else has the file that is written to.
<1>4. \A n \in Names \ {t} : dir[n] # f
  BY <1>1, <1>2, <1>3 DEF OneName, Uncreated
<1>. HIDE DEF t, f
<1>5. /\ \A n \in Names \ {t} : dir'[n] = dir[n]
      /\ dir'[t] = f
      /\ \A g \in Files \ {f} : content'[g] = content[g]
      /\ content'[f] = << >>
      /\ \A d \in Calls \ {c} : pc'[d] = pc[d] /\ fd'[d] = fd[d]
      /\ pc'[c] = "writing" /\ fd'[c] = f /\ off[c] = 0
  BY <1>1, <1>2, <1>3 DEF TypeOK, Uncreated
<1>6. TypeOK'
  <2>1. content' \in [Files -> Seq(Seq(Files))]
    BY <1>1, EmptyIsSeq DEF TypeOK
  <2>2. dir' \in [Names -> Files \cup {None}] /\ fd' \in [Calls -> Files \cup {None}]
    BY <1>1, <1>3 DEF TypeOK
  <2>3. \A d \in Calls : pc'[d] = "writing" <=> fd'[d] # None
    BY <1>3, <1>5 DEF TypeOK
  <2>. QED
    BY <1>1, <2>1, <2>2, <2>3 DEF TypeOK
<1>7. OneName'
  BY <1>4, <1>5, ZenonT(40) DEF OneName
<1>8. Published'
  <2>. SUFFICES ASSUME NEW p \in Paths, dir'[p] # None
                PROVE  Whole(content'[dir'[p]])
    BY DEF Published, Whole
  <2>1. dir'[p] = dir[p] /\ dir[p] \in Files \ {f}
    BY <1>2, <1>4, <1>5 DEF TypeOK
  <2>. QED
    BY <1>5, <2>1 DEF Published
<1>9. Active' = Active
  BY <1>5, <1>1 DEF Active
<1>10. SeenWhole' /\ Alone'
  BY <1>1, <1>9 DEF SeenWhole, Alone, Whole
<1>11. Uncreated'
  <2>. SUFFICES ASSUME NEW d \in Calls, pc'[d] \in {"idle", "read"}
                PROVE  off'[d] = 0 /\ \A n \in Names : dir'[n] # d
    BY DEF Uncreated
  <2>1. d # c /\ pc[d] \in {"idle", "read"}
    BY <1>5
  <2>2. d # f
    BY <1>2, <2>1 DEF f, Uncreated
  <2>. QED
    BY <1>1, <1>5, <2>1, <2>2 DEF Uncreated
<1>12. InProgress'
  <2>. SUFFICES ASSUME NEW d \in Calls, pc'[d] \in {"writing", "renaming"}
                PROVE  Holds(d)'
    BY DEF InProgress
  <2>1. CASE d = c
    <3>1. Tmp(c)' = t /\ Len(<< >>) = 0
      BY DEF t, Tmp
    <3>. QED
      BY <1>1, <1>3, <1>5, <2>1, <3>1 DEF Holds, t
  <2>2. CASE d # c
    <3>1. pc'[d] = pc[d] /\ fd'[d] = fd[d] /\ d \in Active /\ c \in Active /\ Holds(d)
      BY <1>1, <1>5, <2>2 DEF Active, InProgress
    <3>2. Tmp(d) \in Names \ {t} /\ Tmp(d)' = Tmp(d)
      BY <2>2, <3>1, TmpFacts DEF t, Tmp
    <3>3. dir[Tmp(d)] \in Files \ {f}
      BY <1>4, <3>1, <3>2 DEF Holds, TypeOK
    <3>. QED
      BY <1>1, <1>5, <3>1, <3>2, <3>3, HoldsFrame
  <2>. QED
    BY <2>1, <2>2
<1>. QED
  BY <1>6, <1>7, <1>8, <1>10, <1>11, <1>12

LEMMA WriteInv ==
  ASSUME IInv, NEW c \in Calls, WriteChunk(c)
  PROVE  IInv'
<1>. USE DEF IInv
<1>. DEFINE f  == dir[Tmp(c)]
            at == off[c] + 1
            s  == content[f]
            o  == Overwritten(s, at, Signed(c)[at])
<1>1. /\ c \in Active /\ pc[c] = "writing" /\ Holds(c) /\ fd[c] = f
      /\ off[c] = Len(s) /\ off[c] < Len(Signed(c)) /\ UNCHANGED <<dir, pc, seen, fd>>
      /\ f # None
  BY DEF WriteChunk, Active, InProgress, Holds
<1>2. content' = [content EXCEPT ![f] = o] /\ off' = [off EXCEPT ![c] = at]
  BY <1>1 DEF WriteChunk
<1>3. f \in Files /\ s \in Seq(Seq(Files)) /\ Tmp(c) \in Names \ Paths /\ Paths \subseteq Names
  BY <1>1, TmpFacts DEF TypeOK
<1>4. /\ Signed(c) \in Seq(Seq(Files)) /\ Len(Signed(c)) = Chunks
      /\ off[c] \in Nat /\ at \in 1..Chunks /\ Chunks \in Nat
  BY <1>1, SignedFacts, CallsAssumption DEF TypeOK
<1>5. /\ o \in Seq(Seq(Files)) /\ Len(o) = at
      /\ \A k \in 1..off[c] : o[k] = s[k]
      /\ o[at] = Signed(c)[at]
  <2>. DEFINE chunk == Signed(c)[at]
  <2>1. /\ s \in Seq(Seq(Files)) /\ chunk \in Seq(Files)
        /\ at \in Nat /\ at = Len(s) + 1
    BY <1>1, <1>3, <1>4
  <2>. HIDE DEF at, s, f, chunk
  <2>2. /\ Overwritten(s, at, chunk) \in Seq(Seq(Files))
        /\ Len(Overwritten(s, at, chunk)) = at
        /\ \A k \in 1..Len(s) : Overwritten(s, at, chunk)[k] = s[k]
        /\ Overwritten(s, at, chunk)[at] = chunk
    BY <2>1, OverwrittenNext
  <2>3. o = Overwritten(s, at, chunk) /\ off[c] = Len(s)
    BY <1>1 DEF chunk
  <2>. HIDE DEF o
  <2>. QED
    BY <2>2, <2>3 DEF chunk
<1>. HIDE DEF o, at, s, f
<1>6. /\ content'[f] = o /\ off'[c] = at
      /\ \A g \in Files \ {f} : content'[g] = content[g]
      /\ \A d \in Calls \ {c} : off'[d] = off[d]
  BY <1>2, <1>3 DEF TypeOK
<1>7. TypeOK'
  BY <1>1, <1>2, <1>4, <1>5 DEF TypeOK
<1>8. OneName' /\ SeenWhole' /\ Alone'
  BY <1>1 DEF OneName, SeenWhole, Alone, Active, Whole
<1>9. Published'
  <2>. SUFFICES ASSUME NEW p \in Paths, dir'[p] # None
                PROVE  Whole(content'[dir'[p]])
    BY DEF Published, Whole
  <2>1. dir'[p] = dir[p] /\ dir[p] \in Files \ {f}
    BY <1>1, <1>3 DEF TypeOK, OneName, f
  <2>. QED
    BY <1>6, <2>1 DEF Published
<1>10. Uncreated'
  BY <1>1, <1>6 DEF Uncreated
<1>11. InProgress'
  <2>. SUFFICES ASSUME NEW d \in Calls, pc'[d] \in {"writing", "renaming"}
                PROVE  Holds(d)'
    BY DEF InProgress
  <2>1. CASE d = c
    <3>1. Tmp(c)' = Tmp(c) /\ Signed(c)' = Signed(c) /\ dir'[Tmp(c)'] = f
      BY <1>1 DEF Tmp, Signed, f
    <3>2. \A k \in 1..at : o[k] = Signed(c)[k]
      <4>1. \A k \in 1..off[c] : s[k] = Signed(c)[k]
        BY <1>1 DEF Holds, f, s
      <4>2. \A k \in 1..at : k = at \/ k \in 1..off[c]
        BY <1>4 DEF at
      <4>. QED
        BY <1>5, <4>1, <4>2
    <3>3. pc'[c] = "writing" /\ pc'[c] # "renaming" /\ fd'[c] = f
      BY <1>1
    <3>. QED
      BY <1>1, <1>5, <1>6, <2>1, <3>1, <3>2, <3>3 DEF Holds
  <2>2. CASE d # c
    <3>1. d \in Active /\ Holds(d)
      BY <1>1 DEF Active, InProgress
    <3>2. Tmp(d) \in Names /\ Tmp(d) # Tmp(c) /\ Tmp(d)' = Tmp(d)
      BY <1>1, <2>2, <3>1, TmpFacts DEF Tmp
    <3>3. dir[Tmp(d)] \in Files \ {f}
      BY <1>3, <3>1, <3>2 DEF Holds, TypeOK, OneName, f
    <3>. QED
      BY <1>1, <1>6, <2>2, <3>1, <3>2, <3>3, HoldsFrame
  <2>. QED
    BY <2>1, <2>2
<1>. QED
  BY <1>7, <1>8, <1>9, <1>10, <1>11

\* A call that loses its temporary name, because it renamed or removed the file.
LEMMA EndInv ==
  ASSUME IInv, NEW c \in Active, NEW l \in {"done", "failed"},
         pc[c] # "writing", pc' = [pc EXCEPT ![c] = l], UNCHANGED <<content, seen, fd, off>>,
         dir' \in [Names -> Files \cup {None}], OneName', Published',
         \A n \in Names : dir'[n] \in {dir[n], dir[Tmp(c)], None},
         \A n \in Names \ (Paths \cup {Tmp(c)}) : dir'[n] = dir[n]
  PROVE  IInv'
<1>. USE DEF IInv
<1>1. c \in Calls /\ Tmp(c) \in Names
  BY TmpFacts DEF Active
<1>2. TypeOK'
  BY <1>1 DEF TypeOK
<1>3. Active' \subseteq Active
  BY DEF Active, TypeOK
<1>4. SeenWhole' /\ Alone'
  BY <1>3 DEF SeenWhole, Alone, Whole
<1>5. Uncreated'
  <2>. SUFFICES ASSUME NEW d \in Calls, pc'[d] \in {"idle", "read"}
                PROVE  off'[d] = 0 /\ \A n \in Names : dir'[n] # d
    BY DEF Uncreated
  <2>1. pc[d] \in {"idle", "read"} /\ d # None
    BY <1>1, NamesAssumption DEF TypeOK, Files
  <2>. QED
    BY <1>1, <2>1 DEF Uncreated
<1>6. InProgress'
  <2>. SUFFICES ASSUME NEW d \in Calls, pc'[d] \in {"writing", "renaming"}
                PROVE  Holds(d)'
    BY DEF InProgress
  <2>1. d # c /\ pc'[d] = pc[d] /\ d \in Active /\ Holds(d)
    BY <1>1 DEF TypeOK, Active, InProgress
  <2>2. Tmp(d) \in Names \ (Paths \cup {Tmp(c)}) /\ Tmp(d)' = Tmp(d)
    BY <1>1, <2>1, TmpFacts DEF Tmp
  <2>. QED
    BY <2>1, <2>2, HoldsFrame
<1>. QED
  BY <1>2, <1>4, <1>5, <1>6

\* What is renamed is the whole signed document.
LEMMA RenameFacts ==
  ASSUME IInv, NEW c \in Calls, Rename(c)
  PROVE  /\ Whole(content[dir[Tmp(c)]])
         /\ content[dir[Tmp(c)]][1] = Append(seen[c][1], c)
<1>1. c \in Active /\ pc[c] = "renaming" /\ Holds(c)
  BY DEF Rename, Active, IInv, InProgress
<1>2. /\ Len(content[dir[Tmp(c)]]) = Chunks
      /\ \A k \in 1..Chunks : content[dir[Tmp(c)]][k] = Signed(c)[k]
  BY <1>1 DEF Holds
<1>3. Whole(Signed(c)) /\ Signed(c)[1] = Append(seen[c][1], c) /\ 1 \in 1..Chunks
  BY <1>1, SignedFacts, CallsAssumption
<1>. QED
  BY <1>2, <1>3 DEF Whole

LEMMA RenameInv ==
  ASSUME IInv, NEW c \in Calls, Rename(c)
  PROVE  IInv'
<1>. DEFINE t == Tmp(c)
            p == OutputOf[c]
<1>1. /\ dir' = [dir EXCEPT ![p] = dir[t], ![t] = None] /\ dir[t] # None
      /\ pc[c] = "renaming" /\ pc' = [pc EXCEPT ![c] = "done"]
      /\ UNCHANGED <<content, seen, fd, off>>
  BY DEF Rename, Goto
<1>2. t \in Names \ Paths /\ p \in Paths /\ Paths \subseteq Names /\ c \in Active
  BY <1>1, TmpFacts DEF Active
<1>3. Whole(content[dir[t]])
  BY RenameFacts
<1>. HIDE DEF t, p
<1>4. /\ dir'[t] = None /\ dir'[p] = dir[t]
      /\ \A n \in Names \ {t, p} : dir'[n] = dir[n]
      /\ dir' \in [Names -> Files \cup {None}]
  BY <1>1, <1>2 DEF IInv, TypeOK
<1>5. OneName'
  BY <1>2, <1>4 DEF IInv, OneName
<1>6. Published'
  BY <1>1, <1>2, <1>3, <1>4 DEF IInv, Published, Whole
<1>7. /\ \A n \in Names : dir'[n] \in {dir[n], dir[t], None}
      /\ \A n \in Names \ (Paths \cup {t}) : dir'[n] = dir[n]
  BY <1>2, <1>4
<1>. QED
  BY <1>1, <1>2, <1>4, <1>5, <1>6, <1>7, EndInv DEF t

LEMMA RemoveInv ==
  ASSUME IInv, NEW c \in Calls, Remove(c)
  PROVE  IInv'
<1>1. pc[c] = "cleanup" /\ UNCHANGED <<content, seen, fd, off>> /\ c \in Active
  BY DEF Remove, Active
<1>2. CASE dir' = dir /\ pc' = [pc EXCEPT ![c] = "littered"]
  <2>1. fd' = [fd EXCEPT ![c] = None]
    BY <1>1 DEF IInv, TypeOK
  <2>. QED
    BY <1>1, <1>2, <2>1, QuietInv
<1>3. CASE dir' = [dir EXCEPT ![Tmp(c)] = None] /\ pc' = [pc EXCEPT ![c] = "failed"]
  <2>1. /\ dir' \in [Names -> Files \cup {None}]
        /\ \A n \in Names : dir'[n] \in {dir[n], None}
        /\ \A n \in Names \ {Tmp(c)} : dir'[n] = dir[n]
    BY <1>3, TmpFacts DEF IInv, TypeOK
  <2>2. OneName'
    BY <2>1 DEF IInv, OneName
  <2>3. Published'
    BY <1>1, <2>1, TmpFacts DEF IInv, Published, Whole
  <2>. QED
    BY <1>1, <1>3, <2>1, <2>2, <2>3, EndInv
<1>. QED
  BY <1>2, <1>3 DEF Remove, Goto

\* Processes are killed, or nothing happens.
LEMMA KillInv ==
  ASSUME IInv, UNCHANGED vars \/ \E p : Kill(p)
  PROVE  IInv'
<1>. USE DEF IInv
<1>1. /\ UNCHANGED <<dir, content, seen, off>>
      /\ \A c \in Calls : \/ pc'[c] = pc[c] /\ fd'[c] = fd[c]
                          \/ pc'[c] = "killed" /\ fd'[c] = None
  BY DEF Kill, vars
<1>2. TypeOK'
  BY <1>1 DEF TypeOK, Kill, vars
<1>3. Active' \subseteq Active
  BY <1>1 DEF Active
<1>4. SeenWhole' /\ Alone' /\ OneName' /\ Published' /\ Uncreated'
  BY <1>1, <1>3 DEF SeenWhole, Alone, OneName, Published, Uncreated, Whole
<1>5. InProgress'
  <2>. SUFFICES ASSUME NEW d \in Calls, pc'[d] \in {"writing", "renaming"}
                PROVE  Holds(d)'
    BY DEF InProgress
  <2>1. pc'[d] = pc[d] /\ fd'[d] = fd[d]
    BY <1>1
  <2>. QED
    BY <1>1, <2>1, HoldsFrame DEF InProgress, Tmp
<1>. QED
  BY <1>2, <1>4, <1>5

LEMMA StepInv ==
  ASSUME OneThread, IInv, [Next]_vars
  PROVE  IInv'
<1>1. CASE \E c \in Calls : Step(c)
  BY <1>1, ReadInv, QuietSteps, OpenInv, WriteInv, RenameInv, RemoveInv DEF Step
<1>2. CASE \E c \in Calls : Kill(ProcessOf[c])
  BY <1>2, KillInv
<1>3. CASE UNCHANGED vars
  BY <1>3, KillInv
<1>. QED
  BY <1>1, <1>2, <1>3 DEF Next

LEMMA SpecInv == ASSUME OneThread PROVE Spec => []IInv
<1>1. IInv /\ [Next]_vars => IInv'
  BY StepInv
<1>. QED
  BY <1>1, InitInv, PTL DEF Spec

-----------------------------------------------------------------------------
(* The refinement.                                                         *)

LEMMA InitRefines == Init => Atomic!Init
<1>. SUFFICES ASSUME Init PROVE Atomic!Init
  OBVIOUS
<1>1. IInv
  BY InitInv
<1>2. \A p \in Paths : FileAt(p) = <<p>> \/ FileAt(p) = None
  <2>. SUFFICES ASSUME NEW p \in Paths, dir[p] # None
                PROVE  FileAt(p) = <<p>>
    BY DEF FileAt
  <2>1. dir[p] = p /\ p \in Files /\ content[p] = [k \in 1..Chunks |-> <<p>>]
    BY DEF Init, Names, Files
  <2>2. Whole(content[p]) /\ content[p][1] = <<p>>
    BY <1>1, <2>1, CallsAssumption DEF IInv, Published
  <2>. QED
    BY <2>1, <2>2 DEF FileAt
<1>3. \A c \in Calls : StatusOf(c) = "idle" /\ ReadBy(c) = None
  BY DEF Init, StatusOf, ReadBy
<1>. QED
  BY <1>2, <1>3 DEF Atomic!Init

\* What an outsider sees of a file depends on the names and contents alone.
LEMMA FilesUnchanged ==
  ASSUME \A p \in Paths : dir'[p] = dir[p],
         \A p \in Paths : dir[p] # None => content'[dir[p]] = content[dir[p]]
  PROVE  [p \in Paths |-> FileAt(p)]' = [p \in Paths |-> FileAt(p)]
<1>1. \A p \in Paths : FileAt(p)' = FileAt(p)
  BY DEF FileAt, Whole
<1>. QED
  BY <1>1

\* If no content changes, a path shows the file it gets.
LEMMA FileAtNext ==
  ASSUME content' = content
  PROVE  \A p \in Paths :
           FileAt(p)' = IF dir'[p] = None THEN None
                        ELSE IF Whole(content[dir'[p]]) THEN content[dir'[p]][1] ELSE << >>
BY DEF FileAt, Whole

LEMMA ReadsUnchanged ==
  ASSUME seen' = seen
  PROVE  [c \in Calls |-> ReadBy(c)]' = [c \in Calls |-> ReadBy(c)]
BY DEF ReadBy

\* The status of one call changes.
LEMMA StatusChanged ==
  ASSUME IInv, NEW c \in Calls, NEW l, pc' = [pc EXCEPT ![c] = l]
  PROVE  /\ \A d \in Calls \ {c} : StatusOf(d)' = StatusOf(d)
         /\ pc'[c] = l
BY DEF IInv, TypeOK, StatusOf

LEMMA ReadRefines ==
  ASSUME IInv, IInv', NEW c \in Calls, Read(c)
  PROVE  Atomic!Read(c)
<1>. DEFINE in == InputOf[c]
<1>1. /\ pc' = [pc EXCEPT ![c] = "read"] /\ seen' = [seen EXCEPT ![c] = content[dir[in]]]
      /\ UNCHANGED <<dir, content>> /\ pc[c] = "idle" /\ dir[in] # None
  BY DEF Read, Goto
<1>2. in \in Paths
  BY TmpFacts
<1>3. FileAt(in) = content[dir[in]][1] /\ FileAt(in) # None
  <2>1. /\ Whole(content[dir[in]]) /\ FileAt(in) = content[dir[in]][1]
        /\ content[dir[in]] \in Seq(Seq(Files))
    BY <1>1, <1>2, TmpFacts DEF IInv, Published, FileAt, TypeOK
  <2>2. content[dir[in]][1] \in Seq(Files)
    BY <2>1, CallsAssumption DEF Whole
  <2>. QED
    BY <2>1, <2>2, NamesAssumption
<1>4. \A d \in Calls : StatusOf(d)' = IF d = c THEN "busy" ELSE StatusOf(d)
  <2>1. StatusOf(c)' = "busy"
    BY <1>1 DEF StatusOf, IInv, TypeOK
  <2>. QED
    BY <1>1, <2>1, StatusChanged
<1>5. \A d \in Calls : ReadBy(d)' = IF d = c THEN FileAt(in) ELSE ReadBy(d)
  <2>1. content[dir[in]] # << >> /\ seen'[c] = content[dir[in]]
    BY <1>1, <1>2, CallsAssumption DEF IInv, Published, Whole, TypeOK
  <2>2. \A d \in Calls \ {c} : seen'[d] = seen[d]
    BY <1>1 DEF IInv, TypeOK
  <2>. QED
    BY <1>3, <2>1, <2>2 DEF ReadBy
<1>6. [p \in Paths |-> FileAt(p)]' = [p \in Paths |-> FileAt(p)]
  BY <1>1, FilesUnchanged
<1>7. StatusOf(c) = "idle"
  BY <1>1 DEF StatusOf
<1>. HIDE DEF in
<1>. QED
  BY <1>2, <1>3, <1>4, <1>5, <1>6, <1>7 DEF Atomic!Read, in

\* A rename replaces the output by the signed version of what was read.
LEMMA RenameRefines ==
  ASSUME IInv, IInv', NEW c \in Calls, Rename(c)
  PROVE  Atomic!Replace(c)
<1>. DEFINE t   == Tmp(c)
            out == OutputOf[c]
<1>1. /\ dir' = [dir EXCEPT ![out] = dir[t], ![t] = None] /\ dir[t] # None
      /\ pc[c] = "renaming" /\ pc' = [pc EXCEPT ![c] = "done"]
      /\ UNCHANGED <<content, seen>> /\ c \in Active
  BY DEF Rename, Goto, Active
<1>2. out \in Paths /\ t \in Names \ Paths /\ Paths \subseteq Names
  BY TmpFacts
<1>3. dir'[out] = dir[t] /\ \A p \in Paths \ {out} : dir'[p] = dir[p]
  BY <1>1, <1>2 DEF IInv, TypeOK
<1>4. ReadBy(c) = seen[c][1]
  BY <1>1, SignedFacts DEF ReadBy
<1>5. FileAt(out)' = Append(ReadBy(c), c)
  <2>1. Whole(content[dir[t]]) /\ content[dir[t]][1] = Append(seen[c][1], c)
    BY RenameFacts
  <2>. HIDE DEF t, out
  <2>2. FileAt(out)' = content[dir[t]][1]
    BY <1>1, <1>2, <1>3, <2>1, FileAtNext
  <2>. QED
    BY <1>4, <2>1, <2>2
<1>. HIDE DEF t, out
<1>6. \A p \in Paths \ {out} : FileAt(p)' = FileAt(p)
  <2>1. \A p \in Paths :
          FileAt(p) = IF dir[p] = None THEN None
                      ELSE IF Whole(content[dir[p]]) THEN content[dir[p]][1] ELSE << >>
    BY DEF FileAt
  <2>. QED
    BY <1>1, <1>3, <2>1, FileAtNext, ZenonT(40)
<1>7. /\ StatusOf(c) = "busy" /\ StatusOf(c)' = "done"
      /\ \A d \in Calls \ {c} : StatusOf(d)' = StatusOf(d)
  BY <1>1, StatusChanged, ZenonT(40) DEF StatusOf
<1>8. [d \in Calls |-> ReadBy(d)]' = [d \in Calls |-> ReadBy(d)]
  BY <1>1, ReadsUnchanged
<1>. QED
  BY <1>2, <1>5, <1>6, <1>7, <1>8 DEF Atomic!Replace, out

\* Calls that fail, or make progress nobody sees, while the paths keep what they have.
LEMMA HiddenRefines ==
  ASSUME IInv, IInv', seen' = seen,
         \A p \in Paths : dir'[p] = dir[p],
         \A p \in Paths : dir[p] # None => content'[dir[p]] = content[dir[p]],
         \A c \in Calls : \/ StatusOf(c)' = StatusOf(c)
                          \/ StatusOf(c) \in {"idle", "busy"} /\ StatusOf(c)' = "failed"
  PROVE  \E cs \in SUBSET Calls : Atomic!Fail(cs)
<1>. DEFINE cs == {c \in Calls : StatusOf(c)' # StatusOf(c)}
<1>1. \A c \in Calls : StatusOf(c)' = IF c \in cs THEN "failed" ELSE StatusOf(c)
  OBVIOUS
<1>2. \A c \in cs : StatusOf(c) \in {"idle", "busy"}
  OBVIOUS
<1>3. /\ [p \in Paths |-> FileAt(p)]' = [p \in Paths |-> FileAt(p)]
      /\ [c \in Calls |-> ReadBy(c)]' = [c \in Calls |-> ReadBy(c)]
  BY FilesUnchanged, ReadsUnchanged
<1>4. cs \in SUBSET Calls
  OBVIOUS
<1>. HIDE DEF cs
<1>5. Atomic!Fail(cs)
  BY <1>1, <1>2, <1>3, <1>4 DEF Atomic!Fail
<1>. QED
  BY <1>4, <1>5

\* The file a call writes to has no path.
LEMMA WrittenIsHidden ==
  ASSUME IInv, NEW c \in Calls, Open(c) \/ WriteChunk(c)
  PROVE  /\ \A p \in Paths : dir'[p] = dir[p]
         /\ \A p \in Paths : dir[p] # None => content'[dir[p]] = content[dir[p]]
<1>. USE DEF IInv
<1>1. Tmp(c) \in Names \ Paths /\ Paths \subseteq Names
  BY TmpFacts
<1>2. CASE Open(c)
  <2>. DEFINE f == IF dir[Tmp(c)] = None THEN c ELSE dir[Tmp(c)]
  <2>1. \A p \in Paths : dir'[p] = dir[p]
    BY <1>1, <1>2 DEF Open, TypeOK
  <2>2. \A p \in Paths : dir[p] # None => dir[p] # f /\ dir[p] \in Files
    BY <1>1, <1>2 DEF Open, TypeOK, OneName, Uncreated
  <2>3. content' = [content EXCEPT ![f] = << >>]
    BY <1>2 DEF Open
  <2>. HIDE DEF f
  <2>. QED
    BY <2>1, <2>2, <2>3 DEF TypeOK
<1>3. CASE WriteChunk(c)
  <2>1. dir' = dir /\ fd[c] = dir[Tmp(c)] /\ dir[Tmp(c)] # None
    BY <1>3 DEF WriteChunk, InProgress, Holds
  <2>2. \A p \in Paths : dir[p] # None => dir[p] # fd[c] /\ dir[p] \in Files
    BY <1>1, <2>1 DEF TypeOK, OneName
  <2>3. \E o : content' = [content EXCEPT ![fd[c]] = o]
    BY <1>3 DEF WriteChunk
  <2>. QED
    BY <2>1, <2>2, <2>3 DEF TypeOK
<1>. QED
  BY <1>2, <1>3

LEMMA StepRefines ==
  ASSUME IInv, IInv', [Next]_vars
  PROVE  [Atomic!Next]_(Atomic!vars)
<1>1. ASSUME NEW c \in Calls, Read(c) PROVE Atomic!Next
  BY <1>1, ReadRefines DEF Atomic!Next
<1>2. ASSUME NEW c \in Calls, Rename(c) PROVE Atomic!Next
  BY <1>2, RenameRefines DEF Atomic!Next
<1>3. ASSUME NEW c \in Calls, Open(c) \/ WriteChunk(c) PROVE Atomic!Next
  <2>1. seen' = seen /\ \A d \in Calls : StatusOf(d)' = StatusOf(d)
    <3>1. CASE Open(c)
      <4>1. pc' = [pc EXCEPT ![c] = "writing"] /\ pc[c] = "read" /\ seen' = seen
        BY <3>1 DEF Open, Goto
      <4>2. StatusOf(c) = "busy" /\ StatusOf(c)' = "busy"
        BY <4>1, StatusChanged DEF StatusOf
      <4>. QED
        BY <4>1, <4>2, StatusChanged
    <3>2. CASE WriteChunk(c)
      BY <3>2 DEF WriteChunk, StatusOf
    <3>. QED
      BY <1>3, <3>1, <3>2
  <2>2. \E cs \in SUBSET Calls : Atomic!Fail(cs)
    BY <1>3, <2>1, WrittenIsHidden, HiddenRefines
  <2>. QED
    BY <2>2 DEF Atomic!Next
<1>4. ASSUME NEW c \in Calls,
             Refuse(c) \/ OpenFails(c) \/ Written(c) \/ WriteFails(c) \/ RenameFails(c)
                \/ Remove(c)
      PROVE  Atomic!Next
  <2>1. /\ UNCHANGED <<content, seen>> /\ \A p \in Paths : dir'[p] = dir[p]
    BY <1>4, TmpFacts
    DEF Refuse, OpenFails, Written, WriteFails, RenameFails, Remove, IInv, TypeOK
  <2>2. PICK l \in {"renaming", "cleanup", "failed", "littered"} :
          pc' = [pc EXCEPT ![c] = l]
    BY <1>4 DEF Refuse, OpenFails, Written, WriteFails, RenameFails, Remove, Goto
  <2>3. pc[c] \in {"idle", "read", "writing", "renaming", "cleanup"}
    BY <1>4 DEF Refuse, OpenFails, Written, WriteFails, RenameFails, Remove
  <2>4. pc[c] = "idle" => l = "failed"
    BY <1>4, <2>2
    DEF Refuse, OpenFails, Written, WriteFails, RenameFails, Remove, Goto, IInv, TypeOK
  <2>5. pc'[c] = l /\ \A d \in Calls \ {c} : StatusOf(d)' = StatusOf(d)
    BY <2>2, StatusChanged
  <2>6. \/ StatusOf(c)' = StatusOf(c)
        \/ StatusOf(c) \in {"idle", "busy"} /\ StatusOf(c)' = "failed"
    BY <2>3, <2>4, <2>5 DEF StatusOf
  <2>7. \E cs \in SUBSET Calls : Atomic!Fail(cs)
    BY <2>1, <2>5, <2>6, HiddenRefines
  <2>. QED
    BY <2>7 DEF Atomic!Next
<1>5. ASSUME NEW p, Kill(p) PROVE Atomic!Next
  <2>1. \A c \in Calls : \/ pc'[c] = pc[c]
                         \/ pc[c] \in {"read", "writing", "renaming", "cleanup"} /\ pc'[c] = "killed"
    BY <1>5 DEF Kill, Active
  <2>2. \A c \in Calls : \/ StatusOf(c)' = StatusOf(c)
                         \/ StatusOf(c) \in {"idle", "busy"} /\ StatusOf(c)' = "failed"
    BY <2>1 DEF StatusOf
  <2>3. \E cs \in SUBSET Calls : Atomic!Fail(cs)
    BY <1>5, <2>2, HiddenRefines DEF Kill
  <2>. QED
    BY <2>3 DEF Atomic!Next
<1>6. CASE UNCHANGED vars
  <2>1. \A c \in Calls : StatusOf(c)' = StatusOf(c)
    BY <1>6 DEF vars, StatusOf
  <2>2. [c \in Calls |-> StatusOf(c)]' = [c \in Calls |-> StatusOf(c)]
    BY <2>1
  <2>3. /\ [p \in Paths |-> FileAt(p)]' = [p \in Paths |-> FileAt(p)]
        /\ [c \in Calls |-> ReadBy(c)]' = [c \in Calls |-> ReadBy(c)]
    BY <1>6, FilesUnchanged, ReadsUnchanged DEF vars
  <2>. QED
    BY <2>2, <2>3 DEF Atomic!vars
<1>. QED
  BY <1>1, <1>2, <1>3, <1>4, <1>5, <1>6 DEF Next, Step

\* As long as a process makes its calls one after the other, sign_pdf_file replaces
\* its output in one step or not at all, whatever fails and whoever is killed.
THEOREM WritesAreAtomic == ASSUME OneThread PROVE Spec => ReplacedInOneStep
<1>1. Spec => []IInv
  BY SpecInv
<1>2. IInv /\ IInv' /\ [Next]_vars => [Atomic!Next]_(Atomic!vars)
  BY StepRefines
<1>. QED
  BY <1>1, <1>2, InitRefines, PTL DEF Spec, ReplacedInOneStep, Atomic!Spec

\* Then no failure leaves a truncated file at a path, at any time.
THEOREM NothingIsTruncated == ASSUME OneThread PROVE Spec => []NoTruncatedFile
<1>1. IInv => NoTruncatedFile
  BY DEF IInv, Published, NoTruncatedFile
<1>. QED
  BY <1>1, SpecInv, PTL

\* The names that some call still answers for.
LEMMA LeftBehindStep ==
  ASSUME IInv, NothingLeftBehind, [Next]_vars
  PROVE  NothingLeftBehind'
<1>. DEFINE Owns(d) == pc[d] \in {"writing", "renaming", "cleanup", "littered", "killed"}
<1>1. \A c \in Calls : Tmp(c)' = Tmp(c)
  BY DEF Tmp
\* Who answers for a name does so after the step, or the name is gone.
<1>2. \A d \in Calls : Owns(d) => Owns(d)' \/ dir'[Tmp(d)] = None
  <2>1. ASSUME NEW d \in Calls, NEW c \in Calls, Step(c), Owns(d)
        PROVE  Owns(d)' \/ dir'[Tmp(d)] = None
    <3>1. pc = [x \in Calls |-> pc[x]] /\ dir \in [Names -> Files \cup {None}] /\ Tmp(c) \in Names
      BY TmpFacts DEF IInv, TypeOK
    <3>2. CASE Rename(c)
      <4>1. pc' = [pc EXCEPT ![c] = "done"] /\ dir'[Tmp(c)] = None
        BY <3>1, <3>2 DEF Rename, Goto
      <4>. QED
        BY <2>1, <3>1, <4>1
    <3>3. CASE Remove(c)
      BY <2>1, <3>1, <3>3 DEF Remove, Goto
    <3>4. CASE Read(c) \/ Refuse(c) \/ Open(c) \/ OpenFails(c) \/ WriteChunk(c)
                 \/ Written(c) \/ WriteFails(c) \/ RenameFails(c)
      BY <2>1, <3>1, <3>4
      DEF Read, Refuse, Open, OpenFails, WriteChunk, Written, WriteFails, RenameFails, Goto
    <3>. QED
      BY <2>1, <3>2, <3>3, <3>4 DEF Step
  <2>2. ASSUME NEW d \in Calls, NEW p, Kill(p), Owns(d) PROVE Owns(d)'
    BY <2>2 DEF Kill
  <2>. QED
    BY <2>1, <2>2 DEF Next, vars
\* A name that is new is its creator's.
<1>3. \A c \in Calls : dir[Tmp(c)] = None /\ dir'[Tmp(c)] # None =>
        \E d \in Calls : Tmp(d) = Tmp(c) /\ Owns(d)'
  <2>1. ASSUME NEW c \in Calls, NEW d \in Calls, Step(d),
               dir[Tmp(c)] = None, dir'[Tmp(c)] # None
        PROVE  Tmp(d) = Tmp(c) /\ Owns(d)'
    <3>1. /\ pc = [x \in Calls |-> pc[x]] /\ dir \in [Names -> Files \cup {None}]
          /\ Tmp(c) \in Names \ Paths /\ OutputOf[d] \in Paths
      BY TmpFacts DEF IInv, TypeOK
    <3>2. CASE Open(d)
      BY <2>1, <3>1, <3>2 DEF Open, Goto
    <3>3. ~Rename(d) /\ ~Remove(d)
      BY <2>1, <3>1 DEF Rename, Remove
    <3>4. CASE dir' = dir
      BY <2>1, <3>4
    <3>. QED
      BY <2>1, <3>2, <3>3, <3>4
      DEF Step, Read, Refuse, OpenFails, WriteChunk, Written, WriteFails, RenameFails
  <2>. QED
    BY <2>1 DEF Next, Kill, vars
<1>. QED
  <2>. SUFFICES ASSUME NEW c \in Calls, dir'[Tmp(c)] # None
                PROVE  \E d \in Calls : Tmp(d) = Tmp(c) /\ Owns(d)'
    BY <1>1 DEF NothingLeftBehind
  <2>1. CASE dir[Tmp(c)] = None
    BY <1>3, <2>1
  <2>2. CASE dir[Tmp(c)] # None
    <3>1. PICK d \in Calls : Tmp(d) = Tmp(c) /\ Owns(d)
      BY <2>2 DEF NothingLeftBehind
    <3>. QED
      BY <1>2, <3>1
  <2>. QED
    BY <2>1, <2>2

\* A temporary file is left by a call at work, a process that was killed, or a file
\* that could not be removed, and by nothing else.
THEOREM TemporaryFilesAreRemoved == ASSUME OneThread PROVE Spec => []NothingLeftBehind
<1>1. Init => NothingLeftBehind
  <2>. SUFFICES ASSUME Init, NEW c \in Calls PROVE dir[Tmp(c)] = None
    BY DEF NothingLeftBehind
  <2>. QED
    BY InitInv, TmpFacts, NamesAssumption DEF Init, IInv
<1>2. IInv /\ NothingLeftBehind /\ [Next]_vars => NothingLeftBehind'
  BY LeftBehindStep
<1>. QED
  BY <1>1, <1>2, SpecInv, PTL DEF Spec

-----------------------------------------------------------------------------
(* Type correctness, whether or not the calls of a process overlap.        *)

\* No file and nothing read is longer than a document.
Short ==
  /\ \A f \in Files : Len(content[f]) <= Chunks
  /\ \A c \in Calls : Len(seen[c]) <= Chunks

\* A chunk written into a file that another call may have truncated or be writing.
LEMMA OverwrittenAnywhere ==
  ASSUME NEW s \in Seq(Seq(Files)), Len(s) <= Chunks, NEW chunk \in Seq(Files), NEW at \in 1..Chunks
  PROVE  /\ Overwritten(s, at, chunk) \in Seq(Seq(Files))
         /\ Len(Overwritten(s, at, chunk)) <= Chunks
<1>. DEFINE n == IF at > Len(s) THEN at ELSE Len(s)
            t == Overwritten(s, at, chunk)
<1>1. Len(s) \in Nat /\ at \in Nat /\ n \in Nat /\ n <= Chunks
  BY CallsAssumption
<1>2. t = [k \in 1..n |-> IF k = at THEN chunk ELSE IF k <= Len(s) THEN s[k] ELSE << >>]
  BY DEF Overwritten
<1>3. \A k \in 1..n : t[k] = chunk \/ t[k] = << >> \/ (k \in 1..Len(s) /\ t[k] = s[k])
  BY <1>1, <1>2
<1>4. \A k \in 1..Len(s) : s[k] \in Seq(Files)
  OBVIOUS
<1>. HIDE DEF n, t
<1>5. \A k \in 1..n : t[k] \in Seq(Files)
  BY <1>3, <1>4, EmptyIsSeq, Zenon
<1>6. t \in [1..n -> Seq(Files)]
  BY <1>2, <1>5
<1>7. \A S, m : m \in Nat => \A u \in [1..m -> S] : u \in Seq(S) /\ Len(u) = m
  OBVIOUS
<1>8. t \in Seq(Seq(Files)) /\ Len(t) = n
  BY <1>1, <1>6, <1>7, Zenon
<1>. QED
  BY <1>1, <1>8 DEF t

\* What a call signs has the type and the length of what it read.
LEMMA SignedTyped ==
  ASSUME TypeOK, NEW c \in Calls
  PROVE  Signed(c) \in Seq(Seq(Files)) /\ Len(Signed(c)) = Len(seen[c])
<1>1. seen[c] \in Seq(Seq(Files)) /\ c \in Files /\ Len(seen[c]) \in Nat
  BY DEF TypeOK, Files
<1>2. \A k \in 1..Len(seen[c]) : Append(seen[c][k], c) \in Seq(Files)
  BY <1>1
<1>3. Signed(c) \in [1..Len(seen[c]) -> Seq(Files)]
  BY <1>2 DEF Signed
<1>4. \A S, m : m \in Nat => \A u \in [1..m -> S] : u \in Seq(S) /\ Len(u) = m
  OBVIOUS
<1>. QED
  BY <1>1, <1>3, <1>4, Zenon

LEMMA WriteTyped ==
  ASSUME TypeOK, Short, NEW c \in Calls, WriteChunk(c) PROVE TypeOK' /\ Short'
<1>1. PICK at : at = off[c] + 1
  OBVIOUS
<1>2. PICK f : f = fd[c]
  OBVIOUS
<1>3. /\ content' = [content EXCEPT ![f] = Overwritten(content[f], at, Signed(c)[at])]
      /\ off' = [off EXCEPT ![c] = at] /\ pc[c] = "writing" /\ off[c] < Len(Signed(c))
      /\ UNCHANGED <<dir, pc, seen, fd>>
  BY <1>1, <1>2 DEF WriteChunk
<1>4. f \in Files /\ content[f] \in Seq(Seq(Files)) /\ Len(content[f]) <= Chunks
  BY <1>2, <1>3 DEF TypeOK, Short
<1>5. /\ Signed(c) \in Seq(Seq(Files)) /\ Len(Signed(c)) \in Nat /\ Len(Signed(c)) <= Chunks
      /\ off[c] \in Nat
  BY SignedTyped, CallsAssumption DEF TypeOK, Short
<1>6. at \in 1..Len(Signed(c)) /\ at \in 1..Chunks
  BY <1>1, <1>3, <1>5, CallsAssumption
<1>7. Signed(c)[at] \in Seq(Files)
  BY <1>5, <1>6
<1>8. PICK t : t = Overwritten(content[f], at, Signed(c)[at])
  OBVIOUS
<1>9. t \in Seq(Seq(Files)) /\ Len(t) <= Chunks
  BY <1>4, <1>6, <1>7, <1>8, OverwrittenAnywhere
<1>10. content' = [content EXCEPT ![f] = t]
  BY <1>3, <1>8
<1>11. content' \in [Files -> Seq(Seq(Files))] /\ \A g \in Files : Len(content'[g]) <= Chunks
  BY <1>9, <1>10 DEF TypeOK, Short
<1>12. off' \in [Calls -> 0..Chunks]
  BY <1>3, <1>6 DEF TypeOK
<1>. QED
  BY <1>3, <1>11, <1>12 DEF TypeOK, Short

LEMMA StepTyped ==
  ASSUME TypeOK, Short, NEW c \in Calls, Step(c) PROVE TypeOK' /\ Short'
<1>1. /\ None \notin Files /\ Tmp(c) \in Names /\ OutputOf[c] \in Names /\ InputOf[c] \in Names
      /\ c \in Files
  BY NamesAssumption, CallsAssumption DEF Names, Files
<1>2. CASE Read(c)
  <2>1. dir[InputOf[c]] \in Files
    BY <1>1, <1>2 DEF TypeOK, Read
  <2>2. PICK s : s = content[dir[InputOf[c]]]
    OBVIOUS
  <2>3. s \in Seq(Seq(Files)) /\ Len(s) <= Chunks
    BY <2>1, <2>2 DEF TypeOK, Short
  <2>4. /\ seen' = [seen EXCEPT ![c] = s] /\ pc' = [pc EXCEPT ![c] = "read"] /\ pc[c] = "idle"
        /\ UNCHANGED <<dir, content, fd, off>>
    BY <1>2, <2>2 DEF Read, Goto
  <2>5. seen' \in [Calls -> Seq(Seq(Files))] /\ \A d \in Calls : Len(seen'[d]) <= Chunks
    BY <2>3, <2>4 DEF TypeOK, Short
  <2>. QED
    BY <2>4, <2>5 DEF TypeOK, Short
<1>3. CASE Open(c)
  <2>1. PICK f : f = IF dir[Tmp(c)] = None THEN c ELSE dir[Tmp(c)]
    OBVIOUS
  <2>2. f \in Files
    BY <1>1, <2>1 DEF TypeOK
  <2>3. /\ dir' = [dir EXCEPT ![Tmp(c)] = f] /\ content' = [content EXCEPT ![f] = << >>]
        /\ fd' = [fd EXCEPT ![c] = f] /\ pc' = [pc EXCEPT ![c] = "writing"] /\ pc[c] = "read"
        /\ UNCHANGED <<seen, off>>
    BY <1>3, <2>1 DEF Open, Goto
  <2>4. content' \in [Files -> Seq(Seq(Files))] /\ \A g \in Files : Len(content'[g]) <= Chunks
    <3>1. << >> \in Seq(Seq(Files)) /\ Len(<< >>) <= Chunks
      BY CallsAssumption, EmptyIsSeq
    <3>. QED
      BY <2>3, <3>1 DEF TypeOK, Short
  <2>5. dir' \in [Names -> Files \cup {None}] /\ fd' \in [Calls -> Files \cup {None}]
    BY <2>2, <2>3 DEF TypeOK
  <2>6. \A d \in Calls : pc'[d] = "writing" <=> fd'[d] # None
    BY <1>1, <2>2, <2>3 DEF TypeOK
  <2>. QED
    BY <2>3, <2>4, <2>5, <2>6 DEF TypeOK, Short
<1>4. CASE Written(c) \/ WriteFails(c)
  <2>1. PICK label \in {"renaming", "cleanup"} :
          /\ pc' = [pc EXCEPT ![c] = label] /\ fd' = [fd EXCEPT ![c] = None]
          /\ UNCHANGED <<dir, content, seen, off>>
    BY <1>4 DEF Written, WriteFails, Goto
  <2>. QED
    BY <2>1 DEF TypeOK, Short
<1>5. CASE Rename(c)
  <2>1. /\ dir' = [dir EXCEPT ![OutputOf[c]] = dir[Tmp(c)], ![Tmp(c)] = None]
        /\ pc' = [pc EXCEPT ![c] = "done"] /\ pc[c] = "renaming"
        /\ UNCHANGED <<content, seen, fd, off>>
    BY <1>5 DEF Rename, Goto
  <2>. QED
    BY <1>1, <2>1 DEF TypeOK, Short
<1>6. CASE Remove(c)
  <2>1. /\ dir' = [dir EXCEPT ![Tmp(c)] = None] \/ dir' = dir
        /\ pc' = [pc EXCEPT ![c] = "failed"] \/ pc' = [pc EXCEPT ![c] = "littered"]
        /\ pc[c] = "cleanup" /\ UNCHANGED <<content, seen, fd, off>>
    BY <1>6 DEF Remove, Goto
  <2>2. dir' \in [Names -> Files \cup {None}]
    BY <1>1, <2>1 DEF TypeOK
  <2>. QED
    BY <2>1, <2>2 DEF TypeOK, Short
<1>7. CASE Refuse(c) \/ OpenFails(c) \/ RenameFails(c)
  <2>1. PICK label \in {"failed", "cleanup"} :
          /\ pc' = [pc EXCEPT ![c] = label] /\ pc[c] # "writing"
          /\ UNCHANGED <<dir, content, seen, fd, off>>
    BY <1>7 DEF Refuse, OpenFails, RenameFails, Goto
  <2>. QED
    BY <2>1 DEF TypeOK, Short
<1>. QED
  BY <1>2, <1>3, <1>4, <1>5, <1>6, <1>7, WriteTyped DEF Step

\* Type correctness holds even where the calls of a process overlap: a call has a file
\* open while it is writing and at no other time, and writes no further than it read
\* (sign.rs:147-168).
THEOREM Types == Spec => []TypeOK
<1>1. Init => TypeOK /\ Short
  <2>. SUFFICES ASSUME Init PROVE Short
    BY InitInv DEF IInv
  <2>1. ASSUME NEW f \in Files PROVE Len(content[f]) <= Chunks
    <3>1. content[f] = [k \in 1..Chunks |-> <<f>>] \/ content[f] = << >>
      BY DEF Init
    <3>2. Len([k \in 1..Chunks |-> <<f>>]) = Chunks
      BY CallsAssumption
    <3>. QED
      BY <3>1, <3>2, CallsAssumption
  <2>. QED
    BY <2>1, CallsAssumption DEF Init, Short
<1>2. TypeOK /\ Short /\ [Next]_vars => TypeOK' /\ Short'
  <2>. SUFFICES ASSUME TypeOK, Short, [Next]_vars PROVE TypeOK' /\ Short'
    OBVIOUS
  <2>1. CASE UNCHANGED vars
    BY <2>1 DEF vars, TypeOK, Short
  <2>2. ASSUME NEW p, Kill(p) PROVE TypeOK' /\ Short'
    <3>1. PICK killed \in SUBSET Active :
            /\ pc' = [c \in Calls |-> IF c \in killed THEN "killed" ELSE pc[c]]
            /\ fd' = [c \in Calls |-> IF c \in killed THEN None ELSE fd[c]]
            /\ UNCHANGED <<dir, content, seen, off>>
      BY <2>2 DEF Kill
    <3>. QED
      BY <3>1 DEF TypeOK, Short
  <2>. QED
    BY <2>1, <2>2, StepTyped DEF Next
<1>. QED
  BY <1>1, <1>2, PTL DEF Spec
=============================================================================
