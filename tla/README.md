# Verification of pdf_signer

`pdf_signer` signs PDF documents (PAdES B-B, B-T, B-LT, B-LTA) and verifies
them, including long-term trust.  This directory holds TLA+ models of its core,
the TLC runs that check them on small instances, and theorems checked by TLAPS
that hold for every instance.  Line numbers refer to the files under `src/src`.

## 1. The system

| Component | Source | State it keeps | Operations |
|---|---|---|---|
| Incremental update writer | `incremental.rs` | the original bytes, a queue of objects, the offsets of a rendered update | `add`, `render` (table or stream), `last_startxref`, `uses_xref_stream`, `header_offset` |
| Signing pipeline | `sign.rs` | a working buffer, the offset of the signature object in it; the files on disk | `sign_pdf_file`, `write_atomic`, `sign_pdf_bytes`, `build_incremental_update`, `patch_byte_range`, `fill_placeholder`, `add_document_timestamp` |
| Visible appearance | `appearance.rs` | objects queued in the update | `add_appearance` |
| Document security store | `dss.rs` | the `/DSS` of the document | `collect_validation_material`, `add_dss`, `extract_dss_streams` |
| Structural verification | `verify.rs` | a report with an entry per signature | `collect_signatures`, `ranged`, `document_intact`, `dss_only_update` |
| Long-term trust | `verify.rs`, `main.rs` | the anchor, a verdict and a trusted time per entry, the exit status | `verify_pdf_bytes_with_roots` (two passes), `tsa_trusted`, `trusted_time_of`, `run_verify` |
| Path validation | `trust.rs` | the path, the recursion, a budget | `verify_chain`, `extend_path`, `finalize`, name constraints, CRL and OCSP evidence |
| Certificate policies | `policy.rs` | the policy tree and three counters | `process_policies` |
| CMS and RFC 3161 | `crypto.rs` | none | `cms_sign`, `apply_timestamp`, `cms_verify`, `verify_timestamp_token` |
| Timestamp and HTTP client | `tsa.rs` | a connection and a deadline | `request_timestamp`, `http_request_plain`, `dechunk` |
| Byte helpers | `util.rs` | none | DER lengths, hexadecimal |
| Command line | `main.rs`, `lib.rs`, `error.rs` | none | `run_sign`, `run_verify` |
| Test kit, tests | `testkit.rs`, `tests/` | a test PKI and TSA | not part of the system |

How they interact.  `sign_pdf_file` reads the input, calls `sign_pdf_bytes` and
hands the result to `write_atomic`.  `sign_pdf_bytes` queues objects in an
`Incremental`, renders it, patches the `/ByteRange`, has `crypto.rs` make the CMS
(which asks `tsa.rs` for a timestamp at B-T and above), fills the placeholder;
at B-LT it collects validation material and appends a second update with the DSS,
at B-LTA a third one with a document timestamp, patched and filled in the same
way.  Verification parses the document, judges each entry's range and CMS, and
then runs two passes over them that call `verify_chain` at various times.  There
are no threads and no callbacks inside the crate: concurrency comes from several
callers and processes that share a file system, from other programs that edit the
document between two calls, from a server that answers when and as it likes, and
from a clock that advances during a verification.

What is hard.

* Offsets: they are computed before bytes are inserted, appended or patched, in
  up to three updates of one call, and the header, a missing newline and the form
  of the cross-reference all shift them.
* Histories: every call starts from what earlier calls and other programs left.
  A document has many shapes (inline or indirect forms, fields, annotations, DSS).
* Partial failure: every step of a call can fail and nothing of it may be seen.
* Time: certificates expire and are revoked, and the order in which entries are
  judged decides at which time each is judged.
* Search: certification paths branch, and backtracking meets limits and a budget;
  what a path is worth depends on all its certificates at once (policies, names).
* Network: replies are late, cut off, repeated, or made for another request.
* Evidence: what says that a certificate is revoked is made after the time it is
  asked about, by authorities that change their keys.
* Files: calls fail or are killed between any two file operations.

`PROJECT.json` lists these one by one as hazards, each at its line, with the
properties that cover it or the reason why none does.

## 2. The modules

### PdfFile, SignatureReport, Documents, Signing, SignatureLog (`MCSigning`)

`PdfFile` is a document as a sequence of *cells*: a header, an object, a
cross-reference section, a `startxref`, a newline; a signature object takes
several cells (its dictionary, `<`, the cells of its placeholder, `>`), because its
parts are patched and measured.  A position in the sequence stands for a byte
offset.  `Render` is `Incremental::render`, with the missing newline, both kinds
of cross-reference section, offsets relative to the header and the object number a
cross-reference stream takes for itself.  `Load` is what lopdf makes of a file by
following the chain of cross-references from the last `startxref`; it is external,
modelled from how the crate uses it.  `Serialized` is what a rewritten value reads
back as (`fmt_real`).

`SignatureReport` is the structural half of `verify.rs` as operators on such a file:
which entries there are, in which order, what each range covers, whether it
verifies, and `DocumentIntact` with `DssOnlyUpdate`.  A signature verifies if its
digest is that of the cells its range covers.

`Documents` says which documents the crate can be given, that is what lopdf and the
crate rely on without looking: a section points backwards and leads to objects of the
number it names (`IsSection`), a value has the entries of its kind (`IsValue`), a
reference leads to a value of the kind expected there, there is a catalog and a page
(`IsDocument`), a signature dictionary is whole and its range leaves out its own
placeholder (`WellPlaced`).  Where a reference leads elsewhere the code returns an error
(pages, forms) or starts an empty array (the DSS), and for a document without a page
`nth_page_id` returns one; this is not modelled.  `Signing` assumes of its `InitialFiles`
that they are such documents.  It does not assume that the signatures already in them
verify; `SignedBefore` says that they do, and is a hypothesis of the two theorems that
need it.  Three more hypotheses of that kind are about documents other programs made:
`FieldsBefore` (each signature is the value of exactly one field, which a page shows),
`MaterialBefore` (the `/DSS` holds nothing twice, its entries are streams, and no array of
it is also an array of fields or annotations) and `IntactBefore` (the last signature, if there
is one, is for the whole document, and the catalog holds no number that is read as a real and
written as an integer).

`Signing` is `sign_pdf_bytes` as a state machine over these: `file` is the document,
`buf` the working buffer, `head` the offset into it, `pc` the step.  `Call` starts a
call; `Reject`, `Build`, `Patch`, `CmsSign`, `Fill`, `AddDss`, `Stamp`, `Token`,
`FillStep`, `Return` are the steps of the source in their order, and `PatchFails`,
`CryptoFails`, `FillFails` its error returns.  `EditPage`, `EditObject`, `EditDss` and
`EditGarbage` are other programs between two calls.  `report`, `since`, `calls` and
`edits` are history.  Network material is a nondeterministic choice.

`SignatureLog` is the abstract promise: a log of valid entries, which may have some when
it begins, to which a call appends one signature, or at B-LTA a signature and its archival timestamp at once.

### ArchivalTrust (`MCArchivalTrust`)

The life of a document over a clock (`Tick`, `SignPlain`, `SignStamped`,
`ArchiveStamp`, `LearnRevocation`) and one verification of it
(`Start`, `Pass1`, `Pass1Done`, `Pass2Time`, `Pass2Chain`, `Pass2Skip`, `Exit`).  A
certificate stands for its best chain: the period it is valid in, when it is
revoked, whether it ends in the trust store; `Chains` is what `verify_chain` answers
at a time.  The clock may tick between any two steps of a verification, because
`tsa_trusted` and `verify_signature` each read `SystemTime::now()`.  Entries may be
broken or malformed.

### PathSearch (`MCPathSearch`)

`verify_chain` and `extend_path`.  The recursion is a stack of frames; `EnterFrame`,
`TryRoot`, `RootsDone`, `TooLong`, `SkipNext`, `TryNext`, `PoolDone` and `Exhaust` are
its branches.  What is asked about certificates (names and signatures, validity, CA
flags, path lengths, revocation) is a record of the instance, and so is the set of
paths that `finalize` refuses.  It is any set of paths: the verdict on a path says
nothing of a longer one, because a policy mapping counts only below the anchor.  What
`finalize` says of a whole path is `Policy`'s matter, what `revoked` says of a
certificate and its issuer `Revocation`'s.  `MCPathSearch` gives the certificates names,
name constraints, policies and mappings and takes the refused paths from `Policy`, by the
right-hand side of `VerdictIsRight`, which is proved to be the code's verdict.

### Policy, NameConstraints (`MCPolicy`)

`Policy` is `finalize`: the name constraints, then `process_policies`, one step per
step of RFC 5280 in the code, `CheckNames`, `Grow` (`update_tree` and the test of
explicit_policy), `MapPolicies` (`apply_mappings`), `Limit` (the counters), `WrapUp`
(`intersect_initial`).  The code's vector of nodes with parents and a dead flag is a
set of sequences: a node is the policies from the root to it, a dead one is left
out.  `NameConstraints` is `check_name_constraints`; a name is its type and its
labels from the general to the particular, so that being inside a subtree is being
an extension of it, with the rules for periods and mailboxes on top.  The second
half of `Policy` says what the verdict should be, from the path alone: which limits
are used up is counted between certificates, the policies are followed as a graph
from level to level, and the names are intersected from the anchor down.

### Revocation (`MCRevocation`)

Authorities, which have a name and a key and may change the key, revoke certificates
(`Revoke`), certify responders (`Certify`), publish lists and answer requests;
`FetchCrl`, `FetchDamagedCrl` and `FetchOcsp` are what `collect_validation_material`
gets from them.  `CrlRevoked`, `OcspAuthentic` and `OcspRevoked` are the verifier's
conclusions at any time of validation.

### Timestamping, HttpFetch, Cms (`MCTimestamping`)

`HttpFetch` is `http_request_plain` and `dechunk`: a request that resolves, connects,
writes in pieces and reads, `phase` saying at which call it is.  Time passes only in the
calls that wait (`Tick`); a call with a limit returns when the limit is reached
(`TimesOut`, `ReadTimesOut`), and the deadline is tested where the code tests it
(`CheckDeadline`).  A response is a sequence of cells (status line, sizes, line ends,
data) that arrives in any pieces and may end or be reset at any place.

`Cms` has what `cms_sign` builds and everything `cms_verify`, `verify_timestamp_token` and
`verify_embedded_timestamp` check, over ideal digests and signatures: the number of
signers, the signed attributes, which certificate is the signer's, the ESS binding,
and whether the declared algorithms agree with each other and with the key.

`Timestamping` composes the two into a call at level B-T: `Sign` makes the CMS and asks
for a token over its signature value, `Serve` is what comes back (a proper token, one
without a nonce or under another hash, a damaged one, a rejection, or a reply to an
earlier request out of some cache), `Embed` and `GiveUpSigning` are the two ends of
`request_timestamp` and `apply_timestamp`.  A call that failed may be repeated, by the same
signer, whose signature value is then the same, or another one.  `Rewrite` is other
software that reorders, repeats or replaces parts of the finished CMS.

### AtomicWrite, AtomicFile (`MCAtomicWrite`)

`sign_pdf_file` with `write_atomic` over a directory, files and calls in processes:
`Read`, `Refuse`, `Open`, `OpenFails`, `WriteChunk`, `Written`, `WriteFails`, `Rename`,
`RenameFails`, `Remove`, and `Kill` of a process at any moment.  A document is written
in chunks, each of which remembers the document it belongs to, so a truncated or
mixed file shows.  A file is told from its name: a rename moves the file, and a
reader or a writer that has it open keeps it.  The temporary name is the output's
and the process id's, as in the code.  `AtomicFile` is the promise of the doc
comment (sign.rs:127-131): one step that replaces the output by the signed version
of what was read, or none.  Only killed processes are modelled, not power failures:
nothing is flushed to disk before the rename.

In each module some definitions come in pairs: the first of the two is the same
definition with a likely mistake in it, and no specification uses it.  They show
that a property tells the code from a plausible wrong version of it.

## 3. The runs

| Run | What it asks | Instance | States |
|---|---|---|---|
| `one_call` | Does what one call writes verify, is its field reachable, is nothing lost, is the DSS merged? | 121 shapes of document and two that are refused, 11 options at all four levels, with every error path | 8,581 |
| `history` | Do earlier signatures survive, is the report a log, is `document_intact` exact? | two documents at the extremes, two calls and one foreign update, B-B, B-LT and B-LTA | 4,596 |
| `long_term` | Is trust backed, nobody dated back, what was preserved in time trusted, success earned? | 4 moments, 3 entries, one of them bad; a signer, a TSA, its successor and a TSA outside the store | 1,527,058 |
| `paths` | Is trust justified by a valid path, rejection by there being none that meets one root? Is nothing tried twice? | 2 or 3 roots, 3 intermediates that certify each other, every subset of 8 links, 48 faults, 12 of them of names and policies | 110,474 |
| `policy` | Is the verdict on a path that of a definition without tree or counters? Is what is accepted vouched for? | paths of three certificates with every combination of two policies, anyPolicy and mappings, 15 limits, key rollovers; shorter paths with every kind of name and constraint | 2,126,970 |
| `revocation` | Is only what is revoked held to be revoked, and does what was told count? | an authority before and after a change of key, 3 certificates, two of one number, 3 moments, 2 fetches | 1,185,978 |
| `timestamp` | Does a call end, in time, with its own token? Does what it returns verify? Is what verifies after rewriting genuine? | 2 signers with keys of two kinds (the authority's of a third), 2 requests, 3 framings in any pieces, deadline 2, other limits 1, 2 rewritings | 134,239 |
| `processes` | Is the output replaced in one step or not at all? Are temporary files removed? | 3 calls, 2 processes, 2 paths, one call in place, 2 chunks | 12,448 |
| `trailing_garbage` | finding: trailing bytes after a B-LT update are accepted as intact | | |
| `cross_signed_root` | finding: the search gives up at a root that is cross-signed, and misses a valid path above it | | |
| `second_round` | finding: the second round of archiving does not keep its signature verifiable | | |
| `threads` | finding: two threads of one process with one output may leave it truncated | | |

Runs that show a finding end with a counterexample to what a comment of the code
says; `PROJECT.json` quotes the comment.

Why the bounds are enough.  One call on every shape meets every branch of the
pipeline.  Two calls and an update in between, in every order, are what a
signature needs to be followed by each kind of later change and by a change after
that; a third call would meet no document shape that two do not.  `DerSizes`,
`ByteRangeDigits` and `MaxUsize` are set so that the DER value fits and does not,
the digits fit and do not, and twice the capacity overflows.  Three entries are a
signature, its archival timestamp and a renewal, or two rounds of one; four moments
are one before, two during and one after the validity of certificates that take
over from each other.  With three intermediates there are dead ends, cycles and a
path that only backtracking finds, and a depth limit of two cuts some valid paths
off; a root that is also an intermediate is met in the middle of a path; the budget is small enough to run out in some instances and large enough to be
left over in most.  Policies are passed on from one certificate to the next: with
three below the anchor there is one that starts a mapping, one that uses it or maps
on, and one that is judged; limits of 0 and 1 take effect at once and one later, and
two policies tell the required one from another.  Two keys under one name, each with
a certificate of the same number, are what a change of key can confuse; a responder's
certificate that lives for one moment after the one it begins in ends before the
third.  A deadline of two and limits of one let a request overrun its deadline by a
read, let a read time out and be tried again, and let a connection attempt use half
of the time; two requests are one and a later one that may get the reply to it, and
two rewritings can undo, repeat or add to one another.  Two chunks make a half-written file, three calls in two
processes make a leftover that a later call meets.

`CHECK_DEADLOCK FALSE` stands in every configuration because calls, edits, the clock
and the search are bounded: when they are used up, the program is idle, not stuck.

Fairness.  `FairSpec` of `Timestamping` is the specification of the `timestamp` run; the
others claim no liveness.  It assumes that time passes (`Time`), that the client takes
the steps nobody else has a part in (`Client`: the test of the deadline, the return of
a call whose limit is reached, decoding; and an answer, good or bad, of the system's
resolver, on which the crate sets no limit), that the last write of a request returns
(`Reply`: what the server is going to say is chosen there and need never arrive), and
that the call goes on when the request is done (`Embed`, `GiveUpSigning`).  Of the server nothing is assumed: connecting, every
write, every piece of the response and the close may or may not happen (`Peer` has no
fairness).  `CallEnds` then says that the timeouts and the deadline end every call.
Elsewhere the code is sequential and waits for nothing, and a caller may stop between
any two calls.  The loops of `verify.rs` are over the entries of a document; that the
search of `trust.rs` gets on, cycles of certificates or not, is `NothingIsTriedTwice`: every
step is a step forward in the order of the stacks.

## 4. The theorems

All hold for every value of the constants that satisfies the named assumptions of
the modules (TLC evaluates these in each run).

`Basics` has what the others need of induction, sequences and finite sets.  Induction: a
set of naturals that has 0 and with every number the next has them all (`NatInd`), what
holds at a place when it holds at all places of lower rank holds everywhere (`ByRank`,
`ByPlace` along a sequence),
and a recursive function whose rule looks only at places of lower rank is what its rule
says (`RecursionDefines`).  They are stated with sets in the place of operators, which
the prover could not instantiate, and are proved from the library's theorem that the
naturals are well-founded.  Then concatenations and slices cell by cell, least and
greatest elements, and the rank of an element in a finite set of numbers, by which
`PdfFile.Nth` and `CollectSignatures` order objects.

`SigningProofs` has four parts, whose invariants are stated in `SigningInvariants`.  The first
is about bytes: an update extends its file, its signature object lies behind the old end,
a range has a definite part outside it, and a signature that verifies over a file verifies
over every extension.  Then come `Types`, `OnlyTheUpdateIsPatched`, `WhatIsWrittenVerifies`,
`DocumentsOnlyGrow`, `ValidEntriesStayValid`.  None of these properties is inductive.
The invariant `IInv` adds that outside the working steps the buffer is the file,
that in them the signature object lies where `head` says with its whole
placeholder (`InBuffer`), that it is of the kind the step needs (`RightKind`), that
after `patch_byte_range` the range describes the buffer (`RangePatched`), and that the
value about to be written is over exactly the bytes outside the hole (`DerMade`).
`Patch` and `Fill` then keep each other's work: patching changes a covered cell but
before the digest is taken, filling changes only the hole, and what is appended
later is outside both.

The second part is about what the bytes say, that is about `Load`.  Of an updated file it
returns the objects of the update and, for every other number, the object of the file
before it (`UpdateTable`, `UpdateLoad`): the entries are followed along the chain of
cross-references by recursion, every offset is counted from the header, and the update's
own section is the newest.  `FieldUpdate`, `DssUpdate` and the edits of other programs
give new objects new numbers and replace containers by containers of the same kind that
refer to at least as much (`IsFine`), so a document `Follows` every document before
it: no signature dictionary changes its number, its place or its bytes, no catalog entry,
page, field or DSS array element gets lost.  Filling a placeholder changes one object in
place (`InPlace`).  The invariant `LInv` says of the document, of the buffer in every step
and of what the caller has seen that they are such documents (`GoodFile`, `GoodBuffer`), that
the signature being made is the newest of the buffer and lies behind all others
(`SignWaits`, `StampWaits`, `WasLast`), and what its range must cover at the end
(`EndsSealed`).  `CollectSignatures` orders entries by where they are; with every old entry
in its place and the new one behind them the order of the report is the order of
signing.  TLC checked `LInv` on the instances of `one_call` and `history` before it was
proved.  The theorems are `NothingIsOverwritten` and `SignaturesKeepVerifying`, for whatever
the document says at first, and `EveryOutputVerifies` and `SigningImplementsTheLog` (the
refinement of `SignatureLog`) under `SignedBefore`, without which an entry of the first
document might fail.

The third part is about the objects of an update one by one.  `Updated` says what a reader
finds under each number afterwards, and every step of a call or of another program is one
of three kinds (`Moves`): it adds a field (`FieldMove`), it adds validation material
(`DssMove`), or it touches neither (`QuietMove`: an edit of a page, a new object, bytes
behind the end, `Patch` and `Fill`).  Fields: the arrays `/Fields` and `/Annots` may each be
absent, inline or indirect, and may even be one and the same indirect array; in all of
these cases they become the old array with one reference more (`Pushes`, `PushedElements`), so
the new signature gets one field and the old ones keep theirs (`FieldAddedKept`, `FInv`,
`EveryFieldIsKept`).  Material: the arrays of the DSS keep their references and get one for each
blob that is missing (`RefsGained`), the new streams hold those blobs, each once
(`LackingIs`), and no field update gets hold of an array of the DSS (`FieldMoveKept`,
`MInv`, `MaterialIsMerged`).  The hypotheses are needed: a document with a signature that has no
field, or a `/DSS` with a stream twice, stays one; and if an array of the DSS were also the
`/Fields` of the form, the widget of the next signature would be pushed into it.

The fourth part is `IntactReportIsExact`: the `document_intact` of a report is true exactly of a
signed document to which at most validation material was appended since its last signature
or timestamp (`IntactIsExact`), whatever the order of page edits, new objects, material and bytes
behind the end; only material together with such bytes is left out, because there the code is
wrong (`GarbageDetected`).  The code sees two revisions and compares their objects, the
history is any sequence of updates; what ties them together is `Stands(r, f, s)`: `r` is
the revision the last signature of `f` is for, and what was appended to it since is of the
kinds in `s`.  If that is validation material only, `r` and `f` differ in the `/DSS` and the
objects it refers to, however often it was merged (`OnlyDss`, `OnlyDssMoved`): a stream of an
earlier merge is still one of the `/DSS`, because no merge drops a reference, and no array is
ever written over.  If it is also a page edit or a new object, one page has more content than in `r`, or
there is an object `r` has not, and this stays so whatever follows (`EditedBefore`, `EditedAfter`),
neither of which the `/DSS` can hold (`EditIsNoDss`).  If it is only bytes behind the end, the
newest cross-reference section is still one of `r`.  `TrailAppended` is the step for one
update more; the invariant `XInv` says that the document and the buffer behind the new
signature have such a trail.  Both halves of `IntactBefore` are needed: an update made before
the first call is not in the history, and a number that changes when the catalog is written again
makes the crate's own DSS update look like a change.

`ArchivalTrustProofs` proves soundness and completeness.  Soundness: `Types`,
`TimestampTrustIsBacked`, `NobodyIsDatedBack`,
`SuccessIsNeverFeigned`.  The invariant adds that a timestamp by a TSA of the store
shows the time its entry was made (`EntryTimes`), that a set anchor is the time of a
trusted document timestamp behind the entry being judged (`AnchorFound`), that the
trusted time waiting for the second reading of the clock is real (`TimeIsReal`), and
which entries are still pending.  Completeness: `RenewalWorks` and `FirstRoundIsKept`.  What is
renewed is defined by recursion from the end of the document, which `Basics` turns
into a rule (`RenewedIs`); the clock and what is revoked only take from it
(`RenewedShrinks`).  The invariant `CInv` says that times grow along the document (`Dated`),
that the anchor is the earliest of the trusted times (`AnchorLeast`), and that what is
renewed, or preserved in the first round, and was looked at is trusted (`RenewedTrusted`,
`PreservedTrusted`).  The step that takes an argument is the one in pass 1: the chain of
an entry is good at the time of a later renewed timestamp, but judged at the anchor, which
is the earliest of those; the certificate was already valid then, since it made the
entry before, and is not yet expired or revoked, since it is not later (`ChainsBefore`).

`AtomicWriteProofs`: `Types` for whatever the processes do, and `WritesAreAtomic`, `NothingIsTruncated` and
`TemporaryFilesAreRemoved` under `OneThread`: a process makes its calls one after
the other.  The `threads` run shows that the condition is needed.  The invariant
says that no file has two names (`OneName`), what is at a path is whole (`Published`),
a call at work has read a whole document (`SeenWhole`) and is alone in its process
(`Alone`), the file it may create does not exist yet (`Uncreated`), and its temporary
file holds exactly the chunks written so far (`InProgress`).  Renaming then is the one
step that `AtomicFile` sees; every other step leaves what is at the paths alone.

`PathSearchProofs`: `Types`, `OnlyValidPathsAreTrusted`, `TheSearchMovesOn`, `EveryPathIsFound`, for
every PKI and every limit.  The invariant says that the path is valid up to its last certificate in
all that can be said before a root is found (`PartialPath`), that there is one
activation per certificate, what it has checked by the branch it is at, and that it is at
the candidate the path goes on with (`FramesAreAt`).  Backtracking removes a certificate and
its activation together, which is why a path that is a part of a good one stays good, and
moves the activation below to its next candidate, which is why the stack only grows in
its order (`StepIsLater`).  For
`EveryPathIsFound` the invariant is that, unless the budget ran out, every valid path
that meets a root at its end and not before goes on from what some activation has not tried
yet (`NoneLost`).  The condition is needed: at a root in the middle the search stops, and if
`finalize` refuses the path so far, what lies above that root is never tried.  The
`cross_signed_root` run shows a valid path that is lost in this way.  The theorem
assumes nothing of the paths that `finalize` refuses.

`PolicyProofs`: `AcceptedForAReason` and `VerdictsAreRight`, for paths of every length.  For
the first the invariant says that
every node of the tree is a chain of policies for which the certificates so far vouch,
in which each follows from the one before (`IsVouched`), that what a deepest node expects
is what follows from it (`ExpectsWhatFollows`), and that a counter that is not used up
leaves each limit above as much as the certificates between have not used
(`InhibitIsKept`, `MappingIsKept`).  That is enough for what an accepted path has, and says
nothing about a path that is rejected.  `VerdictsAreRight` is the exact statement, again for
paths of every length: accepted if and only if the definition without tree and counters
says so.  The recursions of that definition are shown to have solutions, `Levels` for the
graph of the policies and `Opens` for the names (`LevelsAre`, `OpensAre`).  Counters: the
counter is at most n exactly when n more certificates that are not self-issued use up one of the
limits stated so far (`IsCounter`), which the least of the old value and the new
limit keeps (`CounterSteps`); hence `AnyAllowed`, `MappingAllowed` and `PolicyIsDue` are what the
code tests (`AllowedIs`, `DueIs`).  Tree: a node that is not anyPolicy has a root, the first policy
that is not, and what a policy stands for at a level are the roots of the nodes that end
in it.  Pruning takes nodes that the path can no longer use, and the graph has no
pruning, so the two agree about different things in each step: after `Grow` about what
arrives at a level (`Arrives`), after `MapPolicies` about what goes on from it (`Continues`),
always about anyPolicy (`Grounded`).  `GrownAgrees`, `DeletedAgrees` and `ExtendedAgrees` are the
steps of the code from one to the other, `RemainsIs` is the intersection at the end, and
`EmptyTree` says that a path rejected early would be at the end as well.  TLC checked the invariant
(`VInv`, with the n of `IsCounter` bounded) on the instance of `policy` before it was proved.

`RevocationProofs`: `NothingIsWronglyRevoked`, `EvidenceCounts`.  The invariant says that every
entry of an undamaged list and every answer with a date is about a certificate that
was revoked then (`ListsAreTrue`, `AnswersAreTrue`) and that what was told is still in the
material (`ToldIsKept`).  They rest on the assumption that a number and a key tell a
certificate; names need not.

`TimestampingProofs`, for all time limits, signers and numbers of requests and rewritings: `Types`,
`DeadlineHolds`, `TokensAreFresh`, `WhatIsSignedVerifies`, `ChunksAreWhole`,
`OnlyTheSignerIsJudged`, `TimestampsAreBound`.  The invariant says that a read began before
the deadline (`HttpInv`), that an error of the server yields no body (`ErrorInv`), and that
any token on its way has the number of the request it answers or no nonce (`ReplyInv`);
`WhatIsSignedVerifies` then goes through the kinds of keys.  `ChunksAreWhole` rests on what
has arrived being a beginning of a framed response (`PrefixInv`) and on a step by step
account of the recursive `Dechunk` on such a beginning (`DechunkAccepts`).  The last two rest
on `RInv`: every token is one the TSA issued (`IssuedInv`), and no rewriting of a CMS changes a
signature value or makes a token (`CmsInv`).

Only model-checked is `CallEnds`.  Liveness, `ENABLED` and `RECURSIVE` operators cannot be
proved with the prover used here; no module with a theorem uses them.

## 5. What is not modelled

* Cryptographic primitives, ASN.1 and PDF syntax, the parsing of keys, certificates,
  URLs and trust stores: pure functions of libraries or of bytes.
* Fonts, images and the layout of appearances; argument parsing, passwords and
  printing of the command line.
* The fallback of `verify.rs` that scans the bytes of a file that does not parse, and
  encrypted documents beyond their refusal; indirect arrays in the `/Reference` of a
  certification signature.
* The HTTP client of the `https` feature, which is a library.
* Object numbers near 2^32, chunk sizes near the largest usize (tsa.rs:324), power failures between a write and a rename, and the
  exclusion between two processes that sign one file, which the code does not promise.
* The test kit and the tests, read as evidence of what the code should do.

The parts are judged one by one.  The verdict of `PathSearch` enters `ArchivalTrust` as the
period a certificate's chain is good in, the conclusions of `Revocation` enter
`PathSearch` as a relation of its instance, those of `Policy` as the set of paths that are
refused (computed by `Policy`'s definitions in the `paths` runs, any set in the proofs), and a CMS with its token enters `Signing` as a
digest and a length; the interfaces are the operators `Chains`, `Finalizes` and `revoked`, and
`DerMade`.  A run over the composition of all of them would be far beyond TLC's reach and
would ask no question that the parts do not.

Observations made while modelling for which there is no run:

* A read that begins just before the deadline may last its whole read timeout, so a
  request may overrun `REQUEST_TIMEOUT` by that much, against the words of the comment
  at tsa.rs:257-258; `OverrunIsBounded` states what does hold.  Name resolution is not
  limited at all.
* `dechunk` accepts a body that ends after a whole chunk without the final chunk of
  size zero (tsa.rs:312); `AnnouncedIsReceived` is about the chunks that are there, and a
  token cut between chunks is then refused because it is no whole DER value.
* `extract_dss_streams` reads `/CRLs` and `/OCSPs` of a DSS only where the array is inline
  (dss.rs:320), although `add_dss` (dss.rs:238) writes to one that is an object of its own and
  dss.rs:289 says that every CRL stored in the document is extracted; the revocation material of such a
  document is ignored.
* Of a list that is fetched only the first byte is looked at before it goes into the
  DSS (dss.rs:70-77); one that is damaged is ignored when it is evaluated.
* `fetch_ocsp` finds the issuer by name only (dss.rs:102); after a change of key it may
  ask with the wrong key's hash, and no answer to that counts.
* The budget of the path search is spent on candidates before their names are compared
  (trust.rs:350), although the comment at trust.rs:66-67 speaks of signature
  verifications; and the signatures of the CRLs and OCSP responses that are consulted for a
  candidate (trust.rs:356, 401) come on top of it.
* `dechunk` adds 2 to the end of a chunk without a check (tsa.rs:324), although its
  comment speaks of checked arithmetic: for a size that ends within two bytes of the largest
  usize it panics where every other truncated chunk is an error.
* A number such as 0.0 in a catalog is written back as an integer (incremental.rs:387),
  so the DSS update of the crate itself may count as a change of the catalog
  (verify.rs:602).
