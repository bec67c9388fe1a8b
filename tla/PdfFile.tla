------------------------------ MODULE PdfFile ------------------------------
(***************************************************************************)
(* A PDF file as the signer and the verifier see it, and the incremental   *)
(* updates of src/src/incremental.rs.                                      *)
(*                                                                         *)
(* A file is a sequence of CELLS.  A cell stands for a stretch of bytes no *)
(* operation of the crate ever splits: a complete indirect object, one     *)
(* byte of a /Contents placeholder, a cross-reference section with its     *)
(* trailer, a startxref.  Cells are to the model what bytes are to the     *)
(* code: a file offset is the number of cells before a cell (0-based, as   *)
(* in the code), a digest is the sequence of cells it covers, and a        *)
(* /ByteRange counts cells.  The indirect object that is a signature       *)
(* dictionary is the only one the code looks inside at byte level (it      *)
(* patches it in place), so it alone is spread over several cells.         *)
(*                                                                         *)
(* A definition right before another of the same parameters, such as       *)
(* AbsoluteEntries before Entries, is the other with a likely mistake in   *)
(* it; no specification uses it, it shows that the properties notice the   *)
(* mistake.                                                                *)
(***************************************************************************)
EXTENDS Integers, Sequences, FiniteSets, FiniteSetsExt, SequencesExt, TLC

-----------------------------------------------------------------------------
(* Cells.                                                                  *)

Hdr    == [k |-> "hdr"]       \* %PDF-1.x
Junk   == [k |-> "junk"]      \* bytes that are no PDF syntax
Nl     == [k |-> "nl"]        \* the newline emit_objects adds when missing
Lt     == [k |-> "lt"]        \* the '<' that opens a /Contents hex string
Gt     == [k |-> "gt"]        \* the '>' that closes it
Zero   == [k |-> "zero"]      \* a 00 byte of the placeholder
Cont   == [k |-> "cont"]      \* a further byte of a DER value
EndObj == [k |-> "endobj"]    \* the rest of a signature dictionary

ObjCell(id, val)     == [k |-> "obj", id |-> id, val |-> val]
SigHead(id, sub, br) == [k |-> "sig", id |-> id, sub |-> sub, br |-> br]
DerCell(der)         == [k |-> "der", der |-> der]   \* first byte, 0x30
StartXref(at, nl)    == [k |-> "startxref", at |-> at, nl |-> nl]

\* The bytes of a DER value of length der.size.
DerBytes(der) == [i \in 1..der.size |-> IF i = 1 THEN DerCell(der) ELSE Cont]

-----------------------------------------------------------------------------
(* Object values.  A dictionary entry that may be absent, inline or an     *)
(* indirect reference is a holder.                                         *)

Null        == [t |-> "null"]
Absent      == [at |-> "none", ref |-> 0, v |-> Null]
Inline(v)   == [at |-> "inline", ref |-> 0, v |-> v]
RefTo(id)   == [at |-> "ref", ref |-> id, v |-> Null]

Arr(s)      == [t |-> "array", a |-> s]
Der(d)      == [t |-> "der", der |-> d]
XrefObj     == [t |-> "xref"]
ApObj       == [t |-> "ap"]
DssKeys     == {"Certs", "CRLs", "OCSPs"}
EmptyDss    == [t |-> "dss", arr |-> [key \in DssKeys |-> Absent]]

\* What g has for the numbers f has nothing for, added to f.
f ++ g ==
  [x \in DOMAIN f \cup DOMAIN g |-> IF x \in DOMAIN f THEN f[x] ELSE g[x]]

-----------------------------------------------------------------------------
(* Reading a file back: what lopdf's Document::load_mem returns.           *)

\* incremental.rs header_offset: file offsets count from the %PDF- header.
HeaderOffset(file) ==
  IF \E i \in DOMAIN file : file[i].k = "hdr"
  THEN Min({i \in DOMAIN file : file[i].k = "hdr"}) - 1
  ELSE 0

StartXrefs(file) == {i \in DOMAIN file : file[i].k = "startxref"}

\* incremental.rs last_startxref: the value of the most recent startxref.
LastStartXref(file) == file[Max(StartXrefs(file))].at

\* The indirect object whose first cell is at position p.
ObjectAt(file, p) ==
  CASE file[p].k = "obj"  -> file[p].val
    [] file[p].k = "xref" -> XrefObj
    [] file[p].k = "sig"  ->
         LET gt == CHOOSE i \in p..Len(file) :
                     /\ file[i].k = "gt"
                     /\ \A j \in p..(i - 1) : file[j].k # "gt"
         IN  [t |-> "sig", sub |-> file[p].sub, br |-> file[p].br,
              contents |-> SubSeq(file, p + 2, gt - 1)]
    [] OTHER -> Null

\* True if the newest startxref of the file leads to a cross-reference section.
Loadable(file) ==
  /\ StartXrefs(file) # {}
  /\ LET p == LastStartXref(file) + HeaderOffset(file) + 1
     IN  p \in DOMAIN file /\ file[p].k = "xref"

\* The parsed document: the sections along the /Prev chain, the newest entry
\* of each object number first, and the trailer of the newest section.
EntriesFrom(file) ==
  LET base == HeaderOffset(file)
      from[p \in DOMAIN file] ==
        IF file[p].k # "xref" THEN << >>
        ELSE file[p].entries ++
               (IF file[p].prev = 0 THEN << >> ELSE from[file[p].prev + base + 1])
  IN  from
Load(file) ==
  LET base    == HeaderOffset(file)
      newest  == file[LastStartXref(file) + base + 1]
      entries == EntriesFrom(file)[LastStartXref(file) + base + 1]
  IN  [objects |-> [id \in DOMAIN entries |->
                      ObjectAt(file, entries[id] + base + 1)],
       maxId   |-> Max(DOMAIN entries),
       root    |-> newest.root,
       encrypt |-> newest.encrypt]

Resolve(doc, holder) ==
  IF holder.at = "ref" THEN doc.objects[holder.ref] ELSE holder.v

Catalog(doc) == doc.objects[doc.root]

\* A finite set of numbers in ascending order.
Nth(S, i) == CHOOSE x \in S : Cardinality({y \in S : y <= x}) = i
Ascending(S) == [i \in 1..Cardinality(S) |-> Nth(S, i)]

\* Page object ids in page order (lopdf get_pages).
PageIds(doc) ==
  Ascending({id \in DOMAIN doc.objects : doc.objects[id].t = "page"})

-----------------------------------------------------------------------------
(* Rendering an incremental update (incremental.rs).                       *)

\* The value a reader gets back for an object the serializer wrote
\* (write_object, fmt_real): a real number with an integral value is written
\* without a decimal point and reads back as an integer.
Serialized(val) ==
  IF val.t = "catalog" /\ val.number = "integral_real"
  THEN [val EXCEPT !.number = "integer"]
  ELSE val

\* Ordinary objects, one cell each, in ascending object number.
Plain(objs, ids) ==
  [i \in 1..Cardinality(ids) |-> ObjCell(Nth(ids, i), Serialized(objs[Nth(ids, i)]))]

\* /ByteRange sentinels (byte_range_placeholder); each reserves ten digits.
Sentinel == 999
ByteRangePlaceholder == <<0, Sentinel, Sentinel, Sentinel>>

\* A fresh signature dictionary: head, '<', cap zero bytes, '>', tail.
SigCells(id, sig) ==
  <<SigHead(id, sig.sub, ByteRangePlaceholder), Lt>>
    \o [i \in 1..sig.cap |-> Zero] \o <<Gt, EndObj>>

\* Incremental::add: a queue with one object.
Queue(id, val) == [x \in {id} |-> val]

IdsBelow(objs, id) == {i \in DOMAIN objs : i < id}
IdsAbove(objs, id) == {i \in DOMAIN objs : id < i}

\* emit_objects: the queued objects in ascending object number; sig is the fresh
\* signature dictionary among them.
PlainBody(objs) == Plain(objs, DOMAIN objs)
SignedBody(objs, sig) ==
  Plain(objs, IdsBelow(objs, sig)) \o SigCells(sig, objs[sig])
    \o Plain(objs, IdsAbove(objs, sig))

\* Rendered.offsets: which cell of the body an object starts at.
Starts(body) == {i \in DOMAIN body : body[i].k \in {"obj", "sig"}}
BodyIds(body) == {body[i].id : i \in Starts(body)}
PlaceOf(body, id) == CHOOSE i \in Starts(body) : body[i].id = id

EndsWithNewline(file) ==
  LET c == file[Len(file)] IN c.k = "nl" \/ (c.k = "startxref" /\ c.nl)

Terminated(file) == IF EndsWithNewline(file) THEN file ELSE Append(file, Nl)

\* True if the newest cross-reference of the file is a stream.
UsesXrefStream(file) ==
  file[LastStartXref(file) + HeaderOffset(file) + 1].stream

\* Where an update's objects are, relative to the header.
AbsoluteEntries(file, body) ==
  [id \in BodyIds(body) |-> Len(Terminated(file)) + PlaceOf(body, id) - 1]
Entries(file, body) ==
  [id \in BodyIds(body) |->
     Len(Terminated(file)) + PlaceOf(body, id) - 1 - HeaderOffset(file)]

\* A cross-reference stream is itself an object: the one after the last.
XrefId(size) == size

\* The cross-reference section of an update.  A stream indexes itself
\* (render_xref_table, render_xref_stream).
Section(file, body, size, root, xoff) ==
  LET stream == UsesXrefStream(file)
      self   == XrefId(size)
  IN  [k |-> "xref", stream |-> stream,
       entries |-> IF stream THEN Queue(self, xoff) ++ Entries(file, body)
                             ELSE Entries(file, body),
       size    |-> IF stream THEN self + 1 ELSE size,
       prev    |-> LastStartXref(file), root |-> root, encrypt |-> FALSE]

\* Incremental::render: the original cells, then the update.
Render(file, body, size, root) ==
  LET out  == Terminated(file) \o body
      xoff == Len(out) - HeaderOffset(file)
  IN  out \o <<Section(file, body, size, root, xoff), StartXref(xoff, TRUE)>>
=============================================================================
