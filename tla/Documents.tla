----------------------------- MODULE Documents -----------------------------
(***************************************************************************)
(* The documents the crate can be given, that is what lopdf and the crate  *)
(* rely on without looking: a cross-reference section points backwards, a  *)
(* value has the entries of its kind, a reference leads to a value of the  *)
(* kind that is expected there, and the range of a signature leaves out    *)
(* its own placeholder.                                                    *)
(***************************************************************************)
EXTENDS SignatureReport

-----------------------------------------------------------------------------
(* Values.                                                                 *)

Holders(V) ==
  {Absent} \cup [at : {"inline"}, ref : {0}, v : V] \cup [at : {"ref"}, ref : Nat, v : {Null}]

Arrays   == [t : {"array"}, a : Seq(Nat)]
Pages    == [t : {"page"}, body : Nat, annots : Holders(Arrays)]
Forms    == [t : {"form"}, fields : Holders(Arrays),
             sigFlags : BOOLEAN, needAppearances : BOOLEAN]
Dsses    == [t : {"dss"}, arr : [DssKeys -> Holders(Arrays)]]
Widgets  == [t : {"widget"}, sig : Nat]
Catalogs == [t : {"catalog"}, docmdp : 0..3, form : Holders(Forms), dss : Holders(Dsses),
             number : {"none", "integer", "integral_real"}]

IsValue(val) ==
  \/ val \in Catalogs \cup Pages \cup Forms \cup Dsses \cup Arrays \cup Widgets \cup {ApObj}
  \/ val.t = "der" /\ val = Der(val.der)

-----------------------------------------------------------------------------
(* Files.                                                                  *)

\* The section at p has the numbers below its size, each with the place of an object
\* of this number, and the place of an earlier section.
IsSection(file, p) ==
  LET x    == file[p]
      base == HeaderOffset(file)
  IN  /\ x.size \in Nat /\ x.prev \in Nat /\ x.root \in Nat
      /\ DOMAIN x.entries # {} /\ DOMAIN x.entries \subseteq 0..(x.size - 1)
      /\ x.entries \in [DOMAIN x.entries -> Int]
      /\ \A id \in DOMAIN x.entries :
           LET q == x.entries[id] + base + 1
           IN  /\ q \in 1..p
               /\ \/ file[q].k = "xref"
                  \/ file[q].k \in {"obj", "sig"} /\ file[q].id = id
      /\ x.prev # 0 => /\ x.prev + base + 1 \in 1..(p - 1)
                       /\ file[x.prev + base + 1].k = "xref"

\* The object at p is a signature dictionary with its whole placeholder.
WholeAt(file, p, cap) ==
  /\ p + cap + 2 < Len(file)
  /\ file[p] = SigHead(file[p].id, file[p].sub, file[p].br)
  /\ file[p + 1] = Lt /\ file[p + 2 + cap] = Gt
  /\ \A i \in (p + 1)..(p + 1 + cap) : file[i].k # "gt"
IsWhole(file, p) == \E cap \in 0..Len(file) : WholeAt(file, p, cap)

Readable(file) ==
  /\ \E i \in DOMAIN file : file[i].k = "hdr"
  /\ Loadable(file)
  /\ \A p \in DOMAIN file :
       /\ file[p].k = "xref"      => IsSection(file, p)
       /\ file[p].k = "startxref" => file[p].at \in Nat
       /\ file[p].k = "obj"       => file[p].id \in Nat /\ IsValue(file[p].val)
       /\ file[p].k = "sig"       => file[p].id \in Nat /\ IsWhole(file, p)

\* What the signature at p leaves out begins with its own placeholder.
PlacedAt(file, p) ==
  LET sig == ObjectAt(file, p) IN sig.br \in [1..4 -> Int] /\ GapStart(sig) = p
WellPlaced(file) ==
  \A p \in DOMAIN file : file[p].k = "sig" => PlacedAt(file, p)

\* Every signature verifies.
AllVerify(file) ==
  \A p \in DOMAIN file : file[p].k = "sig" => Valid(file, ObjectAt(file, p))

-----------------------------------------------------------------------------
(* Documents.                                                              *)

LeadsTo(doc, holder, V) ==
  holder.at = "ref" => holder.ref \in DOMAIN doc.objects /\ doc.objects[holder.ref] \in V

\* The elements of an array are references to objects.
Known(doc, arr) == Range(arr.a) \subseteq DOMAIN doc.objects
ArrayIn(doc, holder) ==
  LeadsTo(doc, holder, Arrays) /\ (holder.at = "inline" => Known(doc, holder.v))
FormIn(doc, form) == ArrayIn(doc, form.fields)
DssIn(doc, dss)   == \A key \in DssKeys : ArrayIn(doc, dss.arr[key])

\* Every reference in the value leads to a value of the kind that is expected there.
IsSound(doc, val) ==
  /\ val.t = "array" => Known(doc, val)
  /\ val.t = "page"  => ArrayIn(doc, val.annots)
  /\ val.t = "form"  => FormIn(doc, val)
  /\ val.t = "dss"   => DssIn(doc, val)
  /\ val.t = "catalog" =>
       /\ LeadsTo(doc, val.form, Forms) /\ (val.form.at = "inline" => FormIn(doc, val.form.v))
       /\ LeadsTo(doc, val.dss, Dsses)  /\ (val.dss.at = "inline" => DssIn(doc, val.dss.v))

IsDocument(doc) ==
  /\ doc.root \in DOMAIN doc.objects /\ Catalog(doc) \in Catalogs
  /\ \E id \in DOMAIN doc.objects : doc.objects[id].t = "page"
  /\ \A id \in DOMAIN doc.objects : IsSound(doc, doc.objects[id])
=============================================================================
