----------------------------- MODULE MCSigning -----------------------------
(***************************************************************************)
(* Instances of Signing for TLC: the documents other programs may have     *)
(* written, the options of a call and the validation material.             *)
(***************************************************************************)
EXTENDS Signing

\* A document with the given features.  Object 1 is the catalog, 2 the page.
Doc(f) ==
  LET form == [t |-> "form", sigFlags |-> FALSE, needAppearances |-> TRUE,
               fields |-> IF f.form \in {"ref_ref", "inline_ref"} THEN RefTo(4)
                          ELSE Inline(Arr(<< >>))]
      dss  == [EmptyDss EXCEPT !.arr["CRLs"] =
                 IF f.dss = "ref_ref" THEN RefTo(7) ELSE Inline(Arr(<<8>>))]
      catalog == [t |-> "catalog", docmdp |-> f.docmdp, number |-> f.number,
                  form |-> CASE f.form = "none" -> Absent
                             [] f.form \in {"ref", "ref_ref"} -> RefTo(3)
                             [] OTHER -> Inline(form),
                  dss |-> CASE f.dss = "none" -> Absent
                            [] f.dss = "inline" -> Inline(dss)
                            [] OTHER -> RefTo(6)]
      page == [t |-> "page", body |-> 0,
               annots |-> CASE f.annots = "none" -> Absent
                            [] f.annots = "inline" -> Inline(Arr(<< >>))
                            [] OTHER -> RefTo(5)]
      objs == (1 :> catalog) @@ (2 :> page)
                @@ (IF f.form \in {"ref", "ref_ref"} THEN 3 :> form ELSE << >>)
                @@ (IF f.form \in {"ref_ref", "inline_ref"} THEN 4 :> Arr(<< >>) ELSE << >>)
                @@ (IF f.annots = "ref" THEN 5 :> Arr(<< >>) ELSE << >>)
                @@ (IF f.dss \in {"ref", "ref_ref"} THEN 6 :> dss ELSE << >>)
                @@ (IF f.dss = "ref_ref" THEN 7 :> Arr(<<8>>) ELSE << >>)
                @@ (IF f.dss # "none" THEN 8 :> Der("crl0") ELSE << >>)
      ids  == Ascending(DOMAIN objs)
      n    == Len(ids)
      start == IF f.junk THEN <<Junk, Hdr>> ELSE <<Hdr>>
      entries == [id \in DOMAIN objs |-> CHOOSE i \in 1..n : ids[i] = id]
      self    == Max(DOMAIN objs) + 1
  IN  start \o [i \in 1..n |-> ObjCell(ids[i], objs[ids[i]])]
        \o <<[k |-> "xref", stream |-> f.stream, prev |-> 0, root |-> 1,
              encrypt |-> f.encrypt,
              entries |-> IF f.stream THEN entries @@ (self :> n + 1) ELSE entries,
              size |-> IF f.stream THEN self + 1 ELSE self],
             StartXref(n + 1, f.newline)>>

Plainest ==
  [form |-> "none", annots |-> "none", dss |-> "none", docmdp |-> 0, number |-> "none",
   junk |-> FALSE, stream |-> FALSE, encrypt |-> FALSE, newline |-> TRUE]

\* Every shape of form, annotations and DSS, with both kinds of cross-reference.
Shapes ==
  {[Plainest EXCEPT !.form = form, !.annots = annots, !.dss = dss,
                    !.stream = stream, !.junk = stream, !.newline = ~stream] :
     form \in {"none", "inline", "ref", "ref_ref", "inline_ref"},
     annots \in {"none", "inline", "ref"},
     dss \in {"none", "inline", "ref", "ref_ref"}, stream \in BOOLEAN}
RefusedDocs ==
  {[Plainest EXCEPT !.encrypt = TRUE], [Plainest EXCEPT !.docmdp = 1]}
\* A number such as 0.0 in a catalog that the signature itself does not write again,
\* because the form is an object of its own.
RealNumberDoc == [Plainest EXCEPT !.form = "ref", !.number = "integral_real"]
MCOneCallFiles == {Doc(f) : f \in Shapes \cup RefusedDocs \cup {RealNumberDoc}}

\* Two documents at the extremes, for histories of several calls and edits.
MCHistoryFiles ==
  {Doc([Plainest EXCEPT !.docmdp = 2]),
   Doc([Plainest EXCEPT !.form = "ref_ref", !.annots = "ref", !.dss = "ref_ref",
                        !.stream = TRUE, !.junk = TRUE, !.newline = FALSE])}

Option(level, cap, ap, page) ==
  [level |-> level, tsa |-> TRUE, cap |-> cap, ap |-> ap, page |-> page, drawable |-> TRUE]

MCOneCallOptions ==
  {Option(level, 2, "text", 1) : level \in Bb..Blta}
    \cup {Option(Bb, 2, "full", 1), Option(Bb, 1, "none", 9)}
    \cup {[Option(Bt, 2, "none", 1) EXCEPT !.tsa = FALSE],
          Option(Bb, 0, "none", 1), Option(Bb, 9, "none", 1), Option(Bb, 2, "text", 2),
          [Option(Bb, 2, "text", 1) EXCEPT !.drawable = FALSE]}
MCHistoryOptions == {Option(level, 1, "none", 1) : level \in {Bb, Blt, Blta}}

Material(crls, ocsps) ==
  [key \in DssKeys |-> CASE key = "Certs" -> {"cert"} [] key = "CRLs" -> crls
                         [] OTHER -> ocsps]
MCOneCallMaterials ==
  {Material({}, {}), Material({"crl0", "crl1"}, {"ocsp"})}
MCHistoryMaterials ==
  {Material({"crl0"}, {}), Material({"crl1"}, {"ocsp"})}

\* The instances meet the hypotheses of the theorems about what documents say.
ASSUME InstancesAreSigned == SignedBefore
ASSUME InstancesHaveFields == FieldsBefore
ASSUME InstancesHaveMaterial == MaterialBefore
ASSUME InstancesStartIntact == InitialFiles = MCHistoryFiles => IntactBefore
=============================================================================
