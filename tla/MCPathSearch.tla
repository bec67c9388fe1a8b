---------------------------- MODULE MCPathSearch ----------------------------
(***************************************************************************)
(* Instances of PathSearch for TLC: small cross-certified PKIs.  Which     *)
(* paths finalize refuses is what module Policy says of them.              *)
(***************************************************************************)
EXTENDS PathSearch, FiniteSetsExt

CONSTANTS leaf, a, b, c, r1, r2

\* Who may have issued whom; a and b certify each other.
Links ==
  {<<leaf, a>>, <<leaf, b>>, <<a, b>>, <<b, a>>, <<b, c>>, <<a, r1>>, <<c, r1>>, <<c, r2>>}

Certs == {leaf, a, b, c, r1, r2}

Plain(links) ==
  [leaf |-> leaf, roots |-> <<r1, r2>>, pool |-> <<a, b, c>>, leafOk |-> TRUE,
   issued |-> links, current |-> Certs,
   usable |-> {a, b, c}, pathLen |-> [x \in {a, b, c} |-> 9],
   selfIssued |-> {}, revoked |-> {}, refused |-> {}]

-----------------------------------------------------------------------------
(* The names and policies of the certificates, and the verdict on a path.  *)

\* Policy, for a path from its anchor to its leaf and the policy required of it.
Judge(certs, req) ==
  INSTANCE Policy WITH
    Policies <- {"P", "Q"}, AnyPolicy <- "any", Absent <- 9, Inputs <- {},
    path <- certs, required <- req, pc <- "done", depth <- 1, tree <- {}, expected <- << >>,
    explicit <- 0, mapping <- 0, inhibit <- 0, verdict <- "none"

\* What finalize accepts, as VerdictIsRight of Policy says it.
Accepts(certs, req) ==
  /\ Judge(certs, req)!NamesAreOpen
  /\ Judge(certs, req)!Size > 0 =>
       /\ ~Judge(certs, req)!MapsAnyPolicy
       /\ Judge(certs, req)!PolicyIsDue => Judge(certs, req)!PolicyRemains

Name(x) == [type |-> "dn", labels |-> <<x>>, user |-> "", dot |-> FALSE]
Content ==
  [x \in Certs |->
    [names |-> {Name(x)}, constraints |-> [excluded |-> {}, permitted |-> {}],
     selfIssued |-> FALSE, asserts |-> TRUE, policies |-> {"any"}, maps |-> {},
     requireExplicit |-> 9, inhibitMapping |-> 9, inhibitAny |-> 9]]

\* x does not allow the name of y below it; x maps the required policy to the one that
\* the leaf has; x asserts no policies.
Excluding(x, y) == [Content EXCEPT ![x].constraints.excluded = {Name(y)}]
Mapping(x) ==
  [Content EXCEPT ![leaf].policies = {"Q"}, ![x].policies = {"P"}, ![x].maps = {<<"P", "Q">>}]
Unasserted(x) == [Content EXCEPT ![x].asserts = FALSE, ![x].policies = {}]

Refusing(p, content, req) ==
  LET linked(chain) == \A k \in 1..(Len(chain) - 1) : <<chain[k], chain[k + 1]>> \in p.issued
      judged(chain) == Reverse([k \in 1..Len(chain) |-> content[chain[k]]])
  IN  [p EXCEPT !.refused =
         {chain \in Routes(p) : linked(chain) /\ ~Accepts(judged(chain), req)}]

-----------------------------------------------------------------------------
\* One thing that may be wrong with a PKI, and the certificate or link concerned.
Faults ==
  {<<"none", leaf>>, <<"leaf", leaf>>, <<"order", leaf>>, <<"trusted leaf", leaf>>}
    \cup ({"expired"} \X {leaf, a, b, r1})
    \cup ({"no CA"} \X {a, b, c})
    \cup ({"no path below", "short path", "self-issued"} \X {a, b, c})
    \cup ({"revoked", "forged"} \X Links)
    \cup ({"name"} \X {<<a, leaf>>, <<r1, leaf>>, <<r1, a>>, <<c, b>>})
    \cup ({"mapping", "no policies"} \X {a, b, c})
    \cup ({"cross-signed root"} \X {a, b})

With(p, fault) ==
  LET x == fault[2]
  IN  CASE fault[1] = "none"          -> p
        [] fault[1] = "leaf"          -> [p EXCEPT !.leafOk = FALSE]
        [] fault[1] = "order"         -> [p EXCEPT !.roots = <<r2, r1>>, !.pool = <<c, b, a>>]
        [] fault[1] = "trusted leaf"  -> [p EXCEPT !.leaf = r1]
        [] fault[1] = "expired"       -> [p EXCEPT !.current = @ \ {x}]
        [] fault[1] = "no CA"         -> [p EXCEPT !.usable = @ \ {x}]
        [] fault[1] = "no path below" -> [p EXCEPT !.pathLen[x] = 0]
        [] fault[1] = "short path"    -> [p EXCEPT !.pathLen[x] = 1]
        [] fault[1] = "self-issued"   -> [p EXCEPT !.pathLen[a] = 0, !.pathLen[c] = 0,
                                                   !.selfIssued = {x}]
        [] fault[1] = "revoked"       -> [p EXCEPT !.revoked = {x}]
        [] fault[1] = "forged"        -> [p EXCEPT !.issued = @ \ {x}]
        [] fault[1] = "name"          -> Refusing(p, Excluding(x[1], x[2]), "any")
        [] fault[1] = "mapping"       -> Refusing(p, Mapping(x), "P")
        [] fault[1] = "no policies"   -> Refusing(p, Unasserted(x), "P")
        [] fault[1] = "cross-signed root" ->
             Refusing([p EXCEPT !.roots = <<x, r1, r2>>], Mapping(x), "P")

\* Every PKI with some of the links, and one thing wrong with it.
MCPkis == {With(Plain(links), fault) : links \in SUBSET Links, fault \in Faults}
=============================================================================
