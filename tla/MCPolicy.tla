------------------------------ MODULE MCPolicy ------------------------------
(***************************************************************************)
(* Paths for TLC: every combination of policies and mappings, with up to   *)
(* one limit and one self-issued certificate; and every kind of name.      *)
(***************************************************************************)
EXTENDS Policy

CONSTANTS a, b

Free == [excluded |-> {}, permitted |-> {}]
Bare ==
  [names |-> {}, constraints |-> Free, selfIssued |-> FALSE, asserts |-> TRUE,
   policies |-> {AnyPolicy}, maps |-> {}, requireExplicit |-> Absent,
   inhibitMapping |-> Absent, inhibitAny |-> Absent]

Asserted == {[Bare EXCEPT !.asserts = FALSE, !.policies = {}]}
              \cup {[Bare EXCEPT !.policies = s] :
                      s \in {{a}, {b}, {a, b}, {AnyPolicy}, {a, AnyPolicy}}}
Cas == {[c EXCEPT !.maps = m] : c \in Asserted, m \in {{}, {<<a, b>>}, {<<b, a>>, <<b, b>>}}}

Limits ==
  {<<"none", 1, 0>>}
    \cup {"requireExplicit", "inhibitMapping", "inhibitAny"} \X {1, 2} \X {0, 1}
    \cup {<<"requireExplicit", 3, 0>>, <<"maps any", 2, 0>>}
Limited(certs, limit) ==
  CASE limit[1] = "requireExplicit" -> [certs EXCEPT ![limit[2]].requireExplicit = limit[3]]
    [] limit[1] = "inhibitMapping"  -> [certs EXCEPT ![limit[2]].inhibitMapping = limit[3]]
    [] limit[1] = "inhibitAny"      -> [certs EXCEPT ![limit[2]].inhibitAny = limit[3]]
    [] limit[1] = "maps any"        -> [certs EXCEPT ![limit[2]].maps = {<<a, AnyPolicy>>}]
    [] OTHER                        -> certs
SelfIssued(certs, i) == IF i = 0 THEN certs ELSE [certs EXCEPT ![i].selfIssued = TRUE]

PolicyPaths ==
  {<<Bare>> \o SelfIssued(Limited(<<x, y, z>>, limit), i) :
     x \in Cas, y \in Cas, z \in Asserted, limit \in Limits, i \in {0, 2, 3}}

\* Names below a CA and the constraints it may have.
Names ==
  {NameOf("dn", <<"org">>), NameOf("dn", <<"org", "x">>), NameOf("dns", <<"net", "org">>),
   NameOf("uri", <<"net">>), NameOf("uri", <<"net", "org">>),
   Mailbox("me", <<"net">>), Mailbox("me", <<"net", "org">>)}
Bases ==
  {NameOf("dn", <<"org", "x">>), NameOf("dns", <<"net">>), NameOf("uri", <<"net">>),
   WithDot(NameOf("uri", <<"net">>)), Mailbox("me", <<"net">>),
   WithDot(NameOf("email", <<"net">>)), NameOf("email", <<"net">>)}
Constraints ==
  {Free} \cup {[excluded |-> {x}, permitted |-> {}] : x \in Bases}
    \cup {[excluded |-> {}, permitted |-> {x, y}] : x \in Bases, y \in Bases}
NamePaths ==
  {<<[Bare EXCEPT !.constraints = top], [Bare EXCEPT !.constraints = nc, !.names = {m}],
     SelfIssued(<<[Bare EXCEPT !.names = {n}]>>, i)[1]>> :
     top \in {Free, [excluded |-> {}, permitted |-> {NameOf("dn", <<"org", "x">>)}]},
     nc \in Constraints, m \in {NameOf("dn", <<"org">>), NameOf("dns", <<"net">>)},
     n \in Names, i \in {0, 1}}

MCInputs ==
  [path : PolicyPaths, required : {AnyPolicy, a, b}]
    \cup [path : NamePaths \cup {<<Bare>>, <<Bare, Bare>>}, required : {AnyPolicy}]
=============================================================================
