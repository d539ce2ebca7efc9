---------------------------- MODULE MCIoctlCodec ----------------------------
(***************************************************************************)
(* TLC instance of IoctlCodec: dysks with every field short, each field at *)
(* and around its limit, and requests and replies that nearly fill the     *)
(* buffer.                                                                 *)
(***************************************************************************)
EXTENDS IoctlCodec

InstanceRoom ==
  [f \in ToSet(RequestFields) |->
     CASE f \in {"type", "sectors", "vhd"} -> 6
       [] f = "name" -> 13
       [] OTHER      -> 4]

Repeat(c, n) == [i \in 1..n |-> c]

Texts == {"account", "sas", "path", "host", "ip", "lease"}

Base == [type |-> <<"R", "W">>, name |-> <<"a">>, sectors |-> <<"1">>,
         account |-> <<"account">>, sas |-> <<"sas">>, path |-> <<"path">>,
         host |-> <<"host">>, ip |-> <<"ip">>, lease |-> <<"lease">>, vhd |-> <<"0">>]

With(d, F, n) == [f \in DOMAIN d |-> IF f \in F THEN Repeat(d[f][1], n) ELSE d[f]]

\* The first three fill a list but for the zero behind it, the first two and
\* the fourth leave no room for one; the last leaves none for its own.
InstanceNames ==
  {Repeat("b", 12), Repeat("c", 12), Repeat("b", 11), Repeat("e", 12), Repeat("e", 13)}

InstanceMinors == <<<<"0">>, <<"1">>, <<"2">>>>

\* The reply to the mount of the first of the last three fits exactly; that to
\* the mount of the second has no room for its zero.
InstanceWanted ==
  {With(Base, {f}, 4) : f \in Texts}
    \cup {[Base EXCEPT !.name = name] : name \in InstanceNames \ {Repeat("b", 11)}}
    \cup {[With(Base, Texts, 3) EXCEPT !.name = <<"a", "a">>],
          [With(With(Base, {"sas"}, 3), {"path"}, 2) EXCEPT !.name = Repeat("b", 12)],
          [Base EXCEPT !.type = <<"R">>, !.lease = <<>>, !.vhd = <<"1">>,
                       !.name = Repeat("b", 11)]}
=============================================================================
