-------------------------- MODULE MCLabelController --------------------------
(***************************************************************************)
(* The controllers together, for model checking.                           *)
(***************************************************************************)
EXTENDS MCController, ControllerInvariant

\* Two zones.  A topology leads to its first preferred zone, else to its first
\* requisite one, so that retries for a volume may lead to the one or the other.
\* The driver runs in "a".
Preferred == Topology(<<"b", "a">>, <<"a", "b">>)
Requisite == Topology(<<>>, <<"a", "b">>)
NoZone    == Topology(<<"b">>, <<None>>)

\* A claim of the default size, whose node is chosen twice; a size inside a GiB
\* with a limit; and a larger size, with a label that CreateVolume refuses late.
\* The last four are refused at once.
SomeRequests ==
  {Request(0, 0, {"user"}, None, Preferred),
   Request(0, 0, {"user"}, None, Requisite),
   Request(7, 7, {}, "f", Requisite),
   Request(10, 0, {"created-by"}, None, Preferred),
   Request(8, 6, {}, None, Preferred),
   Request(0, 2, {}, None, Preferred),
   Request(0, 0, {}, None, NoZone),
   Request(0, 0, {}, None, Topology(<<>>, <<>>))}
=============================================================================
