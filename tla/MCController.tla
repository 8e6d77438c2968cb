---------------------------- MODULE MCController ----------------------------
(***************************************************************************)
(* Instances of Controller for model checking.  A GiB has two bytes and    *)
(* the smallest volume two GiB, so that a request can end inside a GiB.    *)
(***************************************************************************)
EXTENDS Controller

Request(r, l, ls, f, t) == [required |-> r, limit |-> l, labels |-> ls, fs |-> f, top |-> t]

Topology(p, r) == [preferred |-> p, requisite |-> r]

Plain(r, l) == Request(r, l, {}, None, None)

TwoRequests == {Plain(0, 0), Plain(10, 0)}

\* A size inside a GiB.
OddRequest == {Plain(7, 0)}

OneRegion == [z \in Zones |-> "region"]

OwnRegions == [z \in Zones |-> z]
=============================================================================
