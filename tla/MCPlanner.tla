----------------------------- MODULE MCPlanner -----------------------------
(***************************************************************************)
(* A few ISOs and releases for TLC, chosen so that two ISOs may lead to    *)
(* the same file, or to files that only fit one at a time.                 *)
(***************************************************************************)
EXTENDS Planner

CONSTANTS root, desktop, server, a, b

Detected(v, custom) ==
  [directory |-> root, variant |-> v, custom |-> custom,
   finding |-> [known |-> TRUE, errors |-> {}]]

SomeDetections ==
  {Detected(desktop, FALSE), Detected(server, TRUE),
   [directory |-> root, variant |-> desktop, custom |-> FALSE,
    finding |-> [known |-> FALSE, errors |-> {"catalog", "unknown"}]],
   [directory |-> root, variant |-> desktop, custom |-> FALSE,
    finding |-> [known |-> TRUE, errors |-> {"provider"}]]}

Good(name, size, v) ==
  [name |-> name, size |-> size, verified |-> TRUE, newer |-> TRUE, variant |-> v]

SomeReleases ==
  {Good(a, 1, desktop), Good(a, 2, server), Good(b, NoSize, server), Good(b, 2, desktop),
   [Good(a, 1, desktop) EXCEPT !.verified = FALSE],
   [Good(b, 1, server) EXCEPT !.newer = FALSE]}
=============================================================================
