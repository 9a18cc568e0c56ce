----------------------------- MODULE MCJobQueue -----------------------------
(* Model values and request sets for the run of JobQueue.                  *)
EXTENDS JobQueue

CONSTANTS j1, j2, k1, k2, d1, d2, i1

(* Every job with a key of its own, as the import and export coordinators  *)
(* enqueue them, and requests that collide with them: the other job's key, *)
(* and other contents under the same key.                                  *)
Colliding == {[id |-> j1, key |-> k1, digest |-> d1],
              [id |-> j2, key |-> k2, digest |-> d1],
              [id |-> j1, key |-> k2, digest |-> d1],
              [id |-> j1, key |-> k1, digest |-> d2]}

SomePercents == {0, 30}
=============================================================================
