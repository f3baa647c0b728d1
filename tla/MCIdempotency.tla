--------------------------- MODULE MCIdempotency ---------------------------
(* A small instance of the idempotency layer with real fingerprints. *)
EXTENDS Idempotency, Fingerprint

CONSTANTS h1, h2, p1, p2, p3, p4, p5, p6

MCNameOrder == <<"balances", "body", "days", "employeeId", "url">>

\* Rows in both member orders, and snapshots of two rows, whose members are
\* three levels deep in an array.
Leaves == {Leaf("1"), Leaf("2"), Leaf("batch"), Leaf("create"), Leaf("reconcile")}
Body(e, d) == Object(<<Member("employeeId", Leaf(e)), Member("days", Leaf(d))>>)
Reversed(e, d) == Object(<<Member("days", Leaf(d)), Member("employeeId", Leaf(e))>>)
Flat == {Body("1", "1"), Reversed("1", "1"), Body("1", "2"), Reversed("2", "1"),
         Body("2", "1"), Object(<<Member("days", Leaf("1"))>>), Object(<< >>)}
Rows == {Array(<<a, b>>) : a, b \in Flat}
Balances(rows) == Object(<<Member("balances", rows)>>)
Bodies == Flat \union {Balances(rows) : rows \in Rows} \union {Leaf("1")}

Request(url, body) == Object(<<Member("url", Leaf(url)), Member("body", body)>>)
Snapshot(a, b) == Request("batch", Balances(Array(<<a, b>>)))
SnapshotOne == Snapshot(Body("1", "1"), Body("2", "1"))
\* The same snapshot by a client that orders its members differently, at the
\* top and in one of the rows.
SnapshotAgain ==
  Object(<<Member("body", Balances(Array(<<Reversed("1", "1"), Body("2", "1")>>))),
           Member("url", Leaf("batch"))>>)
\* Another snapshot: the same rows, the other way round.
SnapshotTwo == Snapshot(Body("2", "1"), Body("1", "1"))
CreateOne == Request("create", Body("1", "1"))
Reconcile == Request("reconcile", Object(<< >>))

MCPayloads ==
  {Request("batch", b) : b \in Bodies} \union {SnapshotAgain, CreateOne, Reconcile}
MCValues == Leaves \union Rows \union Bodies \union MCPayloads
MCAwaiting == {Reconcile}
MCFingerprint == [q \in MCPayloads |-> canonicalFingerprint(q)]
MCMeaning == [q \in MCPayloads |-> unordered[q]]

\* h1: a snapshot, its retry in another order of members and another snapshot;
\* h2: two operator posts that await HCM; and a post without a key.
MCSent ==
  (p1 :> [key |-> h1, payload |-> SnapshotOne]) @@
  (p2 :> [key |-> h1, payload |-> SnapshotAgain]) @@
  (p3 :> [key |-> h1, payload |-> SnapshotTwo]) @@
  (p4 :> [key |-> h2, payload |-> Reconcile]) @@
  (p5 :> [key |-> h2, payload |-> Reconcile]) @@
  (p6 :> [key |-> NoKey, payload |-> CreateOne])
============================================================================
