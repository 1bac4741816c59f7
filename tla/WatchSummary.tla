---------------------------- MODULE WatchSummary ----------------------------
(***************************************************************************)
(* WatchState::summary: what /kubert.json says of a watch.  Its checksum   *)
(* is for comparing controller instances with each other and with the API  *)
(* server (watch.rs:127-130).  The hash (SHA-256) is taken to be injective *)
(* so that a checksum is the sequence it is computed from.                 *)
(***************************************************************************)
EXTENDS Watch, Naturals, FiniteSets, Functions

CONSTANT Created   \* the resources' creation timestamps

ASSUME CreatedAssumption == Created \in [Key -> Nat] /\ IsFiniteSet(Key)

\* What Resource::hash feeds to the hasher: all fields but the generation.
Hashed(k, v) == [creation_timestamp |-> Created[k], key |-> k, resource_version |-> v]

Metas(r) == {Hashed(k, r[k]) : k \in Present(r)}

\* known.values() in any order of the hash map.
Orders(r) == Bijection(1 .. Cardinality(Metas(r)), Metas(r))

\* Mutant: the resources stay in the order of the hash map.
SortedAsMapped(r) == Orders(r)

\* Sorted by creation timestamp.  Resources created in the same second stay in
\* the map's order.
Sorted(r) ==
    {s \in Orders(r) :
        \A i, j \in DOMAIN s :
            i < j => s[i].creation_timestamp <= s[j].creation_timestamp}

\* The checksums that a summary may give for the resources r: an Option.
Checksums(r) == IF r = Nothing THEN {<<>>} ELSE {<<s>> : s \in Sorted(r)}

\* No two of the resources r were created in the same second.
CreatedApart(r) ==
    \A j, k \in Present(r) : Created[j] = Created[k] => j = k

\* What the checksum tells, by which states "can easily be compared"
\* (lib.rs:68-69), once a list has completed.  The instances that are up to date
\* all report the same one, whatever the order of their maps, if and only if no
\* two resources were created at once: otherwise two that know the same may
\* differ.  One that is behind by an event always differs from those that are
\* not.
ChecksumTells ==
    phase = "watching" =>
        /\ CreatedApart(view) <=> \E c \in Checksums(view) : Checksums(known) = {c}
        /\ \A k \in Key, v \in Version \cup {None} :
              v # view[k] => Checksums(known) \cap
                             Checksums([view EXCEPT ![k] = v]) = {}
=============================================================================
