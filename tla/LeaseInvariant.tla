--------------------------- MODULE LeaseInvariant ---------------------------
(***************************************************************************)
(* The inductive invariant behind the safety properties of module Lease:   *)
(* what a cached state, a patch on its way and a reply on its way still    *)
(* say of the lease, and what backs a claim.                               *)
(***************************************************************************)
EXTENDS Lease

\* A claim of c that expires at e is backed by the lease, or about to expire.
Backed(c, e) ==
    \/ lease.holder = c /\ e <= Expiry(lease) + Loss
    \/ e <= now + Slack

\* A lease as the managers write it.
WellFormed(l) ==
    /\ l.transitions < U16
    /\ l.holder # NoClaimant =>
          /\ l.renewTime # Absent
          /\ l.renewTime = Micros(l.renewTime)
          /\ l.renewTime <= Clock(l.holder)
          /\ l.leaseDurationSeconds = Seconds(LeaseDuration)

\* The lease may be acquired by c: free, c's own, or run out on c's clock.
Acquirable(c) ==
    \/ lease.holder \in {NoClaimant, c}
    \/ Expiry(lease) <= Clock(c)

\* A state st cached by c: its own claim is backed, and the rest holds of the
\* lease for as long as its version is current.
Coherent(c, st) ==
    /\ st.version <= lease.version
    /\ st.claim.holder = c => Backed(c, st.claim.expiry)
    /\ st.version = lease.version =>
          /\ st.transitions = lease.transitions
          /\ st.claim.holder = NoClaimant => Acquirable(c)
          /\ st.claim.holder # NoClaimant =>
                /\ lease.holder = st.claim.holder
                /\ lease.holder # c => st.claim.expiry = Expiry(lease)

\* A patch on its way: what it relies on if its version is still current.
Justified(p) ==
    /\ p.version <= lease.version
    /\ p.time <= Clock(p.by)
    /\ p.version = lease.version =>
          /\ lease.holder = p.by => lease.renewTime <= Micros(p.time)
          /\ IF p.kind = "acquire"
             THEN /\ p.transitions = (lease.transitions + 1) % U16
                  /\ Acquirable(p.by)
             ELSE /\ p.transitions = lease.transitions
                  /\ lease.holder = p.by

\* A reply on its way to c.
Receiving(c) ==
    /\ pc[c] = "patched" /\ call[c] # "vacate" =>
          /\ resp[c].version <= lease.version
          /\ Backed(c, req[c].time + LeaseDuration)
          /\ resp[c].version = lease.version =>
                /\ lease.holder = c
                /\ lease.transitions = req[c].transitions
    /\ pc[c] = "got" =>
          /\ resp[c].version <= lease.version
          /\ WellFormed(resp[c])
          /\ resp[c].version = lease.version => resp[c] = lease
          /\ resp[c].holder = c => Backed(c, Expiry(resp[c]))

\* The caller acts on a claim of its own, and on none while it vacates.
Acting(c) ==
    /\ held[c].holder \in {c, NoClaimant}
    /\ held[c].holder = c => Backed(c, held[c].expiry)
    /\ pc[c] \in {"patch", "patched"} =>
          /\ req[c].by = c
          /\ call[c] = IF req[c].kind = "vacate" THEN "vacate"
                                                 ELSE "ensure_claimed"
          /\ call[c] = "vacate" =>
                /\ state[c].claim = NoClaim
                /\ held[c] = NoClaim
    /\ pc[c] \in {"get", "got"} => call[c] \in {"init", "sync", "ensure_claimed"}

ManagerInv(c) ==
    /\ Coherent(c, state[c])
    /\ pc[c] = "patch" => Justified(req[c])
    /\ Receiving(c)
    /\ Acting(c)

\* Every cached state, request and reply agrees with the lease as far as its
\* resourceVersion is current, and every claim in a manager or with a caller
\* is backed.  (It takes that no vacate is applied late.)
Inv ==
    /\ TypeOK
    /\ lease.version > 0
    /\ WellFormed(lease)
    /\ \A p \in late : p.kind # "vacate" /\ Justified(p)
    /\ \A c \in Claimant : ManagerInv(c)
=============================================================================
