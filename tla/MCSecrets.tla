----------------------------- MODULE MCSecrets -----------------------------
(* Secrets on small instances. *)
EXTENDS Secrets

\* Two boxes have their own secret; it goes about by the owner's taps alone.
Copies == [own |-> {1, 2}, may |-> {"set", "share", "unshare", "delete"},
           tap |-> 3, late |-> 1, cut |-> 0]

\* One sender, and a power cut.
CopiesCut == [own |-> {1}, may |-> {"set", "share", "delete"}, tap |-> 3, late |-> 0, cut |-> 1]

\* The third box asks, and the owner taps on several dashboards.
Asks == [own |-> {1, 2}, may |-> {"request", "approve", "deny"}, tap |-> 3, late |-> 1, cut |-> 0]

AsksCut == [own |-> {1}, may |-> {"request", "approve", "deny"}, tap |-> 2, late |-> 0, cut |-> 1]

\* A box asks, and the owner sets the secret there, or anew where it is.
AsksAndCopies == [own |-> {1}, may |-> {"request", "approve", "set"},
                  tap |-> 3, late |-> 0, cut |-> 0]

AllPlays == {Copies, CopiesCut, Asks, AsksCut, AsksAndCopies}
=============================================================================
