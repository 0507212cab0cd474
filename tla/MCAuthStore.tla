---------------------------- MODULE MCAuthStore ----------------------------
(***************************************************************************)
(* Instances of AuthStore for TLC.                                         *)
(***************************************************************************)
EXTENDS AuthStore, TLC

CONSTANTS alice, bob, nobody, good, other, long, empty  \* user names and passwords

\* Two accounts that can be added, one whose password bcrypt refuses, and two that the
\* store does not take.
MCLegacyAccounts == {(alice :> good) @@ (bob :> other), (alice :> good) @@ (bob :> long),
                     (nobody :> good) @@ (bob :> empty)}
=============================================================================
