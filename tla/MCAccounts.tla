----------------------------- MODULE MCAccounts -----------------------------
(* An instance of the accounts for TLC: see MCAccounts.cfg.                 *)
EXTENDS Accounts, TLC

CONSTANTS u1, u2, u3, u4, p1, p2, c1, c2

\* u1 and u2 collide in every table, u3 only in the first one; nobody ever gives u4.
MCHash == u1 :> 1 @@ u2 :> 9 @@ u3 :> 3 @@ u4 :> 0

MCStartLists == { << >>, << <<u2, p1>> >>,
                  << <<u3, p2>>, <<u2, p2>>, <<u1, p1>> >> }

\* Nothing; or another password of a user, and a stranger in the way.
MCDirtChoices == { Clean, 2 :> <<u3, p1>> @@ 4 :> <<u4, p1>> }
=============================================================================
