-------------------------- MODULE CredentialStore --------------------------
(***************************************************************************)
(* What a program may rely on of the authentication cache, however its     *)
(* calls are mixed with connections: credentials are kept in the order in  *)
(* which they were cached, and one that is gone does not come back unless  *)
(* it is cached again.  That they stay until they are removed is not part  *)
(* of it.                                                                  *)
(***************************************************************************)
EXTENDS Integers, Sequences

CONSTANTS Credentials
VARIABLES store     \* the credentials that can be found, the oldest first

StoreInit == store = <<>>

\* What can be left of a sequence when some of it is gone.
Increasing(n, m) ==
    {f \in [1 .. n -> 1 .. m] : \A i, j \in 1 .. n : i < j => f[i] < f[j]}
Rests(s) ==
    UNION {{[i \in 1 .. n |-> s[f[i]]] : f \in Increasing(n, Len(s))} : n \in 0 .. Len(s)}

Lose == store' \in Rests(store)
Cache == \E rest \in Rests(store), c \in Credentials : store' = Append(rest, c)

StoreNext == Lose \/ Cache
StoreSpec == StoreInit /\ [][StoreNext]_store

=============================================================================
