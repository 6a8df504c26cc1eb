---------------------------- MODULE PartialMaps -----------------------------
(***************************************************************************)
(* Maps from keys to values, as functions on the keys they have.           *)
(***************************************************************************)
EXTENDS Functions

PutEntry(m, k, v) == [j \in DOMAIN m \cup {k} |-> IF j = k THEN v ELSE m[j]]

\* The entries of m hide those of n.
Join(m, n) == [j \in DOMAIN m \cup DOMAIN n |-> IF j \in DOMAIN m THEN m[j] ELSE n[j]]

DropKeys(m, ks) == Restrict(m, DOMAIN m \ ks)
KeepKeys(m, ks) == Restrict(m, DOMAIN m \cap ks)
=============================================================================
