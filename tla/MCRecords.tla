----------------------------- MODULE MCRecords -----------------------------
(***************************************************************************)
(* What the server has on record: the two stores, called alike, and the    *)
(* membership check that reads receipts and the chain.  They share no      *)
(* state in these models, and a behaviour of the run is one of one part,   *)
(* chosen at the start.                                                    *)
(***************************************************************************)
EXTENDS Stores, MemberAccess, TLC

CONSTANTS p1, p2, n1, n2, q1, q2

\* Both names have the first query in them; the second has a wildcard.
MCIncludes == {<<q1, n1>>, <<q1, n2>>, <<q2, n1>>}
MCLike == {q1, q2} \X {n1, n2}

\* The names have cases that only localeCompare disregards; an address is before both.
MCCollation == (p1 :> 0) @@ (p2 :> 1) @@ (n1 :> 2) @@ (n2 :> 3)
MCBinary == (p1 :> 0) @@ (p2 :> 1) @@ (n1 :> 3) @@ (n2 :> 2)
MCScan == {<<p2, p1>>}

VARIABLE record  \* the part that moves

RecordsInit ==
  /\ record \in {"stores", "members"}
  /\ StoresInit /\ (record # "stores" => area = "posts")
  /\ MemberInit /\ (record # "members" => founder = [k \in Covenant |-> Of])

RecordsNext ==
  /\ UNCHANGED record
  /\ \/ record = "stores" /\ StoresNext
     \/ record # "stores" /\ UNCHANGED storesVars
  /\ \/ record = "members" /\ MemberNext
     \/ record # "members" /\ UNCHANGED memberVars

RecordsSpec == RecordsInit /\ [][RecordsNext]_<<record, storesVars, memberVars>>

Symmetric == UNION {Permutations(S) : S \in {Id, Digest, Mint}}

=============================================================================
