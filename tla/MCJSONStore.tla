----------------------------- MODULE MCJSONStore -----------------------------
(* Small instances of JSONStore for TLC. *)
EXTENDS JSONStore

CONSTANTS a, b

\* No file, garbage, and a file in another order than oldest first.
mcFiles == {NoFile, Corrupt, [j \in Job |-> IF j = a THEN <<2, 1>> ELSE << >>]}

\* b's record only has to be carried along.
mcAt == (a :> {1, 2, 3}) @@ (b :> {1})
=============================================================================
