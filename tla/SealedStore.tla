----------------------------- MODULE SealedStore -----------------------------
(***************************************************************************)
(* What a data upload promises to the parties that later use the data.     *)
(*                                                                         *)
(* A store holds one ciphertext and a key service may hold its key.  The   *)
(* contents may change freely while the key is not available.  The key is  *)
(* released only when the contents are the complete ciphertext and the     *)
(* data is registered, and from then on neither changes: whoever obtains   *)
(* the key can locate and decrypt the data, now and later.                 *)
(***************************************************************************)
CONSTANT Complete    \* the complete ciphertext

VARIABLES contents,  \* what the store holds
          located,   \* the data is registered where users look it up
          released   \* the key service holds the key

vars == <<contents, located, released>>

Init ==
  /\ contents # Complete
  /\ located = FALSE
  /\ released = FALSE

(* The store is being filled, refilled, or the data is being registered.   *)
Change ==
  /\ ~released
  /\ located' \in BOOLEAN
  /\ located => located'
  /\ released' = FALSE

(* The key becomes available.                                              *)
Release ==
  /\ contents = Complete
  /\ located
  /\ released' = TRUE
  /\ UNCHANGED <<contents, located>>

Next == Change \/ Release

Spec == Init /\ [][Next]_vars
=============================================================================
