--------------------------- MODULE ObjectRegisters ---------------------------
(***************************************************************************)
(* What the synchronization store promises its clients, without logs,      *)
(* receipts, tombstones or clocks: every identifier is a register with a   *)
(* revision; an operation is executed at most once and then produces       *)
(* exactly the next revision of one register; registers are emptied only   *)
(* in groups that contain something trashed, or when another owns them.    *)
(***************************************************************************)
EXTENDS Naturals

CONSTANTS Ids, Keys, Ciphertexts, NoCiphertext,
          Owned     \* the identifiers that belong to another object

VARIABLES revision, payload, trashed, done

vars == <<revision, payload, trashed, done>>

Init ==
    /\ revision = [id \in Ids |-> 0]
    /\ payload = [id \in Ids |-> NoCiphertext]
    /\ trashed = [id \in Ids |-> FALSE]
    /\ done = {}

Execute(key, id, ciphertext, deleted) ==
    /\ key \notin done
    /\ done' = done \cup {key}
    /\ revision' = [revision EXCEPT ![id] = revision[id] + 1]
    /\ payload' = [payload EXCEPT ![id] = ciphertext]
    /\ trashed' = [trashed EXCEPT ![id] = deleted]

Remove(removed) ==
    /\ (\E id \in removed : trashed[id]) \/ removed \subseteq Owned
    /\ revision' = [id \in Ids |-> IF id \in removed THEN 0 ELSE revision[id]]
    /\ payload' = [id \in Ids |-> IF id \in removed THEN NoCiphertext ELSE payload[id]]
    /\ trashed' = [id \in Ids |-> IF id \in removed THEN FALSE ELSE trashed[id]]
    /\ UNCHANGED done

Next ==
    \/ \E key \in Keys, id \in Ids, ciphertext \in Ciphertexts, deleted \in BOOLEAN :
          Execute(key, id, ciphertext, deleted)
    \/ \E removed \in SUBSET Ids : Remove(removed)

Spec == Init /\ [][Next]_vars
==============================================================================
