------------------------------ MODULE MCMirrors -------------------------------
(*****************************************************************************)
(* The server's store (SyncStore), and how a device and the server come to   *)
(* the same state: the reader of the feed against the store (SyncFeed), and  *)
(* two devices with a window each, their saves, outboxes and uploads         *)
(* (VaultSync), under the fairness of each. A behaviour is about one of the  *)
(* three, its part; the store has values of its own for the constants.       *)
(*****************************************************************************)
EXTENDS SyncFeed, TLC

CONSTANTS Parts, d1, d2, t1, t2, e1, e2

VARIABLES part,
          server, done, sent, discarded, row, outbox, recoveries, copies,
          holder, step, attempt, fetched, candidate, memory, active, queued,
          saving, deferred, made, saved, lastKey, failures

TwoDevices == t1 :> d1 @@ t2 :> d2

(* A note (1) with a body block and a folder (2), read in pages of one.      *)
MCKeyTime == [key \in Keys |-> 0]

Write(id, type, base, deleted, blocks) ==
    [objectId |-> id, objectType |-> type, baseRevision |-> base,
     deleted |-> deleted, ownerNoteId |-> NoId, bodyBlockIds |-> blocks,
     ciphertext |-> "x"]

MCRequestOf ==
    [key \in Keys |->
       CASE key = "create" -> Write(1, "note", 0, FALSE, {"b"})
         [] key = "trash" -> Write(1, "note", 1, TRUE, {"b"})
         [] key = "folder" -> Write(2, "folder", 0, FALSE, {})]

MCRequests == {MCRequestOf[key] : key \in Keys}

(* For the store: a note (1) with one body block and an attachment (2) it    *)
(* owns, three operations of two ages.                                       *)
StoreKeyTime == [key \in Keys |-> IF key = "late" THEN 2 ELSE 0]

Attached(base, deleted) ==
    [Write(2, "attachment", base, deleted, {}) EXCEPT !.ownerNoteId = 1]

StoreRequests ==
    {Write(1, "note", 0, FALSE, {"b"}), Write(1, "note", 1, TRUE, {"b"}),
     [Write(1, "note", 2, FALSE, {}) EXCEPT !.ciphertext = "y"],
     Attached(0, FALSE), Attached(1, TRUE)}

StoreRequestOf ==
    [key \in Keys |->
       CASE key = "early" -> Write(1, "note", 0, FALSE, {"b"})
         [] key = "middle" -> Write(1, "note", 1, TRUE, {"b"})
         [] key = "late" -> Attached(0, FALSE)]

ASSUME OwnersAreNotes

Vault == INSTANCE VaultSync WITH
    Devices <- {d1, d2}, Tabs <- {t1, t2}, DeviceOf <- TwoDevices,
    Edits <- {e1, e2}, Habits <- {"late"}, MaxKeys <- 4, MaxFailures <- 0,
    page <- fetched

vaultVars == <<server, done, sent, discarded, row, outbox, recoveries, copies,
               holder, step, attempt, fetched, candidate, memory, active,
               queued, saving, deferred, made, saved, lastKey, failures>>
everything == <<part, allVars, vaultVars>>

(* Only component p moves; the others stay where they began.               *)
Only(p) ==
    /\ part = p /\ UNCHANGED part
    /\ IF p \in {"store", "feed"} THEN TRUE ELSE UNCHANGED allVars
    /\ IF p = "vault" THEN TRUE ELSE UNCHANGED vaultVars

RootInit ==
    /\ part \in Parts /\ FeedInit /\ Vault!Init

ServerStep == Only("store") /\ Next /\ UNCHANGED reader
FeedStep == Only("feed") /\ FeedNext
VaultStep == Only("vault") /\ Vault!Next

RootNext == ServerStep \/ FeedStep \/ VaultStep

RootSpec == RootInit /\ [][RootNext]_everything

FairRootSpec ==
    /\ RootSpec
    /\ WF_allVars(part = "feed" /\ ReaderStep)
    /\ \A t \in {t1, t2} : WF_vaultVars(part = "vault" /\ Vault!Saves(t)) /\ WF_vaultVars(part = "vault" /\ Vault!SyncStart(t))
    /\ \A d \in {d1, d2} : WF_vaultVars(part = "vault" /\ Vault!Synchronizes(d)) /\ WF_vaultVars(part = "vault" /\ Vault!Recovers(d))

(*****************************************************************************)
(* VaultSync: once users stop, all devices and windows agree.                *)
(* (useVaultSync.ts)                                                         *)
(*****************************************************************************)
DevicesAgree == Vault!Convergence
===============================================================================
