---------------------------- MODULE SessionStores ----------------------------
(***************************************************************************)
(* Where an app keeps its sessions: IndexedDB and the memory of each tab   *)
(* (SessionPersistence), and what that memory is made of (SecureStorage),  *)
(* of which the former only knows that it is a lossy register.  They share *)
(* no variable, so each is looked at while the other is at rest.           *)
(***************************************************************************)
EXTENDS SessionPersistence, SecureStorage

NothingStored == storageVars = <<[c \in Saves |-> "idle"], NoSave, [k \in StorageKeys |-> NoSave]>>
NothingCalled == (\A c \in Calls : call[c] = Idle) /\ signedOut = {} /\ overlapped = {}

InitStores == Init /\ StorageInit

NextStores ==
    \/ NothingStored /\ Next /\ UNCHANGED storageVars
    \/ NothingCalled /\ StorageNext /\ UNCHANGED vars

SpecStores == InitStores /\ [][NextStores]_<<vars, storageVars>>
=============================================================================
