---------------------------- MODULE SecureStorage ----------------------------
(***************************************************************************)
(* secure-session-storage.ts in one tab: an item is the ciphertext in      *)
(* sessionStorage together with its key in window.name.  setItem is        *)
(* asynchronous, it writes the key, encrypts, then writes the ciphertext,  *)
(* and any number of calls may overlap.  Each call draws a fresh key, so a *)
(* call stands for the key, the data and the ciphertext it makes.          *)
(***************************************************************************)
CONSTANTS Saves,        \* the setItem calls
          StorageKeys,  \* the names items are stored under
          KeyOf,        \* the storage key of a call
          NoSave

ASSUME KeyOfAssumption == KeyOf \in [Saves -> StorageKeys]
ASSUME NoSaveAssumption == NoSave \notin Saves

VARIABLES
    pc,     \* each call's progress: the two awaits of setItem
    name,   \* window.name: the key of a call
    item    \* sessionStorage: the ciphertext of a call, per storage key

storageVars == <<pc, name, item>>

StorageInit ==
    /\ pc = [c \in Saves |-> "idle"]
    /\ name = NoSave
    /\ item = [k \in StorageKeys |-> NoSave]

\* setItem: the key bytes are drawn and imported.
SetItem(c) ==
    /\ pc[c] = "idle"
    /\ pc' = [pc EXCEPT ![c] = "importing"]
    /\ UNCHANGED <<name, item>>

\* The key is written to window.name and the encryption starts.
KeepKey(c) ==
    /\ pc[c] = "importing"
    /\ pc' = [pc EXCEPT ![c] = "encrypting"]
    /\ name' = c
    /\ UNCHANGED item

\* Variant: the key is written once the data is encrypted.
KeepBoth(c) ==
    /\ pc[c] = "encrypting"
    /\ pc' = [pc EXCEPT ![c] = "done"]
    /\ item' = [item EXCEPT ![KeyOf[c]] = c]
    /\ name' = c

\* The ciphertext is written to sessionStorage.
KeepItem(c) ==
    /\ pc[c] = "encrypting"
    /\ pc' = [pc EXCEPT ![c] = "done"]
    /\ item' = [item EXCEPT ![KeyOf[c]] = c]
    /\ UNCHANGED name

\* Both halves are dropped.
ClearItem(k) ==
    /\ name' = NoSave
    /\ item' = [item EXCEPT ![k] = NoSave]
    /\ UNCHANGED pc

\* getItem: both halves are read in one go; the data comes back only if they
\* belong together.
GetItem(k) == IF item[k] = name THEN name ELSE NoSave

\* A reload ends the calls under way; both stores outlive it, except that
\* window.name is gone when the browser restores the session from disk.
ReloadStorage ==
    /\ pc' = [c \in Saves |-> IF pc[c] = "idle" THEN "idle" ELSE "done"]
    /\ name' \in {name, NoSave}
    /\ UNCHANGED item

StorageNext ==
    \/ \E c \in Saves : SetItem(c) \/ KeepKey(c) \/ KeepItem(c)
    \/ \E k \in StorageKeys : ClearItem(k)
    \/ ReloadStorage

StorageSpec == StorageInit /\ [][StorageNext]_storageVars

-----------------------------------------------------------------------------
\* Every variable keeps its type.
StorageTypeOK ==
    /\ pc \in [Saves -> {"idle", "importing", "encrypting", "done"}]
    /\ name \in Saves \cup {NoSave}
    /\ item \in [StorageKeys -> Saves \cup {NoSave}]

\* What can be read was encrypted by a call that got that far: a call leaves
\* something to read only once it is done.
StoredIsDone ==
    /\ \A k \in StorageKeys : item[k] # NoSave => pc[item[k]] = "done"
    /\ name # NoSave => pc[name] \in {"encrypting", "done"}

\* The calls that write an item, and those that can no longer be read.
Writes(k) == {c \in Saves : KeyOf[c] = k}
Writing(k) == {c \in Writes(k) : pc[c] \in {"importing", "encrypting"}}
Dead(k) == {c \in Writes(k) : \/ pc[c] = "done"
                              \/ pc[c] = "encrypting" /\ name # c}

Register(k) == INSTANCE LossyRegister WITH
    None <- NoSave, Writers <- Writes(k), value <- GetItem(k), writing <- Writing(k), dead <- Dead(k)

\* Each item is a lossy register: overlapping calls of setItem, clearItem and
\* a reload may lose it, but never bring back a value that was cleared or
\* replaced, and never let the halves of two calls be read as one.
ImplementsRegister ==
    /\ \A k \in StorageKeys : Register(k)!Init
    /\ [][\A k \in StorageKeys : [Register(k)!Next]_(Register(k)!vars)]_storageVars
=============================================================================
