---------------------------- MODULE ConfigObject ----------------------------
(***************************************************************************)
(* What the writers of bke-config promise each other: the patch keys of the *)
(* ConfigMap as an object under optimistic concurrency.  A key is merged    *)
(* in at any time.  Keys are removed only by writing a whole copy back, all *)
(* of them at once, by a client whose copy is the object as it stands.      *)
(* PatchCatalog implements it.                                              *)
(***************************************************************************)
CONSTANTS
    Clients,   \* who reads and writes the object
    Keys

VARIABLES
    keys,      \* the patch keys of the object
    holders,   \* the clients that hold a copy they can still write back
    copy       \* that copy, without its keys once it is of no use

object == <<keys, holders, copy>>

NoCopy == [c \in Clients |-> {}]

ObjectInit == keys = {} /\ holders = {} /\ copy = NoCopy

Get(c) ==
    /\ holders' = holders \cup {c}
    /\ copy' = [copy EXCEPT ![c] = keys]
    /\ UNCHANGED keys

(* The client is done with its copy, or has written it back unchanged.      *)
Drop(c) ==
    /\ holders' = holders \ {c}
    /\ copy' = [copy EXCEPT ![c] = {}]
    /\ UNCHANGED keys

(* A change of the object makes every copy useless.                         *)
Outdate == holders' = {} /\ copy' = NoCopy

Merge(k) == k \notin keys /\ keys' = keys \cup {k} /\ Outdate

WriteBack(c) ==
    /\ c \in holders /\ copy[c] = keys
    /\ keys' = {} /\ Outdate

(* Something else than the patch keys is edited.                            *)
Touch == Outdate /\ UNCHANGED keys

ObjectNext ==
    \/ \E c \in Clients : Get(c) \/ Drop(c) \/ WriteBack(c)
    \/ \E k \in Keys : Merge(k)
    \/ Touch

ObjectSpec == ObjectInit /\ [][ObjectNext]_object
=============================================================================
