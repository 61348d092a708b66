----------------------------- MODULE FlashQueue -----------------------------
(***************************************************************************)
(* What the report store of the HPM application promises its caller        *)
(* (src/src/app/hpm/hpm_flash.c): a first-in first-out queue of reports    *)
(* that gives up the oldest ones only when the flash is all but full, and  *)
(* that survives a loss of power when its position record was saved since  *)
(* the last change.  A loss of power at any other time, and the few misuses *)
(* that module HpmFlash names, leave it damaged: entries may then be bad.  *)
(***************************************************************************)
EXTENDS Naturals, Sequences

CONSTANTS Report,      \* the reports
          Bad,         \* an entry that fails its length or checksum test
          Unread,      \* the position record could not be read at a restart
          Cleared,     \* the caller asked for an empty store
          Cap,         \* number of entries the flash has room for
          Unit         \* number of entries that are erased together

VARIABLES q,           \* the entries, oldest first
          safe,        \* the position record is that of q
          damaged,     \* bad entries are possible
          loaded       \* what the last call came to: a report, Bad, Unread or Cleared

vars == <<q, safe, damaged, loaded>>

Without(k) == SubSeq(q, k + 1, Len(q))

Init == q = <<>> /\ safe \in BOOLEAN /\ damaged = FALSE /\ loaded = Bad

(* The oldest k entries make room, never while there is a free unit.       *)
MayDrop(k) == k > 0 => Len(q) - k >= Cap - Unit

Put(p) ==
  /\ loaded' = Bad
  /\ damaged' \in BOOLEAN /\ safe' \in BOOLEAN
  /\ damaged => damaged'
  /\ \E k \in 0..(Unit - 1), e \in {p} \cup (IF damaged' THEN {Bad} ELSE {}) :
       /\ k <= Len(q) /\ MayDrop(k)
       /\ q' = Append(Without(k), e)

(* A report that could not be written changes nothing but the room.        *)
PutFails ==
  /\ loaded' = Bad
  /\ damaged' \in BOOLEAN /\ safe' \in BOOLEAN
  /\ damaged => damaged'
  /\ \E k \in 0..(Unit - 1) : k <= Len(q) /\ MayDrop(k) /\ q' = Without(k)

(* The oldest entry leaves; it is returned unless it is bad.               *)
Take == /\ q # <<>>
        /\ loaded' = Head(q)
        /\ q' = Tail(q)
        /\ safe' \in BOOLEAN
        /\ UNCHANGED damaged

TakeFails == loaded' = Bad /\ UNCHANGED <<q, safe, damaged>>

(* The position record is written: afterwards a power loss costs nothing.  *)
Sync      == safe' = TRUE /\ loaded' = Bad /\ UNCHANGED <<q, damaged>>
SyncFails == safe' \in BOOLEAN /\ loaded' = Bad /\ UNCHANGED <<q, damaged>>

(* A safe queue comes back as it was; otherwise it comes back empty, or    *)
(* with whatever was at the positions of an older record.  A record that   *)
(* cannot be read is replaced by an empty one, and the caller can tell.    *)
Restart ==
  /\ safe' \in BOOLEAN
  /\ loaded' \in {Bad, Unread}
  /\ \/ loaded' = Bad /\ UNCHANGED <<q, damaged>>
     \/ (safe => q = <<>> \/ loaded' = Unread) /\ q' = <<>> /\ damaged' = FALSE
     \/ /\ ~safe /\ damaged' = TRUE
        /\ Len(q') < Cap /\ \A i \in DOMAIN q' : q'[i] \in Report \cup {Bad}

Clear == /\ q' = <<>>
         /\ loaded' = Cleared
         /\ safe' \in BOOLEAN
         /\ damaged => damaged'
         /\ damaged' \in BOOLEAN

(* Nobody calls. *)
Idle == UNCHANGED vars

Next == \/ Idle
        \/ \E p \in Report : Put(p)
        \/ PutFails \/ Take \/ TakeFails \/ Sync \/ SyncFails \/ Restart \/ Clear

Spec == Init /\ [][Next]_vars
=============================================================================
