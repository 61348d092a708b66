------------------------------ MODULE HpmFlash ------------------------------
(***************************************************************************)
(* The report store of the HPM application, src/src/app/hpm/hpm_flash.c:   *)
(* a ring of FlashSectors sectors of FlashPackets packets with a read and  *)
(* a write position and one bit per sector, "erased and being filled", in  *)
(* a record that is written to its own sector now and then.  The flash is  *)
(* a NOR chip, where writing can only clear bits of an erased packet, or   *)
(* an SD flash that overwrites (hpm_flash_adapter.c).                      *)
(*                                                                         *)
(* A packet is abstracted to the set of reports programmed into it since   *)
(* its sector was erased and to whether one of them was programmed to its  *)
(* end: the checksum holds exactly when one report was, completely.        *)
(***************************************************************************)
EXTENDS Integers, Sequences, FiniteSets

CONSTANTS FlashSectors,   \* HPM_REPO_FLASH_MAX_SECTOR
          FlashPackets,   \* HPM_REPO_FLASH_MAX_PACKET
          FlashReports,   \* the reports that are saved
          BadReport,      \* no report, or one whose checksum is wrong
          NoRecord,       \* a position record without magic number
          UnreadRecord,   \* the position record cannot be read
          ClearedStore,   \* the shell cleared the store
          MaxFaults       \* bound on the faults, power losses and shell commands

ASSUME FlashAssumption == /\ FlashSectors \in Nat /\ FlashSectors >= 2
                          /\ FlashPackets \in Nat /\ FlashPackets >= 2
                          /\ MaxFaults \in Nat
                          /\ BadReport \notin FlashReports
                          /\ UnreadRecord \notin FlashReports
                          /\ ClearedStore \notin FlashReports

VARIABLES flash_type,     \* "nor" or "sd", found by hpm_flash_adapter_init
          mgrinfo,        \* hpm_flash_mgrinfo: positions and sector bits
          record,         \* the copy of mgrinfo in flash, or NoRecord
          packet,         \* the packets of the data sectors
          flash_write_flag,  \* hpm_flash_write_flag: the record is to be written
          loaded,         \* what the last call came to: the report that was loaded
          unfinished,     \* the report whose last write failed half-way
          damaged,        \* history: a misuse that module FlashQueue names
          faults          \* number of faults so far

flashVars == <<flash_type, mgrinfo, record, packet, flash_write_flag, loaded,
               unfinished, damaged, faults>>

Sector == 0..(FlashSectors - 1)
Position == [s : Sector, p : 0..(FlashPackets - 1)]
Packet == [holds : SUBSET FlashReports, whole : BOOLEAN]
Mgrinfo == [read : Position, write : Position, bits : SUBSET Sector]

(* A record without its magic number is told from every other.            *)
ASSUME RecordAssumption == NoRecord \notin Mgrinfo

Blank == [holds |-> {}, whole |-> FALSE]
Start == [s |-> 0, p |-> 0]

hpm_flash_reset_mgrinfo == [read |-> Start, write |-> Start, bits |-> {}]

hpm_flash_move_next_sector(pos) ==
  [s |-> IF pos.s + 1 >= FlashSectors THEN 0 ELSE pos.s + 1, p |-> 0]

hpm_flash_move_next_pos(pos) ==
  IF pos.p + 1 >= FlashPackets THEN hpm_flash_move_next_sector(pos)
                               ELSE [pos EXCEPT !.p = @ + 1]

(* The report a packet yields: its length and checksum are those of a      *)
(* report that was programmed completely and alone.                        *)
Yield(k) == IF k.whole /\ \E r \in FlashReports : k.holds = {r}
             THEN CHOOSE r \in FlashReports : k.holds = {r}
             ELSE BadReport

(* Programming a NOR packet adds to what is there; an SD packet that is    *)
(* written to its end holds nothing else.                                  *)
Programmed(k, r, complete) ==
  [holds |-> IF complete /\ flash_type = "sd" THEN {r} ELSE k.holds \cup {r},
   whole |-> complete \/ k.whole]
-----------------------------------------------------------------------------
FlashInit ==
  /\ flash_type \in {"nor", "sd"}
  /\ mgrinfo = hpm_flash_reset_mgrinfo
  /\ record = NoRecord
  /\ packet = [pos \in Position |-> Blank]
  /\ flash_write_flag = TRUE
  /\ loaded = BadReport
  /\ unfinished = BadReport
  /\ damaged = FALSE
  /\ faults = 0

Fault == faults < MaxFaults /\ faults' = faults + 1

(* hpm_flash_write up to the programming of the packet: the sector is      *)
(* erased at its first packet unless its bit says that it already is, and  *)
(* a reader inside it moves on.                                            *)
MustErase == mgrinfo.write.s \notin mgrinfo.bits /\ mgrinfo.write.p = 0

Erased ==
  IF ~MustErase THEN mgrinfo
  ELSE [mgrinfo EXCEPT
          !.bits = @ \cup {mgrinfo.write.s},
          !.read = IF @.s = mgrinfo.write.s /\ @.p > mgrinfo.write.p
                   THEN hpm_flash_move_next_sector(@) ELSE @]

ErasedPackets ==
  IF MustErase /\ flash_type = "nor"
  THEN [pos \in Position |-> IF pos.s = mgrinfo.write.s THEN Blank ELSE packet[pos]]
  ELSE packet

(* Wrong: the bit of a sector that is full stays set. *)
AdvancedBitStays(m) ==
  LET w == hpm_flash_move_next_pos(m.write)
  IN  [m EXCEPT !.write = w, !.read = IF @ = w THEN hpm_flash_move_next_pos(@) ELSE @]

(* ... and after it: a full sector gives up its bit, the writer moves on   *)
(* and pushes the reader in front of it.                                   *)
Advanced(m) ==
  LET w == hpm_flash_move_next_pos(m.write)
  IN  [m EXCEPT !.write = w,
                !.bits = IF m.write.p = FlashPackets - 1 THEN @ \ {m.write.s} ELSE @,
                !.read = IF @ = w THEN hpm_flash_move_next_pos(@) ELSE @]

(* The caller saves another report where one was left half-written. *)
Misused(r) == flash_type = "nor" /\ unfinished \notin {BadReport, r}

hpm_flash_save_pack(r) ==
  /\ mgrinfo' = Advanced(Erased)
  /\ packet' = [ErasedPackets EXCEPT ![mgrinfo.write] = Programmed(@, r, TRUE)]
  /\ damaged' = (damaged \/ Misused(r))
  /\ unfinished' = BadReport
  /\ loaded' = BadReport
  /\ UNCHANGED <<flash_type, record, flash_write_flag, faults>>

(* The erase fails: nothing has changed. *)
hpm_flash_save_pack_erase_fails ==
  /\ MustErase /\ flash_type = "nor" /\ Fault
  /\ loaded' = BadReport
  /\ UNCHANGED <<flash_type, mgrinfo, record, packet, flash_write_flag, unfinished, damaged>>

(* The write fails before, within or after the packet: the positions stay, *)
(* the sector bit and the reader have moved.                               *)
hpm_flash_save_pack_write_fails(r) ==
  /\ Fault
  /\ mgrinfo' = Erased
  /\ \/ packet' = ErasedPackets
     \/ \E complete \in BOOLEAN :
          packet' = [ErasedPackets EXCEPT ![mgrinfo.write] = Programmed(@, r, complete)]
  /\ damaged' = (damaged \/ Misused(r))
  /\ unfinished' = r
  /\ loaded' = BadReport
  /\ UNCHANGED <<flash_type, record, flash_write_flag>>

(* hpm_flash_load_pack: an entry that fails its test is skipped, and only  *)
(* then is the record to be written.                                       *)
hpm_flash_load_pack ==
  /\ mgrinfo.read # mgrinfo.write
  /\ loaded' = Yield(packet[mgrinfo.read])
  /\ mgrinfo' = [mgrinfo EXCEPT !.read = hpm_flash_move_next_pos(@)]
  /\ flash_write_flag' = (flash_write_flag \/ loaded' = BadReport)
  /\ UNCHANGED <<flash_type, record, packet, unfinished, damaged, faults>>

hpm_flash_load_pack_read_fails ==
  /\ mgrinfo.read # mgrinfo.write
  /\ Fault
  /\ loaded' = BadReport
  /\ UNCHANGED <<flash_type, mgrinfo, record, packet, flash_write_flag, unfinished, damaged>>

(* hpm_flash_save_mgrinfo, from hpm_flash_sleep and hpm_flash_period. *)
hpm_flash_sleep ==
  /\ record' = mgrinfo
  /\ loaded' = BadReport
  /\ UNCHANGED <<flash_type, mgrinfo, packet, flash_write_flag, unfinished, damaged, faults>>

hpm_flash_period ==
  /\ \/ /\ flash_write_flag
        /\ record' = mgrinfo
        /\ flash_write_flag' = FALSE
     \/ /\ ~flash_write_flag          \* the positions differ after 10 minutes
        /\ flash_write_flag' = TRUE
        /\ UNCHANGED record
  /\ loaded' = BadReport
  /\ UNCHANGED <<flash_type, mgrinfo, packet, unfinished, damaged, faults>>

(* The erase or the write of the record fails, or the power does within    *)
(* it: the record is the old one, none, or one of which only the positions *)
(* were programmed, its bits still those of an erased sector; there is no  *)
(* checksum over it.                                                       *)
hpm_flash_save_mgrinfo_fails ==
  /\ Fault
  /\ record' \in {record, NoRecord, mgrinfo}
                 \cup {[mgrinfo EXCEPT !.bits = Sector] : x \in {"nor"} \cap {flash_type}}
  /\ loaded' = BadReport
  /\ UNCHANGED <<flash_type, mgrinfo, packet, flash_write_flag, unfinished, damaged>>

(* Wrong: the positions of the record are not used. *)
InitForgets ==
  /\ Fault
  /\ mgrinfo' = hpm_flash_reset_mgrinfo
  /\ flash_write_flag' = TRUE
  /\ loaded' = BadReport
  /\ damaged' = FALSE
  /\ unfinished' = BadReport
  /\ UNCHANGED <<flash_type, record, packet>>

(* Power loss and hpm_flash_init: the record is all that is left of        *)
(* mgrinfo.  Without a valid record the store starts empty.                *)
hpm_flash_init ==
  /\ Fault
  /\ \/ /\ record # NoRecord
        /\ mgrinfo' = record
        /\ flash_write_flag' = FALSE
        /\ loaded' = BadReport
        /\ damaged' = (damaged \/ record # mgrinfo)
        /\ UNCHANGED unfinished
     \/ /\ mgrinfo' = hpm_flash_reset_mgrinfo
        /\ flash_write_flag' = TRUE
        /\ loaded' \in {UnreadRecord} \cup {BadReport : x \in {NoRecord} \cap {record}}
        /\ damaged' = FALSE
        /\ unfinished' = BadReport
  /\ UNCHANGED <<flash_type, record, packet>>

(* The shell's "clearflash": the positions return to the start, the sector *)
(* bits stay, so that a NOR sector that was being filled is not erased     *)
(* when the writer comes back to it.                                       *)
hpm_flash_clear_info ==
  /\ Fault
  /\ mgrinfo' = [mgrinfo EXCEPT !.read = Start, !.write = Start]
  /\ flash_write_flag' = TRUE
  /\ loaded' = ClearedStore
  /\ damaged' = (damaged \/ (flash_type = "nor" /\ mgrinfo.bits # {}))
  /\ unfinished' = BadReport
  /\ UNCHANGED <<flash_type, record, packet>>

FlashNext ==
  \/ \E r \in FlashReports : hpm_flash_save_pack(r) \/ hpm_flash_save_pack_write_fails(r)
  \/ hpm_flash_save_pack_erase_fails
  \/ hpm_flash_load_pack
  \/ hpm_flash_load_pack_read_fails
  \/ hpm_flash_sleep
  \/ hpm_flash_period
  \/ hpm_flash_save_mgrinfo_fails
  \/ hpm_flash_init
  \/ hpm_flash_clear_info

FlashSpec == FlashInit /\ [][FlashNext]_flashVars
-----------------------------------------------------------------------------
(* Type invariant: the positions stay within the ring. *)
FlashTypeOK == /\ flash_type \in {"nor", "sd"}
               /\ mgrinfo \in Mgrinfo
               /\ record \in Mgrinfo \cup {NoRecord}
               /\ packet \in [Position -> Packet]
               /\ flash_write_flag \in BOOLEAN
               /\ loaded \in FlashReports \cup {BadReport, UnreadRecord, ClearedStore}
               /\ unfinished \in FlashReports \cup {BadReport}
               /\ damaged \in BOOLEAN
               /\ faults \in 0..MaxFaults

(* pos is met on the way from r to w around the ring, w excluded. *)
Before(a, b) == a.s < b.s \/ (a.s = b.s /\ a.p < b.p)
Within(r, w, pos) == IF Before(w, r) THEN Before(pos, w) \/ ~Before(pos, r)
                                     ELSE Before(pos, w) /\ ~Before(pos, r)
InWindow(pos) == Within(mgrinfo.read, mgrinfo.write, pos)

(* Every packet hpm_flash_load_pack will reach holds one whole report:     *)
(* erasing per sector, the sector bits, the reader that is pushed ahead    *)
(* and the failures of a write never leave a packet in the window that was *)
(* programmed twice, half or not at all.                                   *)
NothingGarbled ==
  ~damaged => \A pos \in Position : InWindow(pos) => Yield(packet[pos]) # BadReport

(* The packets from the read to the write position, oldest first. *)
At(n) == [s |-> (n \div FlashPackets) % FlashSectors, p |-> n % FlashPackets]
Index(pos) == pos.s * FlashPackets + pos.p
Waiting ==
  LET cap == FlashSectors * FlashPackets
  IN  [i \in 1..((Index(mgrinfo.write) - Index(mgrinfo.read)) % cap) |->
         Yield(packet[At(Index(mgrinfo.read) + i - 1)])]

(* The store is a first-in first-out queue: reports come back once, in     *)
(* order; the oldest are given up only when at most one sector of room is  *)
(* left; and after hpm_flash_sleep or a saved record a loss of power       *)
(* changes nothing.                                                        *)
ReportQueue == INSTANCE FlashQueue
                 WITH Report <- FlashReports, Bad <- BadReport,
                      Unread <- UnreadRecord, Cleared <- ClearedStore,
                      Cap <- FlashSectors * FlashPackets, Unit <- FlashPackets,
                      q <- Waiting, safe <- (record = mgrinfo)
FlashIsQueue == ReportQueue!Spec
=============================================================================
