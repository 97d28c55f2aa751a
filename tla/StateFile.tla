----------------------------- MODULE StateFile ------------------------------
(***************************************************************************)
(* One slot of SAVE STATE / LOAD STATE: the worker's path from the State   *)
(* Browser (main.cpp 239-317, 469-504) through Emulator::save_state and    *)
(* restore_state down to the temporary file and the renames of             *)
(* statefile.cpp and util.cpp, one action per file operation.              *)
(*                                                                         *)
(* The files are those of the slot's directory: stateN.bin, its temporary  *)
(* file, the backups careful_rename makes, and the picture stateN.png. The *)
(* media may refuse any operation (a fault), and the console may lose its  *)
(* power between two operations or in the middle of a write (a crash).     *)
(* rename() over an existing file replaces it or fails: the C library      *)
(* decides, the code handles both.                                         *)
(***************************************************************************)
EXTENDS Integers, Sequences, FiniteSets, Functions, TLC

CONSTANTS
  Baks,        \* the names util::tmpname finds for a backup: never all taken
  MaxRuns,     \* bound: how often the machine changes state by running
  MaxFaults,   \* bound: failed operations
  MaxCrashes,  \* bound: power losses
  BootSwaps    \* whether F11/F12 may attach and detach the boot ROM

ASSUME StateFileAssumption ==
  /\ MaxRuns \in Nat /\ MaxFaults \in Nat /\ MaxCrashes \in Nat
  /\ {"bin", "tmp"} \cap Baks = {} /\ Cardinality(Baks) > MaxFaults + MaxCrashes
  /\ BootSwaps \in BOOLEAN

VARIABLES
  machine,   \* the Board: the state its memory and the rest of it belong to
  last,      \* the newest state the machine has reached
  files,     \* the content of every file, Absent or a sequence of units
  shot,      \* the state stateN.png shows, None when it cannot be decoded
  pc,        \* what the worker does
  mode,      \* the mode the State Browser was opened in
  occupied,  \* StateWindow::occupied of the slot
  status,    \* the footer of the window
  buf,       \* header and payload of the save under way
  bak,       \* the name tmpname gave
  ok,        \* the result of careful_rename
  prev,      \* history: what the slot held when the save began
  acked,     \* history: the state of the last save reported as done
  overdue,   \* history: the last save could neither write nor remove the picture
  faults, crashes

disk   == <<files, shot>>
window == <<mode, occupied, status>>
save   == <<buf, bak, ok, prev>>
count  == <<acked, overdue, faults, crashes>>
vars   == <<machine, last, pc, disk, window, save, count>>

None   == 0
Absent == <<>>
Names  == {"bin", "tmp"} \cup Baks
-----------------------------------------------------------------------------
(* What a state file is made of. Every unit carries the state it is part   *)
(* of. The header is one unit; a chunk is its head (signature and size)    *)
(* and its body; the MEMORY chunk has the boot ROM's bytes behind the RAM  *)
(* when one is attached (memory.cpp 82-93), the other chunks are one here. *)

Unit(s, p) == [snap |-> s, part |-> p]
Units(s, parts) == [i \in DOMAIN parts |-> Unit(s, parts[i])]

MemoryChunk(boot) == IF boot THEN <<"memory+", "ram", "boot">> ELSE <<"memory", "ram">>
RestChunk         == <<"rest", "registers">>

\* Board::serialize: the unchanged payload of a state.
Payload(m) == Units(m.mem, MemoryChunk(m.boot)) \o Units(m.rest, RestChunk)
\* StateFile::save puts the header in front.
Image(m)   == Units(m.mem, <<"header">>) \o Payload(m)

HeaderOK(f) == f # Absent /\ f[1].part = "header"

\* The length of a chunk by its head, 0 when the unit is not a head.
ChunkLen(u) == CASE u.part = "memory" -> 2 [] u.part = "memory+" -> 3
                 [] u.part = "rest" -> 2 [] OTHER -> 0

\* state_chunks_valid: nothing but complete chunks, in the order written.
Body(f) == Tail(f)
ChunksValid(p) ==
  \/ p = <<>>
  \/ LET n == ChunkLen(p[1]) IN
       /\ n > 0 /\ Len(p) >= n
       /\ \/ Len(p) = n
          \/ ChunkLen(p[n + 1]) = Len(p) - n

\* The slot holds header and unchanged payload of one state.
Whole(f) == /\ HeaderOK(f)
            /\ \E boot \in BOOLEAN :
                 f = Image([mem |-> f[1].snap, rest |-> f[1].snap, boot |-> boot])

Fresh == [mem |-> last + 1, rest |-> last + 1, boot |-> FALSE]
-----------------------------------------------------------------------------
Init ==
  /\ machine = [mem |-> 1, rest |-> 1, boot |-> FALSE] /\ last = 1
  /\ files = [n \in Names |-> Absent] /\ shot = None
  /\ pc = "game" /\ mode = "save" /\ occupied = FALSE /\ status = "none"
  /\ buf = <<>> /\ bak = "bin" /\ ok = FALSE /\ prev = None
  /\ acked = None /\ overdue = FALSE /\ faults = 0 /\ crashes = 0

Fault == faults < MaxFaults /\ faults' = faults + 1
Fine  == UNCHANGED faults

\* What the slot holds: None, a state, or Torn for anything else.
Torn == -1
Stored == IF files["bin"] = Absent THEN None
          ELSE IF Whole(files["bin"]) THEN files["bin"][1].snap ELSE Torn

\* The machine runs. F11 (BLKVVOD) and F12 (BLKSBR) attach and detach the
\* boot ROM on the way.
Run ==
  /\ pc = "game" /\ last < MaxRuns + crashes + 1 /\ last' = last + 1
  /\ \E boot \in IF BootSwaps THEN BOOLEAN ELSE {machine.boot} :
       machine' = [Fresh EXCEPT !.boot = boot]
  /\ UNCHANGED <<pc, disk, window, save, count>>

\* Save State / Load State of the menu: the machine is frozen, the headers
\* are scanned.
OpenBrowser ==
  /\ pc = "game" /\ pc' = "browse" /\ mode' \in {"save", "load"}
  /\ occupied' = HeaderOK(files["bin"]) /\ status' = "none"
  /\ UNCHANGED <<machine, last, disk, save, count>>

CloseBrowser ==
  /\ pc = "browse" /\ pc' = "game"
  /\ UNCHANGED <<machine, last, disk, window, save, count>>

Report(s) == status' = s /\ pc' = "browse" /\ UNCHANGED mode

\* state_save_action: the directory, then the payload of the frozen machine.
BeginSave ==
  /\ pc = "browse" /\ mode = "save"
  /\ \/ /\ Fault /\ Report("failed") /\ prev' = Stored
        /\ UNCHANGED <<occupied, buf, bak, ok>>
     \/ /\ Fine /\ pc' = "write" /\ status' = "saving"
        /\ buf' = Image(machine) /\ prev' = Stored /\ ok' = FALSE
        /\ UNCHANGED <<mode, occupied, bak>>
  /\ UNCHANGED <<machine, last, disk, acked, overdue, crashes>>

\* save_binfile opens without O_TRUNC: n units go over the head of what is
\* there.
Over(f, n) == SubSeq(buf, 1, n) \o SubSeq(f, n + 1, Len(f))
WriteOver(n) == files' = [files EXCEPT !["tmp"] = Over(@, n)]

\* Mutant: The number of bytes written is not compared with the size.
WriteTmpUnchecked ==
  /\ pc = "write" /\ pc' = "rename"
  /\ \/ Fine /\ WriteOver(Len(buf))
     \/ Fault /\ \E n \in 1..Len(buf) - 1 : WriteOver(n)
  /\ UNCHANGED <<machine, last, shot, window, save, acked, overdue, crashes>>

WriteTmp ==
  /\ pc = "write"
  /\ \/ Fine /\ WriteOver(Len(buf)) /\ pc' = "rename"
     \/ Fault /\ \E n \in 0..Len(buf) - 1 : WriteOver(n) /\ pc' = "giveup"
  /\ UNCHANGED <<machine, last, shot, window, save, acked, overdue, crashes>>

\* A file is removed, or the media refuses.
Removed(n) == Fine /\ files' = [files EXCEPT ![n] = Absent]
Kept       == Fault /\ UNCHANGED files

\* rename(from, to), when it succeeds.
Renamed(from, to) == files' = [files EXCEPT ![to] = files[from], ![from] = Absent]

\* Mutant: tmpname is not called: the backup gets whatever name was left over.
RenameTmpUnnamed ==
  /\ pc = "rename"
  /\ \/ Fine /\ Renamed("tmp", "bin") /\ pc' = "shot" /\ ok' = TRUE /\ UNCHANGED bak
     \/ /\ IF files["bin"] # Absent THEN Fine ELSE Fault
        /\ pc' = "backup" /\ UNCHANGED <<files, ok, bak>>
  /\ UNCHANGED <<machine, last, shot, window, buf, prev, acked, overdue, crashes>>

\* careful_rename, first try. tmpname finds a name that is not taken.
RenameTmp ==
  /\ pc = "rename"
  /\ \/ Fine /\ Renamed("tmp", "bin") /\ pc' = "shot" /\ ok' = TRUE /\ UNCHANGED bak
     \/ /\ IF files["bin"] # Absent THEN Fine ELSE Fault
        /\ \E n \in Baks : files[n] = Absent /\ bak' = n
        /\ pc' = "backup" /\ UNCHANGED <<files, ok>>
  /\ UNCHANGED <<machine, last, shot, window, buf, prev, acked, overdue, crashes>>

\* Mutant: The old file is deleted instead of moved out of the way.
RenameBakDeletes ==
  /\ pc = "backup"
  /\ \/ Fine /\ files["bin"] # Absent /\ Removed("bin") /\ pc' = "rename2"
     \/ /\ IF files["bin"] = Absent THEN Fine ELSE Fault
        /\ pc' = "unlink" /\ UNCHANGED files
  /\ UNCHANGED <<machine, last, shot, window, save, acked, overdue, crashes>>

\* The old file out of the way: nothing to move when there is none.
RenameBak ==
  /\ pc = "backup"
  /\ \/ Fine /\ files["bin"] # Absent /\ Renamed("bin", bak) /\ pc' = "rename2"
     \/ /\ IF files["bin"] = Absent THEN Fine ELSE Fault
        /\ pc' = "unlink" /\ UNCHANGED files
  /\ UNCHANGED <<machine, last, shot, window, save, acked, overdue, crashes>>

\* The new file into its place, second try.
RenameTmp2 ==
  /\ pc = "rename2" /\ pc' = "unlink"
  /\ \/ Fine /\ Renamed("tmp", "bin") /\ ok' = TRUE
     \/ Fault /\ UNCHANGED <<files, ok>>
  /\ UNCHANGED <<machine, last, shot, window, buf, bak, prev, acked, overdue, crashes>>

\* Mutant: The result of the second rename is not looked at.
UnlinkBakRegardless ==
  /\ pc = "unlink" /\ pc' = "shot"
  /\ Removed(bak) \/ Kept
  /\ UNCHANGED <<machine, last, shot, window, save, acked, overdue, crashes>>

\* The backup is unlinked whatever happened.
UnlinkBak ==
  /\ pc = "unlink"
  /\ Removed(bak) \/ Kept
  /\ pc' = IF ok THEN "shot" ELSE "giveup"
  /\ UNCHANGED <<machine, last, shot, window, save, acked, overdue, crashes>>

\* StateFile::save gives up: the temporary file is removed.
GiveUp ==
  /\ pc = "giveup" /\ Report("failed")
  /\ Removed("tmp") \/ Kept
  /\ UNCHANGED <<machine, last, shot, occupied, save, acked, overdue, crashes>>

\* after_save: the window shows the slot saved, with or without a picture.
AfterSave == Report("saved") /\ occupied' = TRUE /\ acked' = machine.mem

\* Mutant: A failed img_save leaves the old picture.
SaveShotKeepsOld ==
  /\ pc = "shot" /\ AfterSave /\ overdue' = FALSE
  /\ \/ Fine /\ shot' = machine.mem
     \/ Fault /\ shot' \in {shot, None}
  /\ UNCHANGED <<machine, last, files, save, crashes>>

\* img_save over the old picture. stbi_write_png looks at the result of its
\* fopen, not at that of its fwrite: a short picture passes for a good one.
SaveShot ==
  /\ pc = "shot"
  /\ \/ Fine /\ shot' = machine.mem /\ AfterSave /\ overdue' = FALSE
     \/ Fault /\ shot' = None /\ AfterSave /\ overdue' = FALSE
     \/ Fault /\ pc' = "drop" /\ UNCHANGED <<shot, window, acked, overdue>>
  /\ UNCHANGED <<machine, last, files, save, crashes>>

\* img_save failed: the picture there was is removed, if the media lets it.
DropShot ==
  /\ pc = "drop" /\ AfterSave
  /\ \/ Fine /\ shot' = None /\ overdue' = FALSE
     \/ Fault /\ UNCHANGED shot /\ overdue' = TRUE
  /\ UNCHANGED <<machine, last, files, save, crashes>>

\* restore_state: a reset, then every chunk of the payload.
Restored(p) ==
  LET heads == {i \in DOMAIN p : ChunkLen(p[i]) > 0}
      mem   == {p[i] : i \in {j \in heads : p[j].part \in {"memory", "memory+"}}}
      rest  == {p[i] : i \in {j \in heads : p[j].part = "rest"}}
  IN  [mem  |-> IF mem = {} THEN machine.mem ELSE (CHOOSE u \in mem : TRUE).snap,
       rest |-> IF rest = {} THEN None ELSE (CHOOSE u \in rest : TRUE).snap,
       boot |-> \E u \in mem : u.part = "memory+"]

\* state_load_action: an empty slot, a file that cannot be read or is not
\* one of ours, or a payload the Board refuses leave the machine alone.
Accepted == HeaderOK(files["bin"]) /\ ChunksValid(Body(files["bin"]))

LoadRefused ==
  /\ pc = "browse" /\ mode = "load"
  /\ \/ ~occupied /\ Fine /\ Report("empty")
     \/ occupied /\ Report("invalid") /\ IF Accepted THEN Fault ELSE Fine
  /\ UNCHANGED <<machine, last, disk, occupied, save, acked, overdue, crashes>>

LoadState ==
  /\ pc = "browse" /\ mode = "load" /\ occupied /\ Accepted
  /\ machine' = Restored(Body(files["bin"])) /\ pc' = "game"
  /\ UNCHANGED <<last, disk, window, save, count>>

\* Power loss and restart into the same ROM. A write is cut anywhere; the
\* picture is truncated.
Crash ==
  /\ crashes < MaxCrashes /\ crashes' = crashes + 1
  /\ machine' = Fresh /\ last' = last + 1 /\ pc' = "game" /\ status' = "none"
  /\ IF pc = "write" THEN \E n \in 0..Len(buf) : WriteOver(n) ELSE UNCHANGED files
  /\ IF pc = "shot" THEN shot' \in {shot, None, machine.mem} ELSE UNCHANGED shot
  /\ UNCHANGED <<mode, occupied, save, acked, overdue, faults>>

Next == \/ Run \/ OpenBrowser \/ CloseBrowser
        \/ BeginSave \/ WriteTmp \/ RenameTmp \/ RenameBak \/ RenameTmp2
        \/ UnlinkBak \/ GiveUp \/ SaveShot \/ DropShot
        \/ LoadRefused \/ LoadState \/ Crash

Spec == Init /\ [][Next]_vars
-----------------------------------------------------------------------------
BakSymmetry == Permutations(Baks)

Contents == {s \in Range(files) : s # Absent}
States   == 1..MaxRuns + MaxCrashes + 1

\* Every variable keeps its range, and the worker only reads a buffer, a
\* backup name or a backup it has made before (statefile.cpp 117-149).
TypeOK ==
  /\ machine \in [mem : States, rest : States, boot : BOOLEAN] /\ last \in States
  /\ pc \in {"game", "browse", "write", "rename", "backup", "rename2", "unlink", "giveup",
             "shot", "drop"}
  /\ mode \in {"save", "load"} /\ occupied \in BOOLEAN /\ ok \in BOOLEAN
  /\ status \in {"none", "saving", "saved", "failed", "invalid", "empty"}
  /\ shot \in States \cup {None} /\ acked \in States \cup {None}
  /\ overdue \in BOOLEAN
  /\ faults \in 0..MaxFaults /\ crashes \in 0..MaxCrashes
  /\ pc \in {"write", "rename", "backup", "rename2"} => buf = Image(machine) /\ ~ok
  /\ pc \in {"rename", "backup", "rename2"} => files["tmp"] # Absent
  /\ pc \in {"backup", "rename2", "unlink"} => bak \in Baks

\* A save reported as done is in the slot, whole, and nothing replaces it
\* before the next save (statefile.cpp 137-148).
AckedIsStored == pc = "browse" /\ status = "saved" => Stored = acked

\* Power losses alone never destroy the last good copy: after any number of
\* them the last acknowledged state, or a newer one, is still complete in
\* one of the files, if not always in stateN.bin (statefile.cpp 14-19,
\* util.cpp 194-221).
CopySurvives ==
  faults = 0 /\ acked # None =>
    \E f \in Contents : Whole(f) /\ f[1].snap >= acked

\* The slot's picture is of the state in the slot, or there is none, unless
\* the power went between the two, or the media took neither the new picture
\* nor the removal of the old one (imgload.cpp 195-201, main.cpp 280-288).
ShotMatches ==
  /\ pc \in {"game", "browse"} /\ crashes = 0 /\ ~overdue
  /\ shot # None /\ Stored # None
  => shot = Stored

\* statefile.h 55-57: "only after a complete write the old state is
\* replaced. A failed write leaves the previous state intact."
PreviousSurvives == pc = "browse" /\ status = "failed" => Stored = prev

\* The slot implements SaveSlot: only a save changes it, to the state of the
\* frozen machine or to nothing, and a load restores one whole state.
Slot == INSTANCE SaveSlot WITH
          stored  <- Stored,
          machine <- IF machine.mem = machine.rest THEN machine.mem ELSE Torn,
          last    <- last,
          saving  <- pc \notin {"game", "browse"}
SlotSpec == Slot!Spec
=============================================================================
