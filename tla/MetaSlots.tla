----------------------------- MODULE MetaSlots -----------------------------
(***************************************************************************)
(* The dual metadata slots of a segment header (internal/segment/header.go)*)
(* and the only operation that writes them, SetReadOffset.  The read       *)
(* offset goes to the slot that is not in use, under the next generation   *)
(* number, and is forced out; a reader takes the newest valid slot.        *)
(*                                                                         *)
(* Generations are numbers of a fixed width that wrap around.  A slot the  *)
(* medium holds half old and half new fails its checksum.                  *)
(***************************************************************************)
EXTENDS Integers, Sequences

CONSTANTS
  Gens,        \* number of generations, 2^16 in the code
  Offsets,     \* read offsets in use, frame boundaries of the segment
  HeaderSize,  \* the read offset of a new segment
  Crashes,     \* "process", "power": what can happen to the program
  MaxCrashes   \* bound: how often

VARIABLES
  cache,      \* the two slots as the program reads them
  disk,       \* the two slots on the medium
  slot,       \* segment.meta: the slot in use
  pc, arg,    \* control point and argument of SetReadOffset
  committed,  \* history: the offset the last successful call wrote
  inDoubt,    \* history: offsets of calls after it that did not succeed
  crashes     \* history: the crashes so far, in order

vars == <<cache, disk, slot, pc, arg, committed, inDoubt, crashes>>

ASSUME GensAssumption == Gens \in Nat /\ Gens >= 4 /\ Gens % 2 = 0

ASSUME OffsetsAssumption == HeaderSize \in Offsets /\ Offsets \subseteq Nat

Slot == [off : Nat, gen : 0..(Gens - 1), valid : BOOLEAN]

Torn == [off |-> 0, gen |-> 0, valid |-> FALSE]

\* The slots at byte 16 and at byte 32 of the header.
Slots == {16, 32}

NewerThanMutant(a, b) == a.gen > b.gen

\* int16(a - b) > 0 on unsigned generations.
NewerThan(a, b) == (a.gen - b.gen) % Gens \in 1..(Gens \div 2 - 1)

Readable(h) == h[16].valid \/ h[32].valid

Meta(h) ==
  LET a == h[16]
      b == h[32]
  IN IF a.valid /\ (~b.valid \/ NewerThan(a, b)) THEN a ELSE b

NewHeader ==
  [s \in Slots |-> IF s = 16 THEN [off |-> HeaderSize, gen |-> 0, valid |-> TRUE] ELSE Torn]

Init ==
  /\ cache = NewHeader /\ disk = NewHeader
  /\ slot = NewHeader[16]
  /\ pc = "idle" /\ arg = HeaderSize
  /\ committed = HeaderSize /\ inDoubt = {}
  /\ crashes = <<>>

-----------------------------------------------------------------------------
(***************************************************************************)
(* SetReadOffset and WriteReadOffset.                                      *)
(***************************************************************************)
headerOffsetMutant == IF slot.gen % 2 = 0 THEN 16 ELSE 32

headerOffset == IF slot.gen % 2 = 0 THEN 32 ELSE 16

slotVal == [off |-> arg, gen |-> (slot.gen + 1) % Gens, valid |-> TRUE]

SetReadOffset(off) ==
  /\ pc = "idle"
  /\ pc' = "write" /\ arg' = off
  /\ inDoubt' = inDoubt \cup {off}
  /\ UNCHANGED <<cache, disk, slot, committed, crashes>>

\* WriteAt has got through a part of the slot; it may fail here.
WriteBegin ==
  /\ pc = "write"
  /\ cache' = [cache EXCEPT ![headerOffset] = Torn]
  /\ pc' \in {"writing", "idle"}
  /\ UNCHANGED <<disk, slot, arg, committed, inDoubt, crashes>>

WriteEnd ==
  /\ pc = "writing"
  /\ cache' = [cache EXCEPT ![headerOffset] = slotVal]
  /\ pc' = "sync"
  /\ UNCHANGED <<disk, slot, arg, committed, inDoubt, crashes>>

\* Takes the new slot into use before it is forced out.
SyncMutant ==
  /\ pc = "sync"
  /\ slot' = slotVal
  /\ committed' = arg /\ inDoubt' = {}
  /\ pc' = "idle"
  /\ UNCHANGED <<cache, disk, arg, crashes>>

Sync ==
  /\ pc = "sync"
  /\ disk' = cache
  /\ slot' = slotVal
  /\ committed' = arg /\ inDoubt' = {}
  /\ pc' = "idle"
  /\ UNCHANGED <<cache, arg, crashes>>

SyncFails ==
  /\ pc = "sync"
  /\ pc' = "idle"
  /\ UNCHANGED <<cache, disk, slot, arg, committed, inDoubt, crashes>>

-----------------------------------------------------------------------------
(***************************************************************************)
(* The medium, crashes, and Load.                                          *)
(***************************************************************************)
\* A slot is written back before anyone asks for it.
WriteBack(s) ==
  /\ disk[s] # cache[s]
  /\ disk' = [disk EXCEPT ![s] = cache[s]]
  /\ UNCHANGED <<cache, slot, pc, arg, committed, inDoubt, crashes>>

\* Load reads the header h; without a valid slot the segment cannot be opened.
Load(h) ==
  /\ pc' = IF Readable(h) THEN "idle" ELSE "unreadable"
  /\ slot' = IF Readable(h) THEN Meta(h) ELSE slot

ProcessCrash ==
  /\ "process" \in Crashes /\ Len(crashes) < MaxCrashes /\ pc # "unreadable"
  /\ crashes' = Append(crashes, "process")
  /\ Load(cache)
  /\ UNCHANGED <<cache, disk, arg, committed, inDoubt>>

\* A slot that was being written back may be left half done.
PowerCut ==
  /\ "power" \in Crashes /\ Len(crashes) < MaxCrashes /\ pc # "unreadable"
  /\ crashes' = Append(crashes, "power")
  /\ \E torn \in SUBSET {s \in Slots : disk[s] # cache[s]} :
       disk' = [s \in Slots |-> IF s \in torn THEN Torn ELSE disk[s]]
  /\ cache' = disk'
  /\ Load(disk')
  /\ UNCHANGED <<arg, committed, inDoubt>>

Next == \/ \E off \in Offsets : SetReadOffset(off)
        \/ WriteBegin \/ WriteEnd \/ Sync \/ SyncFails
        \/ \E s \in Slots : WriteBack(s)
        \/ ProcessCrash \/ PowerCut

Spec == Init /\ [][Next]_vars

-----------------------------------------------------------------------------
(***************************************************************************)
(* Properties.                                                             *)
(***************************************************************************)
\* Power was lost some time after the process had died.  A slot that was
\* written and not forced out when the process died is the one in use after the
\* restart, and the next call overwrites the only slot that was forced out.
RestartThenPowerLoss ==
  \E i, j \in 1..Len(crashes) : i < j /\ crashes[i] = "process" /\ crashes[j] = "power"

\* What Load finds is the offset of the last call that succeeded or of a call
\* made after it, never an older one and never none, whatever the generation
\* has wrapped around to and wherever a write stopped.
LoadsCommitted ==
  (pc = "idle" /\ ~RestartThenPowerLoss) => slot.off \in {committed} \cup inDoubt

\* No crash and no failed write leaves a header without a valid slot, so that
\* the segment can be opened again: neither kind of crash alone ever costs both
\* slots, however often it comes.
StaysReadable == pc = "unreadable" => RestartThenPowerLoss

\* The offset a running segment uses is the one it would load again, unless a
\* call has failed since.
UsesNewest == (pc = "idle" /\ inDoubt = {}) => Meta(cache) = slot
=============================================================================
