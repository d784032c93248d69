--------------------------- MODULE MetaSlotsProofs --------------------------
(***************************************************************************)
(* The dual metadata slots, for every number of generations, every set of  *)
(* offsets and any number of crashes: the two slots never fail together,   *)
(* what is loaded is what was committed or tried since, and a running      *)
(* segment uses what it would load.                                        *)
(***************************************************************************)
EXTENDS MetaSlots, TLAPS

\* A leaf with no prover named may take each prover this long (in seconds).
USE ZenonT(20), SMTT(40)

(***************************************************************************)
(* The inductive invariant.                                                *)
(***************************************************************************)
\* The place of the slot in use; headerOffset is the other one.
own == IF slot.gen % 2 = 0 THEN 16 ELSE 32

Running == pc # "unreadable"

\* The process has not died so far.
NeverRestarted == \A i \in 1..Len(crashes) : crashes[i] # "process"

\* Slot b was written right after slot a.
Follows(b, a) == b.gen = (a.gen + 1) % Gens

InQuestion == {committed} \cup inDoubt

\* What the place that is not in use may hold: nothing valid, the slot that was
\* in use before, or the one a call that did not succeed meant to take into use.
Spare(x) ==
  \/ ~x.valid
  \/ Follows(slot, x)
  \/ Follows(x, slot) /\ x.off \in InQuestion

Types ==
  /\ cache \in [Slots -> Slot] /\ disk \in [Slots -> Slot] /\ slot \in Slot
  /\ pc \in {"idle", "write", "writing", "sync", "unreadable"}
  /\ arg \in Nat /\ committed \in Nat /\ inDoubt \subseteq Nat
  /\ crashes \in Seq({"process", "power"})

\* Even generations are at byte 16, odd ones at byte 32.
Places(h) == \A s \in Slots : h[s].valid => (h[s].gen % 2 = 0 <=> s = 16)

MInv ==
  /\ Types
  /\ Places(cache) /\ Places(disk)
  /\ Running => slot.valid /\ cache[own] = slot
  /\ Running /\ ~RestartThenPowerLoss => slot.off \in InQuestion /\ Spare(cache[headerOffset])
  /\ Running /\ NeverRestarted => disk[own] = slot /\ Spare(disk[headerOffset])
  /\ Running /\ inDoubt = {} => Meta(cache) = slot
  /\ pc \in {"write", "writing", "sync"} => arg \in inDoubt
  /\ pc = "sync" => cache[headerOffset] = slotVal
  /\ StaysReadable

\* The next generation: of the other parity, newer, and never older.
LEMMA NextGen ==
  ASSUME NEW g \in 0..(Gens - 1)
  PROVE  /\ (g + 1) % Gens \in 0..(Gens - 1)
         /\ ((g + 1) % Gens) % 2 = 0 <=> g % 2 # 0
         /\ (((g + 1) % Gens) - g) % Gens \in 1..(Gens \div 2 - 1)
         /\ (g - ((g + 1) % Gens)) % Gens \notin 1..(Gens \div 2 - 1)
<1> DEFINE n == (g + 1) % Gens
<1>1. Gens \in Nat /\ Gens >= 4 /\ Gens % 2 = 0 /\ g \in Nat /\ g < Gens
  BY GensAssumption
<1>2. Gens \div 2 \in Nat /\ 2 * (Gens \div 2) = Gens
  BY ONLY <1>1
<1>3. CASE g = Gens - 1
  <2>1. n = 0
    BY ONLY <1>1, <1>3
  <2>2. (0 - g) % Gens = 1 /\ (g - 0) % Gens = Gens - 1
    BY ONLY <1>1, <1>3
  <2> QED BY ONLY <1>1, <1>2, <1>3, <2>1, <2>2
<1>4. CASE g # Gens - 1
  <2>1. n = g + 1
    BY ONLY <1>1, <1>4
  <2>2. (n - g) % Gens = 1 /\ (g - n) % Gens = Gens - 1
    <3>1. n - g = 1 /\ g - n = -1
      BY ONLY <1>1, <2>1
    <3>2. 1 % Gens = 1 /\ (-1) % Gens = Gens - 1
      BY ONLY <1>1
    <3> QED BY ONLY <3>1, <3>2
  <2> QED BY ONLY <1>1, <1>2, <1>4, <2>1, <2>2
<1> QED BY <1>3, <1>4

\* Load takes the one of two valid slots that was written after the other, and
\* the only one where there is one.
LEMMA MetaPicks ==
  ASSUME NEW h \in [Slots -> Slot], Readable(h)
  PROVE  /\ Meta(h) \in {h[16], h[32]} /\ Meta(h).valid
         /\ \A s, t \in Slots : s # t /\ h[s].valid /\ (~h[t].valid \/ Follows(h[s], h[t])) => Meta(h) = h[s]
<1>1. Meta(h) \in {h[16], h[32]} /\ Meta(h).valid
  <2>1. CASE h[16].valid /\ (~h[32].valid \/ NewerThan(h[16], h[32]))
    <3>1. Meta(h) = h[16]
      BY <2>1 DEF Meta
    <3> QED BY <2>1, <3>1
  <2>2. CASE ~(h[16].valid /\ (~h[32].valid \/ NewerThan(h[16], h[32])))
    <3>1. Meta(h) = h[32] /\ h[32].valid
      BY <2>2 DEF Meta, Readable
    <3> QED BY <3>1
  <2> QED BY <2>1, <2>2
<1>2. h[16].gen \in 0..(Gens - 1) /\ h[32].gen \in 0..(Gens - 1)
  BY DEF Slots, Slot
<1>3. Follows(h[16], h[32]) => NewerThan(h[16], h[32])
  <2>1. (((h[32].gen + 1) % Gens) - h[32].gen) % Gens \in 1..(Gens \div 2 - 1)
    BY <1>2, NextGen, Zenon
  <2> QED BY <2>1, Zenon DEF Follows, NewerThan
<1>4. Follows(h[32], h[16]) => ~NewerThan(h[16], h[32])
  <2>1. (h[16].gen - ((h[16].gen + 1) % Gens)) % Gens \notin 1..(Gens \div 2 - 1)
    BY <1>2, NextGen, Zenon
  <2>2. ASSUME h[32].gen = (h[16].gen + 1) % Gens
        PROVE  (h[16].gen - h[32].gen) % Gens \notin 1..(Gens \div 2 - 1)
    BY ONLY <2>1, <2>2
  <2> QED BY <2>2 DEF Follows, NewerThan
<1>5. ASSUME h[16].valid, ~h[32].valid \/ Follows(h[16], h[32])
      PROVE  Meta(h) = h[16]
  BY <1>3, <1>5 DEF Meta
<1>6. ASSUME h[32].valid, ~h[16].valid \/ Follows(h[32], h[16])
      PROVE  Meta(h) = h[32]
  BY <1>4, <1>6 DEF Meta
<1> QED BY <1>1, <1>5, <1>6 DEF Slots

\* The two places, and that the next generation goes to the other one.
LEMMA OwnPlace ==
  ASSUME slot \in Slot
  PROVE  /\ own \in Slots /\ headerOffset \in Slots /\ own # headerOffset
         /\ \A s \in Slots : s = own \/ s = headerOffset
         /\ slotVal.gen \in 0..(Gens - 1) /\ slotVal.valid /\ slotVal.off = arg /\ Follows(slotVal, slot)
         /\ slotVal.gen % 2 = 0 <=> headerOffset = 16
<1>1. slot.gen \in 0..(Gens - 1)
  BY DEF Slot
<1>2. /\ own \in Slots /\ headerOffset \in Slots /\ own # headerOffset
      /\ \A s \in Slots : s = own \/ s = headerOffset
      /\ headerOffset = 16 <=> slot.gen % 2 # 0
  BY DEF own, headerOffset, Slots
<1>3. slotVal.gen = (slot.gen + 1) % Gens /\ slotVal.valid /\ slotVal.off = arg
  BY DEF slotVal
<1> QED BY <1>1, <1>2, <1>3, NextGen, SMTT(20) DEF Follows

\* A slot a restart finds, at its place, becomes the one in use.
LEMMA OwnAfter ==
  ASSUME slot' \in Slot, slot'.valid, NEW h \in [Slots -> Slot], Places(h),
         NEW s \in Slots, h[s] = slot'
  PROVE  own' = s /\ headerOffset' \in Slots /\ headerOffset' # s
BY SMTT(20) DEF own, headerOffset, Slots, Places

\* New segment.
LEMMA InitInv == Init => MInv
<1> SUFFICES ASSUME Init PROVE MInv
  OBVIOUS
<1>1. NewHeader[16] = [off |-> HeaderSize, gen |-> 0, valid |-> TRUE] /\ NewHeader[32] = Torn
  BY SMTT(20) DEF NewHeader, Slots
<1>2. HeaderSize \in Nat /\ 0 \in 0..(Gens - 1)
  BY GensAssumption, OffsetsAssumption
<1>3. NewHeader \in [Slots -> Slot] /\ NewHeader[16] \in Slot
  BY <1>2 DEF NewHeader, Slots, Slot, Torn
<1>4. Types
  BY <1>2, <1>3 DEF Init, Types
<1>5. slot.gen = 0 /\ slot.valid /\ slot.off = HeaderSize /\ own = 16 /\ headerOffset = 32
  BY <1>1 DEF Init, own, headerOffset
<1>6. Places(NewHeader) /\ ~NewHeader[32].valid
  BY <1>1 DEF Places, Slots, Torn
<1>7. Meta(NewHeader) = NewHeader[16]
  BY <1>1, SMTT(20) DEF Meta, Torn
<1> QED BY <1>4, <1>5, <1>6, <1>7 DEF Init, MInv, Running, InQuestion, Spare, StaysReadable

\* Nothing of what the invariant is about changes, but the place of the control
\* and, with it, the calls that are in doubt.
LEMMA ControlInv ==
  ASSUME MInv, UNCHANGED <<cache, disk, slot, committed, crashes>>,
         Running, pc' \in {"idle", "write"}, arg' \in Nat,
         inDoubt' \subseteq Nat, inDoubt \subseteq inDoubt', pc' = "write" => arg' \in inDoubt'
  PROVE  MInv'
<1>1. Types' /\ Places(cache)' /\ Places(disk)' /\ Running'
  BY DEF MInv, Types, Places, Running
<1>2. own' = own /\ headerOffset' = headerOffset
  BY DEF own, headerOffset
<1>3. \A x : Spare(x) => Spare(x)'
  BY DEF Spare, Follows, InQuestion
<1>4. /\ RestartThenPowerLoss' <=> RestartThenPowerLoss
      /\ NeverRestarted' <=> NeverRestarted
  BY DEF RestartThenPowerLoss, NeverRestarted
<1>5. slot'.valid /\ cache'[own'] = slot'
  BY <1>2 DEF MInv
<1>6. ~RestartThenPowerLoss' => slot'.off \in InQuestion' /\ Spare(cache[headerOffset])'
  BY <1>2, <1>3, <1>4 DEF MInv, InQuestion
<1>7. NeverRestarted' => disk'[own'] = slot' /\ Spare(disk[headerOffset])'
  BY <1>2, <1>3, <1>4 DEF MInv
<1>8. inDoubt' = {} => Meta(cache)' = slot'
  BY DEF MInv, Meta
<1> QED BY <1>1, <1>5, <1>6, <1>7, <1>8 DEF MInv, StaysReadable, Running

\* A call is made, and a call is given up when Sync fails.
LEMMA CallInv ==
  ASSUME MInv, SyncFails \/ \E off \in Offsets : SetReadOffset(off)
  PROVE  MInv'
<1>1. arg \in Nat /\ inDoubt \subseteq Nat
  BY DEF MInv, Types
<1>2. CASE SyncFails
  BY <1>1, <1>2, ControlInv DEF SyncFails, Running
<1>3. ASSUME NEW off \in Offsets, SetReadOffset(off)
      PROVE  MInv'
  <2>1. off \in Nat
    BY OffsetsAssumption
  <2> QED BY <1>1, <1>3, <2>1, ControlInv DEF SetReadOffset, Running
<1> QED BY <1>2, <1>3

\* A write touches the slot that is not in use, and a call is in doubt by then.
LEMMA WriteInv ==
  ASSUME MInv, WriteBegin \/ WriteEnd
  PROVE  MInv'
<1>1. /\ Types /\ Places(cache) /\ Places(disk) /\ Running /\ slot.valid /\ cache[own] = slot
      /\ arg \in inDoubt
  BY DEF MInv, WriteBegin, WriteEnd, Running
<1>2. PICK x : /\ cache' = [cache EXCEPT ![headerOffset] = x]
               /\ x = Torn \/ x = slotVal
               /\ pc' = "sync" => x = slotVal
  BY DEF WriteBegin, WriteEnd
<1>3. /\ UNCHANGED <<disk, slot, arg, committed, inDoubt, crashes>>
      /\ pc' \in {"idle", "writing", "sync"}
  BY DEF WriteBegin, WriteEnd
<1>4. /\ own \in Slots /\ headerOffset \in Slots /\ own # headerOffset
      /\ \A s \in Slots : s = own \/ s = headerOffset
      /\ slotVal.gen \in 0..(Gens - 1) /\ slotVal.valid /\ slotVal.off = arg /\ Follows(slotVal, slot)
      /\ slotVal.gen % 2 = 0 <=> headerOffset = 16
  BY <1>1, OwnPlace DEF Types
<1>5. x \in Slot /\ Spare(x) /\ (x.valid => (x.gen % 2 = 0 <=> headerOffset = 16))
  <2>1. arg \in Nat /\ slot \in Slot /\ 0 \in 0..(Gens - 1)
    BY <1>1, GensAssumption DEF Types
  <2>2. CASE x = Torn
    BY <2>1, <2>2 DEF Torn, Slot, Spare
  <2>3. CASE x = slotVal
    <3>1. slotVal \in Slot
      BY <1>4, <2>1 DEF slotVal, Slot
    <3> QED BY <1>1, <1>4, <2>3, <3>1, Zenon DEF Spare, InQuestion
  <2> QED BY <1>2, <2>2, <2>3
<1>6. /\ cache' \in [Slots -> Slot] /\ cache'[headerOffset] = x
      /\ \A s \in Slots : s # headerOffset => cache'[s] = cache[s]
  BY <1>1, <1>2, <1>4, <1>5 DEF Types
<1>7. own' = own /\ headerOffset' = headerOffset /\ slotVal' = slotVal
  BY <1>3 DEF own, headerOffset, slotVal
<1>8. Types' /\ Running'
  BY <1>1, <1>3, <1>6 DEF Types, Running
<1>9. Places(cache)' /\ Places(disk)'
  BY <1>1, <1>3, <1>5, <1>6, SMTT(20) DEF Places
<1>10. cache'[own'] = slot' /\ slot'.valid
  BY <1>1, <1>3, <1>4, <1>6, <1>7
<1>11. Spare(cache[headerOffset])'
  BY <1>3, <1>5, <1>6, <1>7 DEF Spare, Follows, InQuestion
<1>12. /\ RestartThenPowerLoss' <=> RestartThenPowerLoss
       /\ NeverRestarted' <=> NeverRestarted
  BY <1>3 DEF RestartThenPowerLoss, NeverRestarted
<1>13. ~RestartThenPowerLoss' => slot'.off \in InQuestion'
  BY <1>1, <1>3, <1>12 DEF MInv, InQuestion
<1>14. NeverRestarted' => disk'[own'] = slot' /\ Spare(disk[headerOffset])'
  BY <1>1, <1>3, <1>7, <1>12 DEF MInv, Spare, Follows, InQuestion
<1>15. inDoubt' # {} /\ arg' \in inDoubt' /\ (pc' = "sync" => cache'[headerOffset'] = slotVal')
  BY <1>1, <1>2, <1>3, <1>6, <1>7
<1> QED BY <1>3, <1>8, <1>9, <1>10, <1>11, <1>13, <1>14, <1>15, Zenon DEF MInv, StaysReadable, Running

\* The new slot is forced out and taken into use; the one before becomes the
\* spare one.
LEMMA SyncInv ==
  ASSUME MInv, Sync
  PROVE  MInv'
<1>1. /\ Types /\ Places(cache) /\ Running /\ slot.valid /\ cache[own] = slot
      /\ cache[headerOffset] = slotVal
  BY DEF MInv, Sync, Running
<1>2. /\ cache' = cache /\ disk' = cache /\ slot' = slotVal /\ committed' = arg /\ inDoubt' = {}
      /\ pc' = "idle" /\ UNCHANGED <<arg, crashes>>
  BY DEF Sync
<1>3. /\ own \in Slots /\ headerOffset \in Slots /\ own # headerOffset
      /\ \A s \in Slots : s = own \/ s = headerOffset
      /\ slotVal.gen \in 0..(Gens - 1) /\ slotVal.valid /\ slotVal.off = arg /\ Follows(slotVal, slot)
      /\ slotVal.gen % 2 = 0 <=> headerOffset = 16
  BY <1>1, OwnPlace DEF Types
<1>4. slotVal \in Slot /\ cache \in [Slots -> Slot]
  BY <1>1, <1>3 DEF Types, slotVal, Slot
<1>5. own' = headerOffset /\ headerOffset' = own
  <2>1. own' = headerOffset /\ headerOffset' \in Slots /\ headerOffset' # headerOffset
    BY <1>1, <1>2, <1>3, <1>4, OwnAfter
  <2> QED BY <1>3, <2>1
<1>6. Types' /\ Places(cache)' /\ Places(disk)' /\ Running'
  BY <1>1, <1>2, <1>4 DEF Types, Places, Running
<1>7. slot'.valid /\ cache'[own'] = slot' /\ disk'[own'] = slot' /\ slot'.off \in InQuestion'
  BY <1>1, <1>2, <1>3, <1>5 DEF InQuestion
<1>8. Spare(cache[headerOffset])' /\ Spare(disk[headerOffset])'
  BY <1>1, <1>2, <1>3, <1>5 DEF Spare, Follows
<1>9. Meta(cache) = slotVal
  <2>1. Readable(cache)
    BY <1>1, <1>3 DEF Readable, Slots
  <2> QED BY <1>1, <1>3, <1>4, <2>1, MetaPicks
<1>10. Meta(cache)' = slot'
  BY <1>2, <1>9 DEF Meta
<1> QED BY <1>2, <1>6, <1>7, <1>8, <1>10 DEF MInv, StaysReadable, Running

\* A slot is written back: a copy of what the program sees.
LEMMA WriteBackInv ==
  ASSUME MInv, NEW s \in Slots, WriteBack(s)
  PROVE  MInv'
<1>1. Types /\ Places(cache) /\ Places(disk)
  BY DEF MInv
<1>2. disk' = [disk EXCEPT ![s] = cache[s]] /\ UNCHANGED <<cache, slot, pc, arg, committed, inDoubt, crashes>>
  BY DEF WriteBack
<1>3. /\ disk' \in [Slots -> Slot] /\ disk'[s] = cache[s]
      /\ \A t \in Slots : t # s => disk'[t] = disk[t]
  BY <1>1, <1>2 DEF Types
<1>4. own \in Slots /\ headerOffset \in Slots
  BY DEF own, headerOffset, Slots
<1>5. Types' /\ Places(cache)' /\ Places(disk)'
  BY <1>1, <1>2, <1>3 DEF Types, Places
<1>6. /\ own' = own /\ headerOffset' = headerOffset /\ slotVal' = slotVal /\ InQuestion' = InQuestion
      /\ Meta(cache)' = Meta(cache) /\ (Running' <=> Running) /\ (\A x : Spare(x)' <=> Spare(x))
      /\ (RestartThenPowerLoss' <=> RestartThenPowerLoss) /\ (NeverRestarted' <=> NeverRestarted)
      /\ (StaysReadable' <=> StaysReadable)
  BY <1>2 DEF own, headerOffset, slotVal, InQuestion, Meta, Running, Spare, Follows,
              RestartThenPowerLoss, NeverRestarted, StaysReadable
<1>7. NeverRestarted => ~RestartThenPowerLoss
  BY DEF NeverRestarted, RestartThenPowerLoss
<1>8. Running' /\ NeverRestarted' => disk'[own'] = slot' /\ Spare(disk[headerOffset])'
  <2> SUFFICES ASSUME Running, NeverRestarted
               PROVE  disk'[own] = slot /\ Spare(disk'[headerOffset])
    BY <1>2, <1>6 DEF Spare, Follows, InQuestion
  <2>1. cache[own] = slot /\ disk[own] = slot /\ Spare(cache[headerOffset]) /\ Spare(disk[headerOffset])
    BY <1>7 DEF MInv
  <2> QED BY <1>3, <1>4, <2>1
<1>9. Running' /\ ~RestartThenPowerLoss' => slot'.off \in InQuestion' /\ Spare(cache[headerOffset])'
  BY <1>2, <1>6 DEF MInv, Spare, Follows, InQuestion
<1> QED BY <1>2, <1>5, <1>6, <1>8, <1>9 DEF MInv

\* Load takes a slot into use that is at its place.
LEMMA LoadFinds ==
  ASSUME NEW h \in [Slots -> Slot], Places(h), Readable(h), slot' = Meta(h)
  PROVE  slot' \in Slot /\ slot'.valid /\ own' \in Slots /\ h[own'] = slot'
<1>1. PICK s \in Slots : slot' = h[s]
  BY MetaPicks DEF Slots
<1>2. slot' \in Slot
  BY <1>1, Zenon
<1>3. slot'.valid
  BY MetaPicks, Zenon
<1> QED BY <1>1, <1>2, <1>3, OwnAfter

\* When the slot in use was the valid one, or the older one of two valid ones,
\* the slot loaded is that one or the one in doubt.
LEMMA LoadIsInQuestion ==
  ASSUME slot \in Slot, slot.valid, slot.off \in InQuestion,
         NEW h \in [Slots -> Slot], Places(h), h[own] = slot, Spare(h[headerOffset]),
         slot' = Meta(h), UNCHANGED <<committed, inDoubt>>
  PROVE  slot'.off \in InQuestion' /\ Spare(h[headerOffset])'
<1>1. /\ own \in Slots /\ headerOffset \in Slots /\ own # headerOffset
      /\ \A s \in Slots : s = own \/ s = headerOffset
  BY OwnPlace
<1>2. Readable(h)
  BY <1>1 DEF Readable, Slots
<1>3. InQuestion' = InQuestion
  BY DEF InQuestion
<1>4. CASE slot' = slot
  BY <1>3, <1>4 DEF Spare, Follows, headerOffset
<1>5. CASE slot' # slot
  <2>1. slot' = h[headerOffset] /\ slot'.valid /\ slot' \in Slot
    BY <1>1, <1>2, <1>5, MetaPicks, SMTT(20) DEF Slots
  <2>2. ~Follows(slot, h[headerOffset])
    BY <1>1, <1>2, <1>5, MetaPicks
  <2>3. Follows(slot', slot) /\ slot'.off \in InQuestion
    BY <2>1, <2>2 DEF Spare
  <2>4. own' = headerOffset /\ headerOffset' \in Slots /\ headerOffset' # headerOffset
    BY <1>1, <2>1, OwnAfter
  <2>5. headerOffset' = own
    BY <1>1, <2>4
  <2> QED BY <1>3, <2>3, <2>5 DEF Spare, Follows
<1> QED BY <1>4, <1>5

\* What another crash adds to the history.
LEMMA CrashFacts ==
  ASSUME crashes \in Seq({"process", "power"}), NEW k \in {"process", "power"},
         crashes' = Append(crashes, k)
  PROVE  /\ crashes' \in Seq({"process", "power"})
         /\ k = "process" => ~NeverRestarted' /\ (RestartThenPowerLoss' <=> RestartThenPowerLoss)
         /\ k = "power" => (NeverRestarted' <=> NeverRestarted) /\ (RestartThenPowerLoss' <=> ~NeverRestarted)
<1>1. /\ Len(crashes) \in Nat /\ Len(crashes') = Len(crashes) + 1 /\ crashes' \in Seq({"process", "power"})
      /\ (\A i \in 1..Len(crashes) : crashes'[i] = crashes[i]) /\ crashes'[Len(crashes) + 1] = k
  OBVIOUS
<1>2. \A i \in 1..Len(crashes') : i \in 1..Len(crashes) \/ i = Len(crashes) + 1
  BY <1>1
<1>3. ASSUME k = "process"
      PROVE  ~NeverRestarted' /\ (RestartThenPowerLoss' <=> RestartThenPowerLoss)
  BY <1>1, <1>2, <1>3, SMTT(20) DEF NeverRestarted, RestartThenPowerLoss
<1>4. ASSUME k = "power"
      PROVE  (NeverRestarted' <=> NeverRestarted) /\ (RestartThenPowerLoss' <=> ~NeverRestarted)
  BY <1>1, <1>2, <1>4, SMTT(20) DEF NeverRestarted, RestartThenPowerLoss
<1> QED BY <1>1, <1>3, <1>4

\* The process dies: what it has written is there, forced out or not.
LEMMA ProcessCrashInv ==
  ASSUME MInv, ProcessCrash
  PROVE  MInv'
<1>1. /\ Types /\ Places(cache) /\ Places(disk) /\ Running /\ slot.valid /\ cache[own] = slot
      /\ UNCHANGED <<cache, disk, arg, committed, inDoubt>> /\ crashes' = Append(crashes, "process")
  BY DEF MInv, ProcessCrash, Running
<1>2. Readable(cache) /\ own \in Slots
  BY <1>1 DEF Readable, own, Slots
<1>3. slot' = Meta(cache) /\ pc' = "idle"
  BY <1>2 DEF ProcessCrash, Load
<1>4. cache \in [Slots -> Slot] /\ slot \in Slot
  BY <1>1 DEF Types
<1>5. slot' \in Slot /\ slot'.valid /\ own' \in Slots /\ cache[own'] = slot'
  BY <1>1, <1>2, <1>3, <1>4, LoadFinds
<1>6. /\ crashes' \in Seq({"process", "power"}) /\ ~NeverRestarted'
      /\ RestartThenPowerLoss' <=> RestartThenPowerLoss
  BY <1>1, CrashFacts DEF Types
<1>7. Types' /\ Places(cache)' /\ Places(disk)' /\ Running'
  BY <1>1, <1>3, <1>5, <1>6 DEF Types, Places, Running
<1>8. ~RestartThenPowerLoss' => slot'.off \in InQuestion' /\ Spare(cache[headerOffset])'
  <2> SUFFICES ASSUME ~RestartThenPowerLoss
               PROVE  slot'.off \in InQuestion' /\ Spare(cache[headerOffset])'
    BY <1>6
  <2>1. slot.off \in InQuestion /\ Spare(cache[headerOffset])
    BY <1>1 DEF MInv
  <2>2. PICK h : h = cache
    OBVIOUS
  <2>3. slot'.off \in InQuestion' /\ Spare(h[headerOffset])'
    BY <1>1, <1>3, <1>4, <2>1, <2>2, LoadIsInQuestion
  <2> QED BY <1>1, <2>2, <2>3
<1>9. Meta(cache)' = slot'
  BY <1>1, <1>3 DEF Meta
<1> QED BY <1>1, <1>3, <1>5, <1>6, <1>7, <1>8, <1>9 DEF MInv, StaysReadable

\* Power is lost: a slot the medium had as the program did is left as it is.
LEMMA PowerCutInv ==
  ASSUME MInv, PowerCut
  PROVE  MInv'
<1>1. /\ Types /\ Places(cache) /\ Places(disk) /\ Running /\ slot.valid /\ cache[own] = slot
      /\ UNCHANGED <<arg, committed, inDoubt>> /\ crashes' = Append(crashes, "power")
      /\ cache' = disk'
  BY DEF MInv, PowerCut, Running
<1>2. /\ disk' \in [Slots -> Slot]
      /\ \A s \in Slots : disk'[s] = disk[s] \/ (disk'[s] = Torn /\ disk[s] # cache[s])
  <2>1. Torn \in Slot
    BY GensAssumption DEF Torn, Slot
  <2>2. PICK torn \in SUBSET {s \in Slots : disk[s] # cache[s]} :
          disk' = [s \in Slots |-> IF s \in torn THEN Torn ELSE disk[s]]
    BY DEF PowerCut
  <2> QED BY <1>1, <2>1, <2>2 DEF Types
<1>3. Places(disk)' /\ Places(cache)'
  BY <1>1, <1>2, SMTT(20) DEF Places, Torn
<1>4. /\ crashes' \in Seq({"process", "power"}) /\ (NeverRestarted' <=> NeverRestarted)
      /\ RestartThenPowerLoss' <=> ~NeverRestarted
  BY <1>1, CrashFacts DEF Types
<1>5. slot \in Slot /\ own \in Slots /\ headerOffset \in Slots
  BY <1>1 DEF Types, own, headerOffset, Slots
<1>6. NeverRestarted => ~RestartThenPowerLoss
  BY DEF NeverRestarted, RestartThenPowerLoss
<1>7. ASSUME NeverRestarted
      PROVE  disk'[own] = slot /\ Spare(disk'[headerOffset]) /\ slot.off \in InQuestion
  <2>1. /\ disk[own] = slot /\ Spare(disk[headerOffset]) /\ slot.off \in InQuestion
    BY <1>1, <1>6, <1>7 DEF MInv
  <2>2. disk'[own] = slot
    BY <1>1, <1>2, <1>5, <2>1
  <2>3. Spare(Torn)
    BY DEF Spare, Torn
  <2> QED BY <1>2, <1>5, <2>1, <2>2, <2>3
<1>8. PICK h : h = disk' /\ h \in [Slots -> Slot] /\ Places(h) /\ (Readable(h) <=> Readable(disk'))
  BY <1>2, <1>3 DEF Places
<1>9. CASE ~Readable(h)
  <2>1. pc' = "unreadable" /\ slot' = slot
    BY <1>8, <1>9 DEF PowerCut, Load
  <2>2. ~NeverRestarted
    <3>1. NeverRestarted => disk'[own].valid
      BY <1>1, <1>7
    <3> QED BY <1>5, <1>8, <1>9, <3>1 DEF Readable, Slots
  <2>3. Types'
    BY <1>1, <1>2, <1>4, <2>1 DEF Types
  <2> QED BY <1>3, <1>4, <2>1, <2>2, <2>3 DEF MInv, Running, StaysReadable
<1>10. CASE Readable(h)
  <2>1. pc' = "idle" /\ slot' = Meta(h)
    BY <1>8, <1>10 DEF PowerCut, Load
  <2>2. slot' \in Slot /\ slot'.valid /\ own' \in Slots /\ h[own'] = slot'
    BY <1>8, <1>10, <2>1, LoadFinds
  <2>3. Types' /\ Running'
    BY <1>1, <1>2, <1>4, <2>1, <2>2 DEF Types, Running
  <2>4. NeverRestarted => slot'.off \in InQuestion' /\ Spare(h[headerOffset])'
    BY <1>1, <1>5, <1>7, <1>8, <2>1, LoadIsInQuestion
  <2>5. NeverRestarted => slot'.off \in InQuestion' /\ Spare(cache[headerOffset])' /\ Spare(disk[headerOffset])'
    BY <1>1, <1>8, <2>4
  <2>6. Meta(cache)' = slot'
    BY <1>1, <1>8, <2>1 DEF Meta
  <2>7. cache'[own'] = slot' /\ disk'[own'] = slot'
    BY <1>1, <1>8, <2>2
  <2> QED BY <1>3, <1>4, <2>1, <2>2, <2>3, <2>5, <2>6, <2>7 DEF MInv, StaysReadable
<1> QED BY <1>9, <1>10

\* Every step of SetReadOffset, of the medium and every crash keeps the invariant.
LEMMA NextInv == MInv /\ [Next]_vars => MInv'
<1> SUFFICES ASSUME MInv, [Next]_vars PROVE MInv'
  OBVIOUS
<1>1. CASE UNCHANGED vars
  <2>1. UNCHANGED <<cache, disk, slot, pc, arg, committed, inDoubt, crashes>>
    BY <1>1 DEF vars
  <2>2. /\ Types' = Types /\ Places(cache)' = Places(cache) /\ Places(disk)' = Places(disk)
        /\ Running' = Running /\ StaysReadable' = StaysReadable
        /\ RestartThenPowerLoss' = RestartThenPowerLoss /\ NeverRestarted' = NeverRestarted
    BY <2>1 DEF Types, Places, Running, RestartThenPowerLoss, NeverRestarted, StaysReadable
  <2>3. /\ own' = own /\ headerOffset' = headerOffset /\ slotVal' = slotVal /\ InQuestion' = InQuestion
        /\ Meta(cache)' = Meta(cache)
    BY <2>1 DEF own, headerOffset, slotVal, InQuestion, Meta
  <2>4. /\ Spare(cache[headerOffset])' = Spare(cache[headerOffset])
        /\ Spare(disk[headerOffset])' = Spare(disk[headerOffset])
    BY <2>1, <2>3 DEF Spare, Follows
  <2> QED BY <2>1, <2>2, <2>3, <2>4 DEF MInv
<1> QED BY <1>1, CallInv, WriteInv, SyncInv, WriteBackInv, ProcessCrashInv, PowerCutInv DEF Next

\* The invariant holds in every behaviour.
LEMMA Invariance == Spec => []MInv
BY InitInv, NextInv, PTL DEF Spec

\* What Load finds is what the last successful SetReadOffset wrote, or a call
\* after it, for every width of the generation, however far it has wrapped.
THEOREM CommittedIsLoaded == Spec => []LoadsCommitted
<1>1. MInv => LoadsCommitted
  BY DEF MInv, LoadsCommitted, Running, InQuestion
<1> QED BY <1>1, Invariance, PTL

\* However often the process dies or power is lost, one of the two slots stays
\* valid, unless power is lost after a restart.
THEOREM HeaderStaysReadable == Spec => []StaysReadable
<1>1. MInv => StaysReadable
  BY DEF MInv
<1> QED BY <1>1, Invariance, PTL

\* The offset a segment uses is the one it would load, unless a call has failed.
THEOREM NewestIsUsed == Spec => []UsesNewest
<1>1. MInv => UsesNewest
  BY DEF MInv, UsesNewest, Running
<1> QED BY <1>1, Invariance, PTL
=============================================================================
