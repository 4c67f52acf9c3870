---------------------------- MODULE FlashExample ----------------------------
(***************************************************************************)
(* The flash programming example (usage_examples/flash/main.c) on the      *)
(* flash and its programmer.  Another program has used the programmer      *)
(* before, and left its registers and the words anyhow.  The host resets   *)
(* the CPU at any instruction, or saves the flash with getSnapshot and     *)
(* starts a machine over from that, and runs the program on after a bus    *)
(* exception.  The program prints between its steps, which touches neither *)
(* the flash nor the programmer.                                           *)
(***************************************************************************)
EXTENDS Flash, FiniteSets

CONSTANTS RegionStart, RegionEnd,  \* the words it programs: 0x10000 .. 0x10400
          VerifyLength,            \* how many bytes of them it verifies: 400
          Pattern                  \* 0xDEADBEEF + i for each i of the region

Word4(first, last) == {off \in first .. last - 1 : (off - first) % 4 = 0}
Region == Word4(RegionStart, RegionEnd)
Verified == Word4(RegionStart, RegionStart + VerifyLength)

ASSUME RegionAssumption ==
  /\ RegionStart \in Nat /\ RegionStart % 4 = 0
  /\ RegionEnd \in RegionStart + 1 .. MaxOffset
  /\ VerifyLength \in 1 .. RegionEnd - RegionStart
ASSUME PatternAssumption == Pattern \in [Region -> Word \ {Ones}]

VARIABLES pc,        \* of main, or "other" while the other program runs
          i,         \* the counter of either loop, as an offset in the flash
          errors,
          fit,       \* history: the offsets of the region that could take the
                     \* pattern when main started for the first time
          lost       \* history: a load of this verification was left undone

flash == <<buffer, bounds, controlRegister, currentOffset, base, burst>>
exampleVars == <<flash, pc, i, errors, fit, lost>>

ExampleInit == /\ Init
               /\ pc = "other" /\ i = RegionStart /\ errors = 0
               /\ fit = {} /\ lost = FALSE

-----------------------------------------------------------------------------
(* main: each action makes one access to the bus. *)

Goto(from, to) == pc = from /\ pc' = to

\* flash_init
FlashInit ==
  /\ Goto("init", "enable")
  /\ WriteControl({})
  /\ errors' = 0 /\ lost' = FALSE
  /\ UNCHANGED <<i, fit>>

\* A word is programmed by a store to `offset` and one to `value`.
FirstStore_Value == "value"
FirstStore == "offset"

\* flash_enable_write
Enabled_OnlyIncrement == {AutoIncrement}
Enabled == {WriteEnable, AutoIncrement}
FlashEnableWrite ==
  /\ Goto("enable", FirstStore)
  /\ WriteControl(Enabled)
  /\ i' = RegionStart
  /\ UNCHANGED <<errors, fit, lost>>

\* flash_write_word
StoreOffset ==
  /\ Goto("offset", "value")
  /\ WriteOffset(i)
  /\ UNCHANGED <<i, errors, fit, lost>>

NextWord ==
  /\ i' = i + 4
  /\ Goto("value", IF i + 4 < RegionEnd THEN FirstStore ELSE "disable")
  /\ UNCHANGED <<errors, fit, lost>>

StoreValue == NextWord /\ WriteValue(Pattern[i])

\* The store throws: run continues after it.
StoreValueThrows ==
  /\ WriteEnable \notin controlRegister \/ ReadThrows(currentOffset)
  /\ NextWord
  /\ UNCHANGED flash

\* flash_disable_write
FlashDisableWrite ==
  /\ Goto("disable", "verify")
  /\ WriteControl({})
  /\ i' = RegionStart
  /\ UNCHANGED <<errors, fit, lost>>

NextVerified ==
  /\ i' = i + 4
  /\ Goto("verify", IF i + 4 < RegionStart + VerifyLength THEN "verify" ELSE "forever")
  /\ UNCHANGED <<flash, fit>>

Verify ==
  /\ ~ReadThrows(i)
  /\ NextVerified
  /\ errors' = IF FlashRead(i) = Pattern[i] THEN errors ELSE errors + 1
  /\ UNCHANGED lost

\* The load throws: run continues after it, with whatever its register held.
VerifyThrows ==
  /\ ReadThrows(i)
  /\ NextVerified
  /\ errors' \in {errors, errors + 1}
  /\ lost' = TRUE

-----------------------------------------------------------------------------
(* The host. *)

Fits(off) == off < size /\ Pattern[off] \subseteq FlashRead(off)

Start == /\ pc' = "init"
         /\ fit' = IF pc = "other" THEN {off \in Region : Fits(off)} ELSE fit
         /\ UNCHANGED <<i, errors, lost>>

\* reset of the CPU: the devices keep their state.
Reset == Start /\ UNCHANGED flash

\* A new Flash, with a new programmer, is made from getSnapshot(): its words are
\* those of the `size` bytes that can be read.
Saved_EveryFourth == {w \in Index : 16 * w < size}
Saved == {w \in Index : 4 * w < size}

PowerCycle ==
  /\ size % 4 = 0
  /\ Start
  /\ buffer' = [w \in Index |-> IF w \in Saved THEN buffer[w] ELSE Ones]
  /\ bounds' \in BOOLEAN
  /\ controlRegister' = {} /\ currentOffset' = 0
  /\ base' = 0 /\ burst' = <<>>

-----------------------------------------------------------------------------
(* Specification. *)

OtherProgram == pc = "other" /\ Next /\ UNCHANGED <<pc, i, errors, fit, lost>>

Main == \/ FlashInit \/ FlashEnableWrite
        \/ StoreOffset \/ StoreValue \/ StoreValueThrows
        \/ FlashDisableWrite
        \/ Verify \/ VerifyThrows

ExampleNext == OtherProgram \/ Main \/ Reset \/ PowerCycle

ExampleSpec == ExampleInit /\ [][ExampleNext]_exampleVars

-----------------------------------------------------------------------------
(* Properties. *)

\* main.c:62-64.  However the programmer was left, and wherever main is reset, what it
\* changes of the readable flash is in its region, and only to clear bits that
\* the pattern has clear.
MainKeepsToRegion ==
  [][pc # "other" => \A off \in {4 * w : w \in Index} : off < size =>
       IF off \in Region
       THEN FlashRead(off) \cap Pattern[off] \subseteq FlashRead(off)'
       ELSE FlashRead(off)' = FlashRead(off)]_exampleVars

\* The words main has passed by in its first loop, or has already verified.
Past == CASE pc \in {"other", "init", "enable"} -> {}
          [] pc \in {"offset", "value"} -> {off \in Region : off < i}
          [] OTHER -> Region

\* main.c:62-64.  A word that could take the pattern when main first started holds it
\* once the first loop has passed, though resets and restarts from a snapshot made main
\* program it over again, and a word that could not never does.
PatternLands ==
  \A off \in Past : off < size => (FlashRead(off) = Pattern[off] <=> off \in fit)

\* main.c:76-90.  The verdict counts the words verified that could not take the pattern
\* when main first started, those outside the flash among them, unless a load threw.
VerdictIsExact ==
  pc = "forever" /\ ~lost => errors = Cardinality(Verified \ fit)
=============================================================================
