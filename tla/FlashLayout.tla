----------------------------- MODULE FlashLayout -----------------------------
(***************************************************************************)
(* scripts/check_flash_layout.py: the regions of the flash are checked one *)
(* after the other, and then the built artifacts against their regions.    *)
(***************************************************************************)
EXTENDS Integers, Sequences, FiniteSets

CONSTANTS
  FlashBytes, MinimumSpare,
  Layouts,      \* sequences of regions: name, offset, capacity
  Assets        \* functions from some names to sizes, or to Missing

Manifest == "manifest"
Missing == -1

VARIABLES
  layout, assets,   \* the two inputs
  phase, status,
  cursor, end, seen,    \* check_layout: regions done, their end, their names
  todo, failed          \* main: artifacts to look at, and whether one failed

vars == <<layout, assets, phase, status, cursor, end, seen, todo, failed>>

Init ==
  /\ layout \in Layouts /\ assets \in Assets
  /\ phase = "layout" /\ status = "none"
  /\ cursor = 0 /\ end = 0 /\ seen = {} /\ todo = {} /\ failed = FALSE

Exit(s) == phase' = "exited" /\ status' = s
region == layout[cursor + 1]

Overlaps == region.name \in seen \/ region.offset > end \/ region.capacity <= 0   \* mutant
Misplaced == region.name \in seen \/ region.offset # end \/ region.capacity <= 0
CheckRegion ==
  /\ phase = "layout" /\ cursor < Len(layout)
  /\ IF Misplaced \/ region.offset + region.capacity > FlashBytes
     THEN Exit("fail") /\ UNCHANGED <<cursor, end, seen>>
     ELSE /\ seen' = seen \cup {region.name} /\ end' = region.offset + region.capacity
          /\ cursor' = cursor + 1 /\ UNCHANGED <<phase, status>>
  /\ UNCHANGED <<layout, assets, todo, failed>>

names == {layout[i].name : i \in DOMAIN layout}
required == names \ {Manifest}

(* Budget only when no artifact is given; otherwise exactly one for each   *)
(* region but the manifest.                                                *)
CheckSpare ==
  /\ phase = "layout" /\ cursor = Len(layout)
  /\ IF FlashBytes - end < MinimumSpare THEN Exit("fail") /\ UNCHANGED todo
     ELSE IF DOMAIN assets = {} THEN Exit("budget_only") /\ UNCHANGED todo
     ELSE IF DOMAIN assets # required THEN Exit("usage_error") /\ UNCHANGED todo
     ELSE phase' = "assets" /\ todo' = DOMAIN assets /\ UNCHANGED status
  /\ UNCHANGED <<layout, assets, cursor, end, seen, failed>>

Capacity(name) == layout[CHOOSE i \in DOMAIN layout : layout[i].name = name].capacity
CheckAsset(name) ==
  /\ phase = "assets" /\ name \in todo /\ todo' = todo \ {name}
  /\ failed' = (failed \/ assets[name] = Missing \/ assets[name] = 0
                       \/ assets[name] > Capacity(name))
  /\ UNCHANGED <<layout, assets, phase, status, cursor, end, seen>>

Conclude ==
  /\ phase = "assets" /\ todo = {} /\ Exit(IF failed THEN "fail" ELSE "pass")
  /\ UNCHANGED <<layout, assets, cursor, end, seen, todo, failed>>

Stopped == phase = "exited" /\ UNCHANGED vars
Next == CheckRegion \/ CheckSpare \/ (\E name \in todo : CheckAsset(name)) \/ Conclude \/ Stopped
Spec == Init /\ [][Next]_vars

-----------------------------------------------------------------------------
(* Bytes of the flash, by the region they belong to.                       *)
BytesOf(r) == r.offset .. r.offset + r.capacity - 1
Owners(byte) == {i \in DOMAIN layout : byte \in BytesOf(layout[i])}

(* Every layout the checker lets pass gives each byte of the flash at most *)
(* one region, no byte outside the flash, and leaves the spare bytes free  *)
(* at its end; and with artifacts, each stays inside its own region.       *)
LayoutSafe ==
  status \in {"budget_only", "pass"} =>
    /\ \A i \in DOMAIN layout : BytesOf(layout[i]) \subseteq 0 .. FlashBytes - MinimumSpare - 1
    /\ \A byte \in 0 .. FlashBytes - 1 : Cardinality(Owners(byte)) <= 1
    /\ Cardinality(names) = Len(layout)
    /\ status = "pass" => \A i \in DOMAIN layout : layout[i].name # Manifest =>
         LET size == assets[layout[i].name] IN
         size > 0 /\ layout[i].offset .. layout[i].offset + size - 1 \subseteq BytesOf(layout[i])
=============================================================================
