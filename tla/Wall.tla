-------------------------------- MODULE Wall --------------------------------
(***************************************************************************)
(* The monitoring wall of one browser: WallPage of the administration      *)
(* frontend (frontend/apps/admin/src/app.tsx, device-groups.ts and         *)
(* wall-immersion.ts).  It holds copies of the devices, of the groups and  *)
(* of the layout that are loaded by three requests, each at a time of its  *)
(* own, so they need not fit together; every combination may occur.  Until *)
(* the first answer about groups, which may be an error, nothing is shown; *)
(* the model begins with it.                                               *)
(***************************************************************************)
EXTENDS Naturals, Sequences, FiniteSets, SequencesExt

CONSTANTS
  WallDevices, WallGroups,  \* ids
  TileCounts,               \* numbers of tiles; 1, 4, 9 and 16 in the code
  Ungrouped                 \* UNGROUPED_KEY, and NULL as a group

ASSUME UngroupedAssumption == Ungrouped \notin WallGroups
ASSUME TilesAssumption == TileCounts \subseteq Nat \ {0}
ASSUME WallListsAssumption == IsFiniteSet(WallDevices) /\ IsFiniteSet(WallGroups)

VARIABLES
  devices,      \* the listed devices with their groups
  sections,     \* the listed groups
  tileCount, deviceOrder, folded,  \* the layout; folded is collapsedGroups
  drag          \* a drop under way: the order it will save, and the layout
                \* of the render it began in

wallVars == <<devices, sections, tileCount, deviceOrder, folded, drag>>

Keys == WallGroups \cup {Ungrouped}
Orders == {s \in SeqOf(WallDevices, Cardinality(WallDevices)) : IsInjective(s)}
NoDrag == <<>>

WallTypeOK ==
  /\ DOMAIN devices \subseteq WallDevices
  /\ \A d \in DOMAIN devices : devices[d] \in Keys
  /\ sections \in Seq(WallGroups) /\ IsInjective(sections)
  /\ tileCount \in TileCounts /\ folded \subseteq Keys
  /\ deviceOrder \in Orders
  /\ drag = NoDrag \/ drag \in Orders \X TileCounts \X SUBSET Keys

\* The layout is what was stored, or the default if it could not be loaded.
WallInit ==
  /\ devices = <<>> /\ sections = <<>>
  /\ tileCount \in TileCounts /\ deviceOrder \in Orders /\ folded \in SUBSET Keys
  /\ drag = NoDrag

-----------------------------------------------------------------------------
\* filter and indexOf of an array.  SelectSeq would do, but proofs can only
\* expand what is defined by a recursive function, as FlattenSeq is.
Filter(s, S) == FlattenSeq([i \in DOMAIN s |-> IF s[i] \in S THEN <<s[i]>> ELSE <<>>])

IndexOf(s, x) == CHOOSE i \in DOMAIN s : s[i] = x

\* The devices by their place in deviceOrder, the others after them.
\* The others count as place 999, which no layout of a real wall reaches.
Ordered ==
  LET listed == Filter(deviceOrder, DOMAIN devices)
  IN listed \o SetToSeq(DOMAIN devices \ ToSet(listed))

\* moveDeviceOrder: source takes the place of target.
MoveDeviceOrder(order, source, target) ==
  InsertAt(RemoveAt(order, IndexOf(order, source)), IndexOf(order, target), source)

\* effectiveGroupId.
EffectiveGroup(d) ==
  IF devices[d] \in ToSet(sections) THEN devices[d] ELSE Ungrouped

-----------------------------------------------------------------------------
(* buildWallSections *)

\* Mutant of InSection: a device belongs to the group it names.
InNamedSection(key) == Filter(Ordered, {d \in DOMAIN devices : devices[d] = key})

InSection(key) == Filter(Ordered, {d \in DOMAIN devices : EffectiveGroup(d) = key})

SectionKeys ==
  IF InSection(Ungrouped) # <<>> \/ sections = <<>>
    THEN Append(sections, Ungrouped) ELSE sections

\* Folded sections are ignored while there is no header to unfold them with.
Folded(key) == sections # <<>> /\ key \in folded

Sections == [i \in DOMAIN SectionKeys |-> InSection(SectionKeys[i])]

Unfolded ==
  [i \in DOMAIN SectionKeys |-> IF Folded(SectionKeys[i]) THEN <<>> ELSE Sections[i]]

\* As many devices as there are, or as tiles are left.
Shown(section, left) == IF Len(section) <= left THEN Len(section) ELSE left

\* One section after the other takes the tiles that remain.
Preview ==
  LET remaining[i \in DOMAIN SectionKeys] ==
        IF i = 1 THEN tileCount
                 ELSE remaining[i - 1] - Shown(Unfolded[i - 1], remaining[i - 1])
  IN [i \in DOMAIN SectionKeys |-> SubSeq(Unfolded[i], 1, Shown(Unfolded[i], remaining[i]))]

-----------------------------------------------------------------------------
\* An answer about the devices (all of them, or the new group of the one that
\* was moved by a drop), or about the groups.
Load ==
  /\ \/ /\ \E listed \in SUBSET WallDevices : devices' \in [listed -> Keys]
        /\ UNCHANGED sections
     \/ /\ \E s \in SeqOf(WallGroups, Cardinality(WallGroups)) : IsInjective(s) /\ sections' = s
        /\ UNCHANGED devices
  /\ UNCHANGED <<tileCount, deviceOrder, folded, drag>>

\* saveLayout of another number of tiles, or of toggleCollapsedGroup.
Choose ==
  /\ \/ tileCount' \in TileCounts /\ UNCHANGED folded
     \/ /\ \E key \in ToSet(SectionKeys) :
             folded' = IF key \in folded THEN folded \ {key} ELSE folded \cup {key}
        /\ UNCHANGED tileCount
  /\ UNCHANGED <<devices, sections, deviceOrder, drag>>

\* removeGroup takes the group out of the folded ones.
RemoveGroup(g) ==
  /\ folded' = folded \ {g}
  /\ UNCHANGED <<devices, sections, tileCount, deviceOrder, drag>>

\* drop: moveToGroup is awaited, with the layout of this render.
Drop(source, target) ==
  /\ source # target /\ {source, target} \subseteq DOMAIN devices
  /\ drag' = <<MoveDeviceOrder(Ordered, source, target), tileCount, folded>>
  /\ UNCHANGED <<devices, sections, tileCount, deviceOrder, folded>>

\* Its answer: refused, or the whole layout of that render is saved.
EndDrop ==
  /\ drag # NoDrag /\ drag' = NoDrag
  /\ \/ UNCHANGED <<tileCount, deviceOrder, folded>>
     \/ deviceOrder' = drag[1] /\ tileCount' = drag[2] /\ folded' = drag[3]
  /\ UNCHANGED <<devices, sections>>

WallNext ==
  \/ Load \/ Choose \/ EndDrop
  \/ \E g \in WallGroups : RemoveGroup(g)
  \/ \E source, target \in WallDevices : Drop(source, target)

WallSpec == WallInit /\ [][WallNext]_wallVars

-----------------------------------------------------------------------------
(* Properties *)

\* Whatever copies the browser has, each listed device is in one section, and
\* the tiles go to the first devices of the unfolded sections, no more than
\* there are tiles and none left free while a device waits (buildWallSections,
\* effectiveGroupId).
EveryDeviceIsShown ==
  LET all == FlattenSeq(Sections)
      open == FlattenSeq(Unfolded)
      tiles == IF Len(open) <= tileCount THEN Len(open) ELSE tileCount
  IN /\ IsInjective(all) /\ ToSet(all) = DOMAIN devices
     /\ FlattenSeq(Preview) = SubSeq(open, 1, tiles)

=============================================================================
