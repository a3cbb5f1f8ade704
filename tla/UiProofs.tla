------------------------------ MODULE UiProofs ------------------------------
(***************************************************************************)
(* Proofs about the graphics surface, the keyboard and the menus on them   *)
(* (gfx.c, bochs.c, hid.c, i2c.c, ui.c): for any number of items, frames,  *)
(* reports, faults and keys typed.                                         *)
(*                                                                         *)
(* The state falls into four groups that the four properties are about:    *)
(* the menu, the surface, the keyboard and the terminal.  Each has its     *)
(* inductive invariant, and each lemma about a step names only the part of *)
(* the step that touches the group.                                        *)
(***************************************************************************)
EXTENDS Ui, SequenceTheorems, NaturalsInduction, WellFoundedInduction, TLAPS

-----------------------------------------------------------------------------
(***************************************************************************)
(* The menu: skip_disabled.                                                *)
(***************************************************************************)

\* Division leaves one remainder.
LEMMA ModUnique ==
  ASSUME NEW D \in Nat \ {0}, NEW q \in Int, NEW r \in 0..D-1, NEW x \in Int, x = q * D + r
  PROVE  x % D = r
  OBVIOUS

LEMMA SmallestOf ==
  ASSUME NEW S, S \subseteq Nat, S # {}
  PROVE  \E n \in S : \A m \in S : n <= m
<1>1. IsWellFoundedOn(OpToRel(<, Nat), Nat)
  BY NatLessThanWellFounded
<1>2. PICK n \in S : \A m \in S : ~(<<m, n>> \in OpToRel(<, Nat))
  BY <1>1, WFMin
<1>3. \A m \in S : ~(m < n)
  BY <1>2 DEF OpToRel
<1> QED
  BY <1>3

\* Where skip_disabled looks in its n-th turn.
At(from, dir, n) == (from + dir * n + count * count) % count

\* Its turns visit every item.
LEMMA AtVisitsAll ==
  ASSUME count \in Nat \ {0}, NEW from \in Items, NEW dir \in {1, -1}, NEW j \in Items
  PROVE  \E n \in 0..count-1 : At(from, dir, n) = j
<1>0. count * count \in Nat /\ (count + 1) * count = count * count + count
      /\ (count - 1) * count = count * count - count
      /\ from \in 0..count-1 /\ j \in 0..count-1
  BY DEF Items
<1>1. CASE dir = 1 /\ from <= j
  <2>1. from + dir * (j - from) + count * count = count * count + j
    BY <1>0, <1>1
  <2>2. (count * count + j) % count = j
    BY <1>0, ModUnique
  <2>3. At(from, dir, j - from) = j
    BY <2>1, <2>2, Zenon DEF At
  <2>4. j - from \in 0..count-1
    BY <1>0, <1>1
  <2> QED
    BY <2>3, <2>4, Zenon
<1>2. CASE dir = 1 /\ j < from
  <2>1. from + dir * (j - from + count) + count * count = (count + 1) * count + j
    BY <1>0, <1>2
  <2>2. ((count + 1) * count + j) % count = j
    BY <1>0, ModUnique
  <2>3. At(from, dir, j - from + count) = j
    BY <2>1, <2>2, Zenon DEF At
  <2>4. j - from + count \in 0..count-1
    BY <1>0, <1>2
  <2> QED
    BY <2>3, <2>4, Zenon
<1>3. CASE dir = -1 /\ j <= from
  <2>1. from + dir * (from - j) + count * count = count * count + j
    BY <1>0, <1>3
  <2>2. (count * count + j) % count = j
    BY <1>0, ModUnique
  <2>3. At(from, dir, from - j) = j
    BY <2>1, <2>2, Zenon DEF At
  <2>4. from - j \in 0..count-1
    BY <1>0, <1>3
  <2> QED
    BY <2>3, <2>4, Zenon
<1>4. CASE dir = -1 /\ from < j
  <2>1. from + dir * (from - j + count) + count * count = (count - 1) * count + j
    BY <1>0, <1>4
  <2>2. ((count - 1) * count + j) % count = j
    BY <1>0, ModUnique
  <2>3. At(from, dir, from - j + count) = j
    BY <2>1, <2>2, Zenon DEF At
  <2>4. from - j + count \in 0..count-1
    BY <1>0, <1>4
  <2> QED
    BY <2>3, <2>4, Zenon
<1> QED
  BY <1>0, <1>1, <1>2, <1>3, <1>4

LEMMA AtIsItem ==
  ASSUME count \in Nat \ {0}, NEW from \in Items, NEW dir \in {1, -1}, NEW n \in 0..count-1
  PROVE  At(from, dir, n) \in Items
<1>1. from + dir * n + count * count \in Int
  BY DEF Items
<1> QED
  BY <1>1 DEF At, Items

\* skip_disabled ends on an item that can be chosen, or there is none.
LEMMA SkipDisabledLands ==
  ASSUME count \in Nat \ {0}, disabled \subseteq Items, NEW from \in Items, NEW dir \in {1, -1},
         NEW r, r = SkipDisabled(from, dir)
  PROVE  r \in Items /\ (r \in disabled => disabled = Items)
<1> DEFINE hits == {n \in 0..count-1 : At(from, dir, n) \notin disabled}
<1>1. r = IF hits = {} THEN from
          ELSE At(from, dir, CHOOSE n \in hits : \A m \in hits : n <= m)
  BY DEF SkipDisabled, At
<1>2. CASE hits = {}
  <2>1. \A j \in Items : j \in disabled
    BY <1>2, AtVisitsAll
  <2> QED
    BY <1>1, <1>2, <2>1
<1>3. CASE hits # {}
  <2> DEFINE least == CHOOSE n \in hits : \A m \in hits : n <= m
  <2>1. hits \subseteq Nat
    OBVIOUS
  <2>2. least \in hits
    BY <1>3, <2>1, SmallestOf
  <2>3. r = At(from, dir, least)
    BY <1>1, <1>3
  <2> HIDE DEF least
  <2> QED
    BY <2>2, <2>3, AtIsItem
<1> QED
  BY <1>2, <1>3

-----------------------------------------------------------------------------
(***************************************************************************)
(* The menu: where the cursor is.                                          *)
(***************************************************************************)

MenuUp == {"uart", "gfx", "poll", "hid", "key"}

MenuInv ==
  /\ pc \in {"app", "snap"} \cup MenuUp
  /\ count \in Nat /\ disabled \subseteq Items /\ selected \in Nat
  /\ pc # "app" => count # 0
  /\ pc \in MenuUp => selected \in Items /\ (selected \in disabled => disabled = Items)

LEMMA MenuInitInv == UiInit => MenuInv
  BY DEF UiInit, MenuInv, MenuUp, Items

LEMMA OpensMenu ==
  ASSUME NEW n \in Nat \ {0}, NEW off, off \subseteq 0..n-1, NEW c \in Nat, Opens(n, off, c)
  PROVE  MenuInv'
  BY DEF Opens, MenuInv, MenuUp, Items

LEMMA MenuOpens == ASSUME MenuRun \/ Confirm \/ Message \/ PickFile PROVE MenuInv'
<1>1. CASE MenuRun
  <2>1. PICK off \in SUBSET (0..MaxItems-1), c \in 0..MaxItems : Opens(MaxItems, off, c)
    BY <1>1 DEF MenuRun
  <2>2. off \subseteq 0..MaxItems-1 /\ c \in Nat /\ MaxItems \in Nat \ {0}
    BY UiAssumption
  <2> QED
    BY <2>1, <2>2, OpensMenu
<1>2. CASE Confirm
  BY <1>2, OpensMenu DEF Confirm
<1>3. CASE Message
  BY <1>3, OpensMenu DEF Message
<1>4. CASE PickFile
  <2>1. PICK n \in 0..MaxItems : IF n = 0 THEN Opens(1, {}, 0) ELSE Opens(n, {}, 0)
    BY <1>4 DEF PickFile
  <2>2. n \in Nat
    BY UiAssumption
  <2> QED
    BY <2>1, <2>2, OpensMenu
<1> QED
  BY <1>1, <1>2, <1>3, <1>4

LEMMA MenuSnap == ASSUME MenuInv, Snap PROVE MenuInv'
<1> DEFINE from == IF selected >= count THEN 0 ELSE selected
<1>1. count \in Nat \ {0} /\ disabled \subseteq Items /\ from \in Items
  BY DEF MenuInv, Snap, Items
<1>2. selected' \in Items /\ (selected' \in disabled => disabled = Items)
  <2>1. selected' = SkipDisabled(from, 1)
    BY DEF Snap
  <2> HIDE DEF from
  <2> QED
    BY <1>1, <2>1, SkipDisabledLands
<1>3. pc' = "uart" /\ count' = count /\ disabled' = disabled /\ Items' = Items
  BY DEF Snap, Items
<1>4. selected' \in Nat
  BY <1>1, <1>2 DEF Items
<1> QED
  BY <1>1, <1>2, <1>3, <1>4 DEF MenuInv, MenuUp

LEMMA MenuKey == ASSUME MenuInv, HandleKey PROVE MenuInv'
<1>1. /\ count \in Nat \ {0} /\ disabled \subseteq Items /\ selected \in Items
      /\ selected \in disabled => disabled = Items
  BY DEF MenuInv, MenuUp, HandleKey
<1>2. CASE key \in {"up", "down"}
  <2> DEFINE from == IF key = "up" THEN (selected + count - 1) % count ELSE (selected + 1) % count
             dir == IF key = "up" THEN -1 ELSE 1
  <2>1. from \in Items /\ dir \in {1, -1}
    BY <1>1 DEF Items
  <2>2. selected' = SkipDisabled(from, dir)
    BY <1>2 DEF HandleKey
  <2>3. selected' \in Items /\ (selected' \in disabled => disabled = Items)
    <3> HIDE DEF from, dir
    <3> QED
      BY <1>1, <2>1, <2>2, SkipDisabledLands
  <2>4. pc' = "uart" /\ count' = count /\ disabled' = disabled /\ Items' = Items
    BY <1>2 DEF HandleKey, Items
  <2>5. selected' \in Nat
    BY <1>1, <2>3 DEF Items
  <2> QED
    BY <1>1, <2>3, <2>4, <2>5 DEF MenuInv, MenuUp
<1>3. CASE Returns
  BY <1>3 DEF Returns, MenuInv, Items, MenuUp
<1>4. CASE pc' = "uart" /\ UNCHANGED menuVars
  BY <1>1, <1>4 DEF menuVars, MenuInv, MenuUp, Items
<1> QED
  BY <1>2, <1>3, <1>4 DEF HandleKey, menuVars

LEMMA MenuStep == ASSUME MenuInv, [UiNext]_uiVars PROVE MenuInv'
<1>1. CASE RenderUart \/ RenderGfx \/ PollUart \/ PollHid
  <2>1. /\ UNCHANGED menuVars /\ pc \in MenuUp /\ pc' \in MenuUp
    BY <1>1 DEF RenderUart, RenderGfx, PollUart, GoesOn, PollHid, MenuUp
  <2> QED
    BY <2>1 DEF MenuInv, MenuUp, menuVars, Items
<1>2. CASE UiWire \/ GfxStep \/ HidStep \/ (\E k \in TermKeys : TypeKey(k)) \/ UNCHANGED uiVars
  <2>1. UNCHANGED <<menuVars, pc>>
    BY <1>2 DEF UiWire, GfxStep, HidStep, TypeKey, uiVars
  <2> QED
    BY <2>1 DEF MenuInv, MenuUp, menuVars, Items
<1> QED
  BY <1>1, <1>2, MenuOpens, MenuSnap, MenuKey DEF UiNext

-----------------------------------------------------------------------------
(***************************************************************************)
(* The surface: pages, what is on display and where drawing goes.          *)
(***************************************************************************)

Pictures == {"blank", "frame", "menu"} \X Nat
IsWhole(p) == p.upper = p.lower

SurfaceTypeOK ==
  /\ machine \in {"none", "bochs", "simplefb", "virtio"} /\ backend \in {"none", machine}
  /\ vram \in {0, 1} /\ bd_vram \in {0, 1} /\ y_offset \in {0, 1}
  /\ double_buffered \in BOOLEAN /\ asked \in BOOLEAN /\ piecemeal \in BOOLEAN
  /\ page \in [{0, 1} -> [upper : Pictures, lower : Pictures]]
  /\ host \in [upper : Pictures, lower : Pictures]
  /\ frame \in Nat /\ half \in {"none", "upper", "both"}

\* g->vram, gfx_bd and Y_OFFSET agree while Bochs is the surface: with two buffers
\* drawing goes to the one that is not on display, otherwise to page 0, which is.
PointersAgree ==
  /\ backend = "bochs" =>
       /\ double_buffered <=> asked
       /\ vram = bd_vram /\ y_offset = IF double_buffered THEN 1 - vram ELSE 0
       /\ ~double_buffered => vram = 0
  /\ machine # "bochs" => vram = 0
  /\ asked => backend \in {"bochs", "virtio"}

\* A page in the middle of a frame is the one being drawn.
PagesWhole ==
  /\ half # "upper" => IsWhole(page[0]) /\ IsWhole(page[1])
  /\ half = "upper" => IsWhole(page[1 - vram]) /\ page[vram].upper = <<"frame", frame>>
  /\ half = "both" => backend # "none"
  /\ ~piecemeal => IsWhole(host)

\* No dialog is opened in the middle of a frame.
NoFrameUnderMenu == pc # "app" => half = "none"

SurfaceInv == SurfaceTypeOK /\ PointersAgree /\ PagesWhole /\ NoFrameUnderMenu

LEMMA SurfaceInit == UiInit => SurfaceInv
<1> SUFFICES ASSUME UiInit PROVE SurfaceInv
  OBVIOUS
<1>1. Blank \in Pictures
  BY DEF Blank, Pictures
<1>2. Whole(Blank) \in [upper : Pictures, lower : Pictures] /\ IsWhole(Whole(Blank))
  BY <1>1 DEF Whole, IsWhole
<1> QED
  BY <1>2 DEF UiInit, GfxInit, SurfaceInv, SurfaceTypeOK, PointersAgree, PagesWhole,
              NoFrameUnderMenu

LEMMA WholePicture ==
  ASSUME NEW p \in Pictures
  PROVE  Whole(p) \in [upper : Pictures, lower : Pictures] /\ IsWhole(Whole(p))
  BY DEF Whole, IsWhole

LEMMA SurfaceInitFdt ==
  ASSUME SurfaceInv, pc = "app", pc' = pc, GfxInitFdt
  PROVE  SurfaceInv'
<1> USE DEF SurfaceInv, GfxInitFdt, SurfaceTypeOK
<1>1. CASE backend' = "bochs"
  <2>1. page' = [i \in {0, 1} |-> Whole(Blank)] /\ Blank \in Pictures
    BY <1>1 DEF BochsInit, Blank, Pictures
  <2>2. page' \in [{0, 1} -> [upper : Pictures, lower : Pictures]]
        /\ IsWhole(page'[0]) /\ IsWhole(page'[1])
    BY <2>1, WholePicture
  <2>3. SurfaceTypeOK' /\ PointersAgree'
    BY <1>1, <2>2 DEF BochsInit, PointersAgree
  <2>4. PagesWhole' /\ NoFrameUnderMenu'
    BY <2>2 DEF PagesWhole, NoFrameUnderMenu
  <2> QED
    BY <2>3, <2>4
<1>2. CASE backend' # "bochs"
  <2>1. UNCHANGED <<y_offset, page>> /\ bd_vram' \in {0, 1} /\ double_buffered' \in BOOLEAN
    BY <1>2 DEF BochsFails
  <2>2. SurfaceTypeOK' /\ PointersAgree'
    BY <1>2, <2>1 DEF PointersAgree
  <2>3. PagesWhole' /\ NoFrameUnderMenu'
    BY <2>1 DEF PagesWhole, NoFrameUnderMenu
  <2> QED
    BY <2>2, <2>3
<1> QED
  BY <1>1, <1>2

LEMMA SurfaceDouble ==
  ASSUME SurfaceInv, pc = "app", pc' = pc, EnableDoubleBuffer
  PROVE  SurfaceInv'
<1> USE DEF SurfaceInv, EnableDoubleBuffer, SurfaceTypeOK
<1>1. CASE backend = "bochs"
  <2>1. SurfaceTypeOK' /\ PointersAgree'
    BY <1>1 DEF BochsEnableDoubleBuffer, PointersAgree
  <2> QED
    BY <1>1, <2>1 DEF PagesWhole, NoFrameUnderMenu
<1>2. CASE backend # "bochs"
  <2>1. UNCHANGED <<bd_vram, double_buffered, y_offset, vram>>
    BY <1>2 DEF bochsVars
  <2>2. SurfaceTypeOK' /\ PointersAgree'
    BY <1>2, <2>1 DEF PointersAgree
  <2> QED
    BY <2>1, <2>2 DEF PagesWhole, NoFrameUnderMenu
<1> QED
  BY <1>1, <1>2

\* A half drawn into the page drawing goes to; the host may be shown the result,
\* and then `piecemeal` says so.
LEMMA DrawHalfEffect ==
  ASSUME SurfaceInv, NEW h \in {"upper", "lower"}, frame' \in Nat, DrawHalf(h)
  PROVE  /\ SurfaceTypeOK' \/ half' \notin {"none", "upper", "both"}
         /\ UNCHANGED <<machine, backend, vram, bd_vram, double_buffered, y_offset, asked>>
         /\ backend # "none" /\ page'[1 - vram] = page[1 - vram]
         /\ page'[vram][h] = <<"frame", frame'>>
         /\ \A g \in {"upper", "lower"} \ {h} : page'[vram][g] = page[vram][g]
         /\ ~piecemeal' => ~piecemeal /\ host' = host
<1> USE DEF SurfaceInv, SurfaceTypeOK, DrawHalf
<1>1. /\ UNCHANGED <<machine, backend, vram, bd_vram, double_buffered, y_offset, asked>>
      /\ backend # "none"
  BY DEF bochsVars
<1>2. <<"frame", frame'>> \in Pictures
  BY DEF Pictures
<1>3. page' = [page EXCEPT ![vram] = [page[vram] EXCEPT ![h] = <<"frame", frame'>>]]
  BY DEF FillRows
<1>4. [page[vram] EXCEPT ![h] = <<"frame", frame'>>] \in [upper : Pictures, lower : Pictures]
  BY <1>2
<1>5. page' \in [{0, 1} -> [upper : Pictures, lower : Pictures]]
  BY <1>3, <1>4
<1>6. host' \in [upper : Pictures, lower : Pictures] /\ piecemeal' \in BOOLEAN
      /\ (~piecemeal' => ~piecemeal /\ host' = host)
  <2>1. page'[0] \in [upper : Pictures, lower : Pictures]
    BY <1>5
  <2>2. CASE Present /\ piecemeal' = (piecemeal \/ backend = "virtio")
    BY <2>1, <2>2 DEF Present
  <2>3. CASE UNCHANGED <<host, piecemeal>>
    BY <2>3
  <2> QED
    BY <2>2, <2>3
<1>7. /\ page'[1 - vram] = page[1 - vram] /\ page'[vram][h] = <<"frame", frame'>>
      /\ \A g \in {"upper", "lower"} \ {h} : page'[vram][g] = page[vram][g]
  BY <1>3
<1> QED
  BY <1>1, <1>5, <1>6, <1>7

LEMMA SurfaceDraw ==
  ASSUME SurfaceInv, pc = "app", pc' = pc, DrawUpper \/ DrawLower
  PROVE  SurfaceInv'
<1> USE DEF SurfaceInv
<1>1. CASE DrawUpper
  <2>1. half = "none" /\ half' = "upper" /\ frame' \in Nat /\ DrawHalf("upper")
    BY <1>1 DEF DrawUpper, SurfaceTypeOK
  <2>2. /\ SurfaceTypeOK' /\ page'[1 - vram] = page[1 - vram]
        /\ UNCHANGED <<machine, backend, vram, bd_vram, double_buffered, y_offset, asked>>
        /\ ~piecemeal' => ~piecemeal /\ host' = host
    BY <2>1, DrawHalfEffect
  <2>3. IsWhole(page[1 - vram]) /\ page'[vram].upper = <<"frame", frame'>>
    BY <2>1, DrawHalfEffect DEF PagesWhole, SurfaceTypeOK
  <2> QED
    BY <2>1, <2>2, <2>3 DEF PointersAgree, PagesWhole, NoFrameUnderMenu, IsWhole
<1>2. CASE DrawLower
  <2>1. half = "upper" /\ half' = "both" /\ frame' \in Nat /\ DrawHalf("lower")
    BY <1>2 DEF DrawLower, SurfaceTypeOK
  <2>2. /\ SurfaceTypeOK' /\ page'[1 - vram] = page[1 - vram]
        /\ UNCHANGED <<machine, backend, vram, bd_vram, double_buffered, y_offset, asked>>
        /\ backend # "none"
        /\ ~piecemeal' => ~piecemeal /\ host' = host
    BY <2>1, DrawHalfEffect
  <2>3. IsWhole(page'[vram]) /\ IsWhole(page'[1 - vram]) /\ {vram, 1 - vram} = {0, 1}
    <3>1. frame' = frame /\ page[vram].upper = <<"frame", frame>> /\ IsWhole(page[1 - vram])
      BY <1>2, <2>1 DEF DrawLower, PagesWhole
    <3>2. page'[vram].lower = <<"frame", frame'>> /\ page'[vram].upper = page[vram].upper
      BY <2>1, DrawHalfEffect
    <3> QED
      BY <2>2, <3>1, <3>2 DEF IsWhole, SurfaceTypeOK
  <2>4. IsWhole(page'[0]) /\ IsWhole(page'[1])
    BY <2>3 DEF SurfaceTypeOK
  <2> QED
    BY <2>1, <2>2, <2>4 DEF PointersAgree, PagesWhole, NoFrameUnderMenu, IsWhole
<1> QED
  BY <1>1, <1>2

LEMMA SurfaceFinish ==
  ASSUME SurfaceInv, pc = "app", pc' = pc, FinishFrame
  PROVE  SurfaceInv'
<1> USE DEF SurfaceInv, FinishFrame, SurfaceTypeOK
<1>1. IsWhole(page[0]) /\ IsWhole(page[1])
  BY DEF PagesWhole
<1>2. CASE backend = "bochs" /\ double_buffered
  <2>1. SurfaceTypeOK' /\ PointersAgree'
    BY <1>2 DEF Flip, BochsFlip, PointersAgree
  <2>2. PagesWhole' /\ NoFrameUnderMenu'
    BY <1>1, <1>2 DEF Flip, BochsFlip, PagesWhole, NoFrameUnderMenu
  <2> QED
    BY <2>1, <2>2
<1>3. CASE ~(backend = "bochs" /\ double_buffered)
  <2>1. UNCHANGED <<page, vram, bd_vram, double_buffered, y_offset>> /\ host' \in {host, page[0]}
    BY <1>3 DEF Flip, Present, bochsVars
  <2>2. SurfaceTypeOK' /\ PointersAgree'
    BY <2>1 DEF PointersAgree
  <2>3. PagesWhole' /\ NoFrameUnderMenu'
    BY <1>1, <2>1 DEF PagesWhole, NoFrameUnderMenu
  <2> QED
    BY <2>2, <2>3
<1> QED
  BY <1>2, <1>3

LEMMA SurfaceMenu ==
  ASSUME SurfaceInv, MenuInv, RenderGfx
  PROVE  SurfaceInv'
<1> USE DEF SurfaceInv, RenderGfx, SurfaceTypeOK
<1>1. half = "none" /\ MenuPicture \in Pictures
  BY DEF NoFrameUnderMenu, MenuInv, MenuPicture, Pictures
<1>2. /\ UNCHANGED <<machine, backend, vram, bd_vram, double_buffered, y_offset, host, asked,
                     piecemeal, frame, half>>
      /\ pc' = "poll"
  BY DEF bochsVars
<1>3. /\ page' \in [{0, 1} -> [upper : Pictures, lower : Pictures]]
      /\ IsWhole(page'[0]) /\ IsWhole(page'[1])
  <2>1. page' = [page EXCEPT ![vram] = Whole(MenuPicture)] \/ page' = page
    BY DEF TextRender
  <2>2. IsWhole(page[0]) /\ IsWhole(page[1])
    BY <1>1 DEF PagesWhole
  <2> QED
    BY <1>1, <2>1, <2>2, WholePicture
<1>4. SurfaceTypeOK' /\ PointersAgree'
  BY <1>2, <1>3 DEF PointersAgree
<1>5. PagesWhole' /\ NoFrameUnderMenu'
  BY <1>1, <1>2, <1>3 DEF PagesWhole, NoFrameUnderMenu
<1> QED
  BY <1>4, <1>5

\* Everything else leaves the surface alone.
LEMMA SurfaceStep == ASSUME SurfaceInv, MenuInv, [UiNext]_uiVars PROVE SurfaceInv'
<1>1. CASE GfxStep
  BY <1>1, SurfaceInitFdt, SurfaceDouble, SurfaceDraw, SurfaceFinish DEF GfxStep
<1>2. CASE UNCHANGED gfxVars /\ (pc # "app" \/ pc' = pc)
  BY <1>2 DEF gfxVars, bochsVars, SurfaceInv, SurfaceTypeOK, PointersAgree, PagesWhole,
              NoFrameUnderMenu
<1>3. CASE MenuRun \/ Confirm \/ Message \/ PickFile
  <2>1. UNCHANGED gfxVars /\ half = "none"
    BY <1>3 DEF MenuRun, Confirm, Message, PickFile, Opens
  <2> QED
    BY <2>1 DEF gfxVars, bochsVars, SurfaceInv, SurfaceTypeOK, PointersAgree, PagesWhole,
                NoFrameUnderMenu
<1>4. CASE UiWire \/ HidStep \/ (\E k \in TermKeys : TypeKey(k)) \/ Snap \/ RenderUart \/ PollUart
           \/ PollHid \/ HandleKey \/ UNCHANGED uiVars
  <2>1. UNCHANGED gfxVars /\ (pc # "app" \/ pc' = pc)
    BY <1>4 DEF UiWire, HidStep, TypeKey, Snap, RenderUart, PollUart, PollHid, HandleKey, uiVars
  <2> QED
    BY <1>2, <2>1
<1> QED
  BY <1>1, <1>3, <1>4, SurfaceMenu DEF UiNext

LEMMA SurfaceInvImplies == SurfaceInv => WholeFrames
  BY DEF SurfaceInv, SurfaceTypeOK, PointersAgree, PagesWhole, WholeFrames, Visible, IsWhole

\* Once gfx_enable_double_buffer has said yes, no host ever sees a mix of two
\* frames, whatever the program draws, flips, re-initialises or asks in a menu:
\* gfx_flip and bochs_flip keep g->vram, back_off_rows and Y_OFFSET in step.
THEOREM WholeFramesHolds == UiSpec => []WholeFrames
<1> DEFINE Inv == MenuInv /\ SurfaceInv
<1>1. UiInit => Inv
  BY MenuInitInv, SurfaceInit
<1>2. Inv /\ [UiNext]_uiVars => Inv'
  BY MenuStep, SurfaceStep
<1>3. Inv => WholeFrames
  BY SurfaceInvImplies
<1> HIDE DEF Inv
<1> QED
  BY <1>1, <1>2, <1>3, PTL DEF UiSpec

-----------------------------------------------------------------------------
(***************************************************************************)
(* The menu on its screens.                                                *)
(***************************************************************************)

Rendered == {"poll", "hid", "key"}

ScreensInv ==
  /\ pc \in Rendered \cup {"gfx"} => (uart_enabled => term = selected)
  /\ pc \in Rendered =>
       (gfx_enabled /\ backend \in {"bochs", "simplefb"} /\ ~asked => page[0] = Whole(MenuPicture))

LEMMA ScreensStep ==
  ASSUME ScreensInv, SurfaceInv, MenuInv, [UiNext]_uiVars PROVE ScreensInv'
<1>1. CASE RenderGfx
  <2>1. /\ UNCHANGED <<backend, vram, asked, uart_enabled, gfx_enabled, selected, term>>
        /\ MenuPicture' = MenuPicture /\ pc = "gfx" /\ pc' = "poll"
    BY <1>1 DEF RenderGfx, menuVars, MenuPicture
  <2>2. ASSUME gfx_enabled, backend \in {"bochs", "simplefb"}, ~asked
        PROVE  page'[0] = Whole(MenuPicture)
    <3>1. vram = 0 /\ page \in [{0, 1} -> [upper : Pictures, lower : Pictures]]
      BY <2>2 DEF SurfaceInv, PointersAgree, SurfaceTypeOK
    <3>2. page' = [page EXCEPT ![0] = Whole(MenuPicture)]
      BY <1>1, <2>2, <3>1 DEF RenderGfx, TextRender
    <3> QED
      BY <3>1, <3>2
  <2> QED
    BY <2>1, <2>2 DEF ScreensInv, Rendered, Whole
<1>2. CASE RenderUart
  BY <1>2 DEF RenderUart, ScreensInv, Rendered, menuVars
<1>3. CASE PollUart \/ PollHid
  <2>1. /\ pc \in Rendered /\ pc' \in Rendered
        /\ UNCHANGED <<gfxVars, menuVars, uart_enabled, gfx_enabled, term>>
    BY <1>3 DEF PollUart, PollHid, GoesOn, Rendered
  <2> QED
    BY <2>1 DEF ScreensInv, gfxVars, menuVars, MenuPicture, Whole
<1>4. CASE HidStep \/ (\E k \in TermKeys : TypeKey(k)) \/ UNCHANGED uiVars
  <2>1. UNCHANGED <<gfxVars, menuVars, uart_enabled, gfx_enabled, term, pc>>
    BY <1>4 DEF HidStep, TypeKey, uiVars
  <2> QED
    BY <2>1 DEF ScreensInv, gfxVars, menuVars, MenuPicture, Whole
<1>5. CASE UiWire \/ GfxStep \/ MenuRun \/ Confirm \/ Message \/ PickFile \/ Snap \/ HandleKey
  <2>1. pc' \notin Rendered \cup {"gfx"}
    BY <1>5 DEF UiWire, GfxStep, MenuRun, Confirm, Message, PickFile, Opens, Snap, HandleKey,
                Returns, Rendered
  <2> QED
    BY <2>1 DEF ScreensInv
<1> QED
  BY <1>1, <1>2, <1>3, <1>4, <1>5 DEF UiNext

LEMMA ScreensImply == MenuInv /\ SurfaceInv /\ ScreensInv => ChoosesWhatIsShown
<1> SUFFICES ASSUME MenuInv, SurfaceInv, ScreensInv, Waiting PROVE
       /\ uart_enabled => term = selected
       /\ gfx_enabled /\ backend \in {"bochs", "simplefb"} /\ ~asked => Shown
       /\ selected \in Items /\ (selected \in disabled => disabled = Items)
  BY DEF ChoosesWhatIsShown
<1>1. pc \in Rendered /\ pc \in MenuUp
  BY DEF Waiting, Rendered, MenuUp
<1>2. ASSUME gfx_enabled, backend \in {"bochs", "simplefb"}, ~asked PROVE Shown
  <2>1. page[0] = Whole(MenuPicture)
    BY <1>1, <1>2 DEF ScreensInv
  <2>2. machine = backend /\ (machine = "bochs" => y_offset = 0)
    BY <1>2 DEF SurfaceInv, PointersAgree, SurfaceTypeOK
  <2>3. Visible = page[0]
    <3>1. CASE machine = "bochs"
      BY <2>2, <3>1 DEF Visible
    <3>2. CASE machine = "simplefb"
      BY <3>2 DEF Visible
    <3> QED
      BY <1>2, <2>2, <3>1, <3>2
  <2> QED
    BY <2>1, <2>3 DEF Shown
<1> QED
  BY <1>1, <1>2 DEF MenuInv, ScreensInv

\* While ui_menu_run waits for a key and when it acts on one, the terminal and
\* a surface that shows pixels as they are drawn show the cursor where it is,
\* and it is on an item that can be chosen if the menu has any: for menus of any
\* length, any set of disabled items and any cursor the caller starts with.
THEOREM ChoosesWhatIsShownHolds == UiSpec => []ChoosesWhatIsShown
<1> DEFINE Inv == MenuInv /\ SurfaceInv /\ ScreensInv
<1>1. UiInit => Inv
  <2>1. UiInit => ScreensInv
    BY DEF UiInit, ScreensInv, Rendered
  <2> QED
    BY <2>1, MenuInitInv, SurfaceInit
<1>2. Inv /\ [UiNext]_uiVars => Inv'
  BY MenuStep, SurfaceStep, ScreensStep
<1>3. Inv => ChoosesWhatIsShown
  BY ScreensImply
<1> HIDE DEF Inv
<1> QED
  BY <1>1, <1>2, <1>3, PTL DEF UiSpec

-----------------------------------------------------------------------------
(***************************************************************************)
(* The keyboard.                                                           *)
(***************************************************************************)

\* The newest report, fetched or not, says which keys are down, unless it was
\* the one fetched last and went astray; and no interrupt can come into a poll.
KeyboardInv ==
  /\ reports \in Seq(SUBSET Keys) /\ down \in SUBSET Keys
  /\ poll \in {"none", "fetched", "told"}
  /\ poll # "none" => pc = "hid" /\ initialised /\ ~attached
  /\ heard = IF poll = "told" THEN report ELSE prev
  /\ attached => initialised
  /\ ~initialised => prev = {}
  /\ reports # <<>> => reports[Len(reports)] = down
  /\ reports = <<>> /\ ~behind => down = IF poll = "none" THEN prev ELSE report

LEMMA KeyboardInit == UiInit => KeyboardInv
  BY DEF UiInit, HidInit, KeyboardInv

LEMMA KeyboardTail ==
  ASSUME NEW q \in Seq(SUBSET Keys), q # <<>>
  PROVE  /\ Tail(q) \in Seq(SUBSET Keys)
         /\ Tail(q) = <<>> => Head(q) = q[Len(q)]
         /\ Tail(q) # <<>> => Tail(q)[Len(Tail(q))] = q[Len(q)]
<1>1. Len(q) \in Nat \ {0} /\ Len(Tail(q)) = Len(q) - 1 /\ Tail(q) \in Seq(SUBSET Keys)
  BY EmptySeq
<1>2. ASSUME Tail(q) = <<>> PROVE Head(q) = q[Len(q)]
  <2>1. Len(q) = 1
    BY <1>1, <1>2, EmptySeq
  <2> QED
    BY <2>1
<1>3. ASSUME Tail(q) # <<>> PROVE Tail(q)[Len(Tail(q))] = q[Len(q)]
  <2>1. Len(Tail(q)) \in Nat \ {0}
    BY <1>1, <1>3, EmptySeq
  <2> QED
    BY <1>1, <2>1
<1> QED
  BY <1>1, <1>2, <1>3

\* A transfer that fails, a report that is fetched, and a whole poll by the handler.
LEMMA KeyboardFault ==
  ASSUME KeyboardInv, UNCHANGED <<down, initialised, attached>>, initialised, poll = "none",
         PollFault
  PROVE  KeyboardInv'
<1> USE DEF KeyboardInv
<1>1. UNCHANGED <<poll, report, prev, heard>>
  BY DEF PollFault, pollVars
<1>2. CASE UNCHANGED <<reports, behind>>
  BY <1>1, <1>2
<1>3. CASE reports # <<>> /\ reports' = Tail(reports) /\ behind' = TRUE
  <2>1. /\ reports' \in Seq(SUBSET Keys)
        /\ reports' # <<>> => reports'[Len(reports')] = down
    BY <1>3, KeyboardTail
  <2> QED
    BY <1>1, <1>3, <2>1
<1> QED
  BY <1>2, <1>3 DEF PollFault, TransferFails

LEMMA KeyboardReport ==
  ASSUME KeyboardInv, UNCHANGED <<down, initialised, attached>>, initialised, poll = "none",
         \/ PollFetch /\ ~attached /\ pc' = "hid"
         \/ IrqReport
  PROVE  KeyboardInv'
<1> USE DEF KeyboardInv
<1>1. /\ reports # <<>> /\ reports' = Tail(reports) /\ behind' = FALSE
      /\ reports' \in Seq(SUBSET Keys)
      /\ reports' # <<>> => reports'[Len(reports')] = down
      /\ reports' = <<>> => Head(reports) = down
  BY KeyboardTail DEF PollFetch, IrqReport
<1>2. CASE PollFetch /\ ~attached /\ pc' = "hid"
  <2>1. report' = Head(reports) /\ poll' = "fetched" /\ UNCHANGED <<prev, heard>>
    BY <1>2 DEF PollFetch
  <2> QED
    BY <1>1, <1>2, <2>1
<1>3. CASE IrqReport
  <2>1. /\ heard' = (heard \ (prev \ Head(reports))) \cup (Head(reports) \ prev)
        /\ prev' = Head(reports) /\ UNCHANGED <<poll, report>>
    BY <1>3 DEF IrqReport, Told, Kept, pollVars
  <2>2. heard' = prev'
    BY <2>1
  <2> QED
    BY <1>1, <2>1, <2>2
<1> QED
  BY <1>2, <1>3

\* The program's poll, when it does not poll an attached keyboard.
LEMMA KeyboardPoll == ASSUME ~PollsAttached, KeyboardInv, PollHid PROVE KeyboardInv'
<1> USE DEF KeyboardInv
<1>1. pc = "hid" /\ UNCHANGED <<initialised, attached, down>>
  BY DEF PollHid
<1>2. CASE poll = "none" /\ UNCHANGED <<prev, pollVars, heard, reports, faults, behind>>
  BY <1>1, <1>2 DEF pollVars
<1>3. CASE poll = "none" /\ ~NoKeyboard /\ PollFault
  <2>1. initialised
    BY <1>3 DEF NoKeyboard
  <2> QED
    BY <1>1, <1>3, <2>1, KeyboardFault
<1>4. CASE poll = "none" /\ ~NoKeyboard /\ PollFetch /\ UNCHANGED pc
  <2>1. initialised /\ ~attached
    BY <1>4 DEF NoKeyboard
  <2> QED
    BY <1>1, <1>4, <2>1, KeyboardReport
<1>5. CASE PollTell /\ UNCHANGED pc
  <2>1. /\ poll = "fetched" /\ poll' = "told" /\ UNCHANGED <<prev, report, reports, behind>>
        /\ heard' = (heard \ (prev \ report)) \cup (report \ prev)
    BY <1>5 DEF PollTell, Told
  <2>2. heard' = report'
    BY <2>1
  <2> QED
    BY <1>1, <1>5, <2>1, <2>2
<1>6. CASE PollKeep
  <2>1. /\ poll = "told" /\ poll' = "none" /\ prev' = report
        /\ UNCHANGED <<heard, reports, behind>>
    BY <1>6 DEF PollKeep, Kept
  <2> QED
    BY <1>1, <2>1
<1> QED
  BY <1>2, <1>3, <1>4, <1>5, <1>6 DEF PollHid, PollEmpty

LEMMA KeyboardStep ==
  ASSUME ~PollsAttached, KeyboardInv, [UiNext]_uiVars PROVE KeyboardInv'
<1> USE DEF KeyboardInv
<1>1. CASE UNCHANGED hidVars /\ (pc' = pc \/ pc # "hid")
  BY <1>1 DEF hidVars, device, pollVars
<1>2. CASE HidStep
  <2>1. CASE pc = "app" /\ (KbInit \/ IrqAttach)
    BY <2>1 DEF KbInit, IrqAttach, device, pollVars
  <2>2. CASE IrqPoll
    <3>1. attached /\ initialised /\ poll = "none" /\ UNCHANGED <<down, initialised, attached>>
      BY <2>2 DEF IrqPoll
    <3> QED
      BY <2>2, <3>1, KeyboardFault, KeyboardReport DEF IrqPoll
  <2>3. ASSUME NEW k \in Keys, KeyChange(k) PROVE KeyboardInv'
    <3>1. /\ down' \in SUBSET Keys /\ reports' = Append(reports, down')
          /\ UNCHANGED <<initialised, attached, prev, poll, report, heard, behind, pc>>
      BY <1>2, <2>3 DEF KeyChange, pollVars, HidStep
    <3>2. /\ reports' \in Seq(SUBSET Keys) /\ Len(reports') = Len(reports) + 1
          /\ reports'[Len(reports')] = down'
      BY <3>1
    <3>3. reports' # <<>>
      BY <3>2, EmptySeq
    <3> QED
      BY <3>1, <3>2, <3>3
  <2> QED
    BY <1>2, <2>1, <2>2, <2>3 DEF HidStep
<1>3. CASE PollHid
  BY <1>3, KeyboardPoll
<1>4. CASE UiWire \/ GfxStep \/ (\E k \in TermKeys : TypeKey(k)) \/ MenuRun \/ Confirm \/ Message
           \/ PickFile \/ Snap \/ RenderUart \/ RenderGfx \/ PollUart \/ HandleKey
           \/ UNCHANGED uiVars
  <2>1. UNCHANGED hidVars /\ (pc' = pc \/ pc # "hid")
    BY <1>4 DEF UiWire, GfxStep, TypeKey, MenuRun, Confirm, Message, PickFile, Opens, Snap,
                RenderUart, RenderGfx, PollUart, HandleKey, uiVars
  <2> QED
    BY <1>1, <2>1
<1> QED
  BY <1>2, <1>3, <1>4 DEF UiNext

\* The callbacks of hid_kb_poll add up to the report read last, and to the keys
\* that are down when nothing is left to fetch, however many reports, failed
\* transfers and lost reports there were, in a program that does not poll a
\* keyboard whose interrupt it has attached: the handler polls the same
\* hid_keyboard_t.
THEOREM KeysAddUpHolds == ~PollsAttached => (UiSpec => []KeysAddUp)
<1> SUFFICES ASSUME ~PollsAttached PROVE UiSpec => []KeysAddUp
  OBVIOUS
<1>1. UiInit => KeyboardInv
  BY KeyboardInit
<1>2. KeyboardInv /\ [UiNext]_uiVars => KeyboardInv'
  BY KeyboardStep
<1>3. KeyboardInv => KeysAddUp
  BY DEF KeyboardInv, KeysAddUp
<1> QED
  BY <1>1, <1>2, <1>3, PTL DEF UiSpec

-----------------------------------------------------------------------------
(***************************************************************************)
(* The terminal: the bytes in the UART are those of the keys owed, less    *)
(* the ones of the first key that uart_decode_byte has seen.               *)
(***************************************************************************)

PlainKeys == TermKeys \ {"esc"}
ByteValues == TermKeys \cup {"ESC", "[", "A", "B", "C", "D", "CR", "DEL"}
Arrows == {"up", "down", "right", "left"}
Width(k) == Len(Bytes(k))

LEMMA ArrowBytes ==
  ASSUME NEW k \in Arrows
  PROVE  \E b \in {"A", "B", "C", "D"} :
           /\ Bytes(k) = <<"ESC", "[", b>>
           /\ uart_esc_state = 2 => Decode(b) = <<k, 0>>
<1>1. CASE k = "up"
  <2>1. Bytes(k) = <<"ESC", "[", "A">>
    BY <1>1, Zenon DEF Bytes
  <2>2. uart_esc_state = 2 => Decode("A") = <<k, 0>>
    BY <1>1 DEF Decode
  <2> QED
    BY <2>1, <2>2
<1>2. CASE k = "down"
  <2>1. Bytes(k) = <<"ESC", "[", "B">>
    BY <1>2, Zenon DEF Bytes
  <2>2. uart_esc_state = 2 => Decode("B") = <<k, 0>>
    BY <1>2 DEF Decode
  <2> QED
    BY <2>1, <2>2
<1>3. CASE k = "right"
  <2>1. Bytes(k) = <<"ESC", "[", "C">>
    BY <1>3, Zenon DEF Bytes
  <2>2. uart_esc_state = 2 => Decode("C") = <<k, 0>>
    BY <1>3 DEF Decode
  <2> QED
    BY <2>1, <2>2
<1>4. CASE k = "left"
  <2>1. Bytes(k) = <<"ESC", "[", "D">>
    BY <1>4, Zenon DEF Bytes
  <2>2. uart_esc_state = 2 => Decode("D") = <<k, 0>>
    BY <1>4 DEF Decode
  <2> QED
    BY <2>1, <2>2
<1> QED
  BY <1>1, <1>2, <1>3, <1>4 DEF Arrows

LEMMA OtherBytes ==
  ASSUME NEW k \in PlainKeys \ Arrows
  PROVE  \E b \in ByteValues :
           /\ Bytes(k) = <<b>>
           /\ uart_esc_state = 0 => Decode(b) = <<k, 0>>
<1>0. k \in TermKeys /\ k # "esc" /\ k \notin {"ESC", "CR", "DEL", "none"}
  BY TermKeysAssumption DEF PlainKeys
<1>1. CASE k = "enter"
  <2>1. Bytes(k) = <<"CR">>
    BY <1>1, Zenon DEF Bytes
  <2>2. uart_esc_state = 0 => Decode("CR") = <<k, 0>>
    BY <1>1 DEF Decode
  <2> QED
    BY <2>1, <2>2 DEF ByteValues
<1>2. CASE k = "back"
  <2>1. Bytes(k) = <<"DEL">>
    BY <1>2, Zenon DEF Bytes
  <2>2. uart_esc_state = 0 => Decode("DEL") = <<k, 0>>
    BY <1>2 DEF Decode
  <2> QED
    BY <2>1, <2>2 DEF ByteValues
<1>3. CASE k \notin {"enter", "back"}
  <2>1. Bytes(k) = <<k>>
    BY <1>0, <1>3, Zenon DEF Bytes, Arrows
  <2>2. uart_esc_state = 0 => Decode(k) = <<k, 0>>
    BY <1>0, <1>3 DEF Decode
  <2> QED
    BY <1>0, <2>1, <2>2 DEF ByteValues
<1> QED
  BY <1>1, <1>2, <1>3

LEMMA KeyShape ==
  ASSUME NEW k \in PlainKeys
  PROVE  Bytes(k) \in Seq(ByteValues) /\ Width(k) \in {1, 3}
<1>1. CASE k \in Arrows
  <2>1. PICK b \in {"A", "B", "C", "D"} : Bytes(k) = <<"ESC", "[", b>>
    BY <1>1, ArrowBytes
  <2>2. <<"ESC", "[", b>> \in Seq(ByteValues) /\ Len(<<"ESC", "[", b>>) = 3
    BY DEF ByteValues
  <2> QED
    BY <2>1, <2>2 DEF Width
<1>2. CASE k \notin Arrows
  <2>1. PICK b \in ByteValues : Bytes(k) = <<b>>
    BY <1>2, OtherBytes
  <2> QED
    BY <2>1 DEF Width
<1> QED
  BY <1>1, <1>2

\* uart_decode_byte goes through the bytes of a key and returns it at the last.
LEMMA DecodeKey ==
  ASSUME NEW k \in PlainKeys, uart_esc_state \in 0..2, uart_esc_state < Width(k)
  PROVE  /\ uart_esc_state + 1 = Width(k) =>
              Decode(Bytes(k)[uart_esc_state + 1]) = <<k, 0>>
         /\ uart_esc_state + 1 < Width(k) =>
              Decode(Bytes(k)[uart_esc_state + 1]) = <<None, uart_esc_state + 1>>
<1>1. CASE k \in Arrows
  <2>1. PICK b \in {"A", "B", "C", "D"} :
          /\ Bytes(k) = <<"ESC", "[", b>>
          /\ uart_esc_state = 2 => Decode(b) = <<k, 0>>
    BY <1>1, ArrowBytes
  <2>2. Width(k) = 3 /\ Bytes(k)[1] = "ESC" /\ Bytes(k)[2] = "[" /\ Bytes(k)[3] = b
    BY <2>1 DEF Width
  <2>3. /\ uart_esc_state = 0 => Decode("ESC") = <<None, 1>>
        /\ uart_esc_state = 1 => Decode("[") = <<None, 2>>
    BY DEF Decode
  <2>4. CASE uart_esc_state = 0
    BY <2>2, <2>3, <2>4
  <2>5. CASE uart_esc_state = 1
    BY <2>2, <2>3, <2>5
  <2>6. CASE uart_esc_state = 2
    BY <2>1, <2>2, <2>6
  <2> QED
    BY <2>4, <2>5, <2>6
<1>2. CASE k \notin Arrows
  <2>1. PICK b \in ByteValues :
          /\ Bytes(k) = <<b>>
          /\ uart_esc_state = 0 => Decode(b) = <<k, 0>>
    BY <1>2, OtherBytes
  <2>2. Width(k) = 1 /\ Bytes(k)[1] = b
    BY <2>1 DEF Width
  <2>3. uart_esc_state = 0
    BY <2>2
  <2> QED
    BY <2>1, <2>2, <2>3
<1> QED
  BY <1>1, <1>2

\* c[i] is the place in r where the bytes of the i-th key of o begin, s bytes of
\* the first one being gone.
IsCut(c, r, o, s) ==
  /\ c \in [1..Len(o)+1 -> Int]
  /\ c[1] = 1 - s /\ c[Len(o) + 1] = Len(r) + 1
  /\ \A i \in 1..Len(o) : c[i + 1] = c[i] + Width(o[i])
  /\ \A i, j \in 1..Len(o)+1 : i < j => c[i] < c[j]
  /\ \A i \in 1..Len(o) : \A p \in 1..Width(o[i]) :
       c[i] + p - 1 \in 1..Len(r) => r[c[i] + p - 1] = Bytes(o[i])[p]

Pending(r, o, s) ==
  /\ r \in Seq(ByteValues) /\ o \in Seq(PlainKeys) /\ s \in 0..2
  /\ s > 0 => o # <<>>
  /\ o # <<>> => s < Width(o[1])
  /\ \E c : IsCut(c, r, o, s)

LEMMA PendingEmpty ==
  ASSUME NEW o, NEW s, NEW r, Pending(r, o, s), r = <<>>
  PROVE  o = <<>>
<1> SUFFICES ASSUME o # <<>> PROVE FALSE
  OBVIOUS
<1>1. PICK c : IsCut(c, r, o, s)
  BY DEF Pending
<1>2. Len(r) = 0 /\ Len(o) \in Nat \ {0} /\ o[1] \in PlainKeys /\ Width(o[1]) \in {1, 3}
  BY EmptySeq, KeyShape DEF Pending
<1>3. c[2] = 1 - s + Width(o[1]) /\ c[Len(o) + 1] = 1
  BY <1>1, <1>2 DEF IsCut
<1>4. Len(o) + 1 = 2 \/ c[2] < c[Len(o) + 1]
  BY <1>1, <1>2 DEF IsCut
<1>5. c[2] \in Int /\ s \in 0..2 /\ s < Width(o[1])
  BY <1>1, <1>2 DEF IsCut, Pending
<1> QED
  BY <1>2, <1>3, <1>4, <1>5

LEMMA PendingFirst ==
  ASSUME NEW o, NEW s, NEW r, Pending(r, o, s), r # <<>>
  PROVE  o # <<>> /\ o[1] \in PlainKeys /\ s < Width(o[1]) /\ r[1] = Bytes(o[1])[s + 1]
<1>1. PICK c : IsCut(c, r, o, s)
  BY DEF Pending
<1>2. Len(r) \in Nat \ {0} /\ Len(o) \in Nat /\ s \in 0..2
  BY EmptySeq DEF Pending
<1>3. Len(o) # 0
  <2> SUFFICES ASSUME Len(o) = 0 PROVE FALSE
    OBVIOUS
  <2>1. c[1] = 1 - s /\ c[1] = Len(r) + 1
    BY <1>1, <1>2 DEF IsCut
  <2> QED
    BY <1>2, <2>1
<1>4. o # <<>> /\ o[1] \in PlainKeys /\ s < Width(o[1]) /\ Width(o[1]) \in {1, 3}
  BY <1>2, <1>3, EmptySeq, KeyShape DEF Pending
<1>5. 1 \in 1..Len(o) /\ s + 1 \in 1..Width(o[1]) /\ c[1] + (s + 1) - 1 = 1 /\ 1 \in 1..Len(r)
  BY <1>1, <1>2, <1>3, <1>4 DEF IsCut
<1>6. c[1] + (s + 1) - 1 \in 1..Len(r) => r[c[1] + (s + 1) - 1] = Bytes(o[1])[s + 1]
  BY <1>1, <1>5 DEF IsCut
<1> QED
  BY <1>4, <1>5, <1>6

\* A byte that does not finish its key.
LEMMA PendingByte ==
  ASSUME NEW o, NEW s, NEW r, Pending(r, o, s), r # <<>>, s + 1 < Width(o[1])
  PROVE  Pending(Tail(r), o, s + 1)
<1>1. PICK c : IsCut(c, r, o, s)
  BY DEF Pending
<1>2. /\ Len(r) \in Nat \ {0} /\ Len(o) \in Nat \ {0} /\ s \in 0..2 /\ o \in Seq(PlainKeys)
      /\ Width(o[1]) \in {1, 3}
  BY PendingFirst, EmptySeq, KeyShape DEF Pending
<1>3. /\ Tail(r) \in Seq(ByteValues) /\ Len(Tail(r)) = Len(r) - 1
      /\ \A p \in 1..Len(r)-1 : Tail(r)[p] = r[p + 1]
  BY <1>2 DEF Pending
<1> DEFINE d == [i \in 1..Len(o)+1 |-> c[i] - 1]
<1>4. c \in [1..Len(o)+1 -> Int] /\ \A i \in 1..Len(o) : Width(o[i]) \in {1, 3}
  <2>1. \A i \in 1..Len(o) : o[i] \in PlainKeys
    BY <1>2
  <2>2. c \in [1..Len(o)+1 -> Int]
    BY <1>1 DEF IsCut
  <2> QED
    BY <2>1, <2>2, KeyShape
<1>5. d \in [1..Len(o)+1 -> Int] /\ \A i \in 1..Len(o)+1 : d[i] = c[i] - 1
  BY <1>4
<1> HIDE DEF d
<1>6. d[1] = 1 - (s + 1) /\ d[Len(o) + 1] = Len(Tail(r)) + 1
  BY <1>1, <1>2, <1>3, <1>4, <1>5, SMTT(30) DEF IsCut
<1>7. /\ \A i \in 1..Len(o) : d[i + 1] = d[i] + Width(o[i])
      /\ \A i, j \in 1..Len(o)+1 : i < j => d[i] < d[j]
  <2>1. ASSUME NEW i \in 1..Len(o) PROVE d[i + 1] = d[i] + Width(o[i])
    <3>1. c[i + 1] = c[i] + Width(o[i])
      BY <1>1 DEF IsCut
    <3>2. /\ c[i] \in Int /\ c[i + 1] \in Int /\ Width(o[i]) \in {1, 3}
          /\ d[i] = c[i] - 1 /\ d[i + 1] = c[i + 1] - 1
      BY <1>2, <1>4, <1>5, SMTT(30)
    <3> QED
      BY <3>1, <3>2
  <2>2. ASSUME NEW i \in 1..Len(o)+1, NEW j \in 1..Len(o)+1, i < j PROVE d[i] < d[j]
    <3>1. c[i] < c[j]
      BY <1>1, <2>2 DEF IsCut
    <3>2. c[i] \in Int /\ c[j] \in Int /\ d[i] = c[i] - 1 /\ d[j] = c[j] - 1
      BY <1>4, <1>5
    <3> QED
      BY <3>1, <3>2
  <2> QED
    BY <2>1, <2>2
<1>8. ASSUME NEW i \in 1..Len(o), NEW p \in 1..Width(o[i]), d[i] + p - 1 \in 1..Len(Tail(r))
      PROVE  Tail(r)[d[i] + p - 1] = Bytes(o[i])[p]
  <2>1. c[i] \in Int /\ d[i] = c[i] - 1 /\ p \in Int
    BY <1>2, <1>4, <1>5
  <2>2. d[i] + p - 1 + 1 = c[i] + p - 1 /\ c[i] + p - 1 \in 1..Len(r)
        /\ d[i] + p - 1 \in 1..Len(r)-1
    <3>1. d[i] + p - 1 \in 1..Len(r)-1
      BY <1>3, <1>8
    <3>2. d[i] + p - 1 + 1 = c[i] + p - 1
      BY <2>1
    <3>3. \A x \in 1..Len(r)-1 : x + 1 \in 1..Len(r)
      BY <1>2
    <3>4. d[i] + p - 1 + 1 \in 1..Len(r)
      BY <3>1, <3>3
    <3> QED
      BY <3>1, <3>2, <3>4
  <2>3. Tail(r)[d[i] + p - 1] = r[c[i] + p - 1]
    BY <1>3, <2>2
  <2> QED
    BY <1>1, <2>2, <2>3 DEF IsCut
<1>9. IsCut(d, Tail(r), o, s + 1)
  BY <1>5, <1>6, <1>7, <1>8 DEF IsCut
<1> QED
  BY <1>2, <1>3, <1>9 DEF Pending

\* A byte that finishes its key.
LEMMA PendingKey ==
  ASSUME NEW o, NEW s, NEW r, Pending(r, o, s), r # <<>>, s + 1 = Width(o[1])
  PROVE  Pending(Tail(r), Tail(o), 0)
<1>1. PICK c : IsCut(c, r, o, s)
  BY DEF Pending
<1>2. /\ Len(r) \in Nat \ {0} /\ Len(o) \in Nat \ {0} /\ s \in 0..2 /\ o \in Seq(PlainKeys)
      /\ Width(o[1]) \in {1, 3}
  BY PendingFirst, EmptySeq, KeyShape DEF Pending
<1>3. /\ Tail(r) \in Seq(ByteValues) /\ Len(Tail(r)) = Len(r) - 1
      /\ \A p \in 1..Len(r)-1 : Tail(r)[p] = r[p + 1]
  BY <1>2 DEF Pending
<1>4. /\ Tail(o) \in Seq(PlainKeys) /\ Len(Tail(o)) = Len(o) - 1
      /\ \A i \in 1..Len(o)-1 : Tail(o)[i] = o[i + 1]
  BY <1>2
<1> DEFINE d == [i \in 1..Len(Tail(o))+1 |-> c[i + 1] - 1]
<1>5. c \in [1..Len(o)+1 -> Int] /\ \A i \in 1..Len(o) : Width(o[i]) \in {1, 3}
  BY <1>1, <1>2, KeyShape, SMTT(30) DEF IsCut
<1>6. /\ d \in [1..Len(Tail(o))+1 -> Int]
      /\ \A i \in 1..Len(Tail(o))+1 : i + 1 \in 1..Len(o)+1 /\ d[i] = c[i + 1] - 1
      /\ \A i \in 1..Len(Tail(o)) : i + 1 \in 1..Len(o) /\ Tail(o)[i] = o[i + 1]
  BY <1>2, <1>4, <1>5
<1> HIDE DEF d
<1>7. d[1] = 1 - 0 /\ d[Len(Tail(o)) + 1] = Len(Tail(r)) + 1
  <2>1. c[2] = c[1] + Width(o[1]) /\ c[1] = 1 - s /\ c[Len(o) + 1] = Len(r) + 1
    BY <1>1, <1>2 DEF IsCut
  <2>2. d[1] = c[2] - 1 /\ d[Len(o)] = c[Len(o) + 1] - 1
    BY <1>2, <1>4, <1>6
  <2> QED
    BY <1>2, <1>3, <1>4, <2>1, <2>2
<1>8. \A i \in 1..Len(Tail(o)) : d[i + 1] = d[i] + Width(Tail(o)[i])
  <2> SUFFICES ASSUME NEW i \in 1..Len(Tail(o)) PROVE d[i + 1] = d[i] + Width(Tail(o)[i])
    OBVIOUS
  <2>1. i + 1 \in 1..Len(o) /\ Tail(o)[i] = o[i + 1] /\ i \in Int
    BY <1>6
  <2>2. c[(i + 1) + 1] = c[i + 1] + Width(o[i + 1])
    BY <1>1, <2>1 DEF IsCut
  <2>3. d[i + 1] = c[(i + 1) + 1] - 1 /\ d[i] = c[i + 1] - 1
    BY <1>2, <1>4, <1>6, <2>1
  <2>4. c[i + 1] \in Int /\ Width(o[i + 1]) \in Int
    BY <1>2, <1>5, <2>1, SMTT(30)
  <2> QED
    BY <2>1, <2>2, <2>3, <2>4
<1>9. \A i, j \in 1..Len(Tail(o))+1 : i < j => d[i] < d[j]
  <2> SUFFICES ASSUME NEW i \in 1..Len(Tail(o))+1, NEW j \in 1..Len(Tail(o))+1, i < j
               PROVE  d[i] < d[j]
    OBVIOUS
  <2>1. /\ i + 1 \in 1..Len(o)+1 /\ j + 1 \in 1..Len(o)+1 /\ i + 1 < j + 1
        /\ d[i] = c[i + 1] - 1 /\ d[j] = c[j + 1] - 1
    BY <1>2, <1>4, <1>6
  <2>2. c[i + 1] < c[j + 1]
    BY <1>1, <2>1 DEF IsCut
  <2>3. c[i + 1] \in Int /\ c[j + 1] \in Int
    BY <1>5, <2>1
  <2> QED
    BY <2>1, <2>2, <2>3
<1>10. ASSUME NEW i \in 1..Len(Tail(o)), NEW p \in 1..Width(Tail(o)[i]),
              d[i] + p - 1 \in 1..Len(Tail(r))
       PROVE  Tail(r)[d[i] + p - 1] = Bytes(Tail(o)[i])[p]
  <2>1. i + 1 \in 1..Len(o) /\ Tail(o)[i] = o[i + 1] /\ p \in 1..Width(o[i + 1])
    BY <1>6
  <2>2. c[i + 1] \in Int /\ d[i] = c[i + 1] - 1 /\ Width(o[i + 1]) \in {1, 3}
    <3>1. i \in 1..Len(Tail(o))+1 /\ i + 1 \in 1..Len(o)+1
      BY <1>2, <1>4, <2>1
    <3> QED
      BY <1>5, <1>6, <2>1, <3>1
  <2>3. d[i] + p - 1 + 1 = c[i + 1] + p - 1 /\ c[i + 1] + p - 1 \in 1..Len(r)
        /\ d[i] + p - 1 \in 1..Len(r)-1
    <3>1. d[i] + p - 1 \in 1..Len(r)-1
      BY <1>3, <1>10
    <3>2. d[i] + p - 1 + 1 = c[i + 1] + p - 1
      BY <2>1, <2>2
    <3>3. \A x \in 1..Len(r)-1 : x + 1 \in 1..Len(r)
      BY <1>2
    <3>4. d[i] + p - 1 + 1 \in 1..Len(r)
      BY <3>1, <3>3
    <3> QED
      BY <3>1, <3>2, <3>4
  <2>4. Tail(r)[d[i] + p - 1] = r[c[i + 1] + p - 1]
    BY <1>3, <2>3
  <2>5. r[c[i + 1] + p - 1] = Bytes(o[i + 1])[p]
    BY <1>1, <2>1, <2>3 DEF IsCut
  <2> QED
    BY <2>1, <2>4, <2>5
<1>11. IsCut(d, Tail(r), Tail(o), 0)
  BY <1>6, <1>7, <1>8, <1>9, <1>10 DEF IsCut
<1>12. Tail(o) # <<>> => 0 < Width(Tail(o)[1])
  <2> SUFFICES ASSUME Tail(o) # <<>> PROVE 0 < Width(Tail(o)[1])
    OBVIOUS
  <2>1. 1 \in 1..Len(Tail(o))
    BY <1>4, EmptySeq
  <2>2. Tail(o)[1] \in PlainKeys
    BY <1>4, <2>1
  <2> QED
    BY <2>2, KeyShape
<1> QED
  BY <1>3, <1>4, <1>11, <1>12 DEF Pending

\* A key more.
LEMMA PendingTyped ==
  ASSUME NEW o, NEW s, NEW r, Pending(r, o, s), NEW k \in PlainKeys
  PROVE  Pending(r \o Bytes(k), Append(o, k), s)
<1>1. PICK c : IsCut(c, r, o, s)
  BY DEF Pending
<1>2. /\ Len(r) \in Nat /\ Len(o) \in Nat /\ s \in 0..2 /\ o \in Seq(PlainKeys)
      /\ r \in Seq(ByteValues) /\ Bytes(k) \in Seq(ByteValues) /\ Width(k) \in {1, 3}
  BY KeyShape DEF Pending
<1> DEFINE R == r \o Bytes(k)
           O == Append(o, k)
           d == [i \in 1..Len(O)+1 |-> IF i = Len(O) + 1 THEN Len(r) + 1 + Width(k) ELSE c[i]]
<1>3. /\ R \in Seq(ByteValues) /\ Len(R) = Len(r) + Width(k)
      /\ \A p \in 1..Len(r) : R[p] = r[p]
      /\ \A p \in 1..Width(k) : R[Len(r) + p] = Bytes(k)[p]
  BY <1>2 DEF Width
<1>4. /\ O \in Seq(PlainKeys) /\ Len(O) = Len(o) + 1
      /\ \A i \in 1..Len(o) : O[i] = o[i]
      /\ O[Len(o) + 1] = k
  BY <1>2
<1>5. /\ c \in [1..Len(o)+1 -> Int] /\ c[1] = 1 - s /\ c[Len(o) + 1] = Len(r) + 1
      /\ \A i \in 1..Len(o) : Width(o[i]) \in {1, 3}
  BY <1>1, <1>2, KeyShape, SMTT(30) DEF IsCut
<1>6. /\ d \in [1..Len(O)+1 -> Int] /\ d[Len(O) + 1] = Len(r) + 1 + Width(k)
      /\ \A i \in 1..Len(o)+1 : d[i] = c[i]
  BY <1>2, <1>4, <1>5
<1> HIDE DEF d, R, O
<1>7. d[1] = 1 - s /\ d[Len(O) + 1] = Len(R) + 1
  BY <1>2, <1>3, <1>5, <1>6
<1>8. \A i \in 1..Len(O) : d[i + 1] = d[i] + Width(O[i])
  <2> SUFFICES ASSUME NEW i \in 1..Len(O) PROVE d[i + 1] = d[i] + Width(O[i])
    OBVIOUS
  <2>1. CASE i \in 1..Len(o)
    BY <1>1, <1>2, <1>4, <1>6, <2>1 DEF IsCut
  <2>2. CASE i = Len(o) + 1
    BY <1>2, <1>4, <1>5, <1>6, <2>2
  <2> QED
    BY <1>2, <1>4, <2>1, <2>2
<1>9. \A i, j \in 1..Len(O)+1 : i < j => d[i] < d[j]
  <2> SUFFICES ASSUME NEW i \in 1..Len(O)+1, NEW j \in 1..Len(O)+1, i < j PROVE d[i] < d[j]
    OBVIOUS
  <2>1. CASE j \in 1..Len(o)+1
    BY <1>1, <1>2, <1>4, <1>6, <2>1, SMTT(30) DEF IsCut
  <2>2. CASE j = Len(O) + 1
    <3>1. i \in 1..Len(o)+1 /\ (i = Len(o) + 1 \/ c[i] < c[Len(o) + 1])
      BY <1>1, <1>2, <1>4, <2>2 DEF IsCut
    <3>2. c[i] \in Int /\ c[i] <= Len(r) + 1
      BY <1>2, <1>5, <3>1
    <3> QED
      BY <1>2, <1>6, <2>2, <3>1, <3>2
  <2> QED
    BY <1>2, <1>4, <2>1, <2>2
<1>10. ASSUME NEW i \in 1..Len(O), NEW p \in 1..Width(O[i]), d[i] + p - 1 \in 1..Len(R)
       PROVE  R[d[i] + p - 1] = Bytes(O[i])[p]
  <2>1. CASE i \in 1..Len(o)
    <3>1. O[i] = o[i] /\ d[i] = c[i] /\ c[i] \in Int /\ Width(o[i]) \in {1, 3} /\ c[i + 1] \in Int
      <4>1. i \in 1..Len(o)+1 /\ i + 1 \in 1..Len(o)+1
        BY <1>2, <2>1
      <4> QED
        BY <1>4, <1>5, <1>6, <2>1, <4>1
    <3>2. c[i + 1] = c[i] + Width(o[i]) /\ c[i + 1] <= Len(r) + 1
      <4>1. i + 1 = Len(o) + 1 \/ c[i + 1] < c[Len(o) + 1]
        <5>1. i + 1 \in 1..Len(o)+1 /\ Len(o) + 1 \in 1..Len(o)+1
              /\ (i + 1 = Len(o) + 1 \/ i + 1 < Len(o) + 1)
          BY <1>2, <2>1
        <5> QED
          BY <1>1, <5>1 DEF IsCut
      <4>2. c[i + 1] = c[i] + Width(o[i])
        BY <1>1, <2>1 DEF IsCut
      <4> QED
        BY <1>2, <1>5, <3>1, <4>1, <4>2, SMTT(30)
    <3>3. p \in 1..Width(o[i]) /\ c[i] + p - 1 \in 1..Len(r)
      BY <1>2, <1>3, <1>10, <3>1, <3>2, SMTT(30)
    <3>4. R[c[i] + p - 1] = r[c[i] + p - 1]
      BY <1>3, <3>3
    <3>5. r[c[i] + p - 1] = Bytes(o[i])[p]
      BY <1>1, <2>1, <3>3 DEF IsCut
    <3> QED
      BY <3>1, <3>4, <3>5
  <2>2. CASE i = Len(o) + 1
    <3>1. O[i] = k /\ d[i] = Len(r) + 1
      BY <1>2, <1>4, <1>5, <1>6, <2>2
    <3>2. p \in 1..Width(k) /\ d[i] + p - 1 = Len(r) + p
      BY <1>2, <3>1
    <3> QED
      BY <1>3, <3>1, <3>2
  <2> QED
    BY <1>2, <1>4, <2>1, <2>2
<1>11. IsCut(d, R, O, s)
  BY <1>6, <1>7, <1>8, <1>9, <1>10 DEF IsCut
<1>12. O # <<>> /\ s < Width(O[1])
  <2>1. CASE o = <<>>
    <3>1. Len(o) = 0 /\ s = 0 /\ O[1] = k
      BY <1>2, <1>4, <2>1, EmptySeq DEF Pending
    <3> QED
      <4>1. O # <<>>
        BY <1>4, <3>1, EmptySeq
      <4>2. s < Width(O[1])
        BY <1>2, <3>1
      <4> QED
        BY <4>1, <4>2
  <2>2. CASE o # <<>>
    <3>1. Len(o) \in Nat \ {0} /\ s < Width(o[1])
      BY <1>2, <2>2, EmptySeq DEF Pending
    <3> QED
      BY <1>4, <3>1, EmptySeq
  <2> QED
    BY <2>1, <2>2
<1> QED
  BY <1>2, <1>3, <1>4, <1>11, <1>12 DEF Pending, R, O

TerminalInv == escaped \in BOOLEAN /\ (~escaped => ~garbled /\ Pending(rx, owed, uart_esc_state))

LEMMA TerminalInit == UiInit => TerminalInv
<1> SUFFICES ASSUME UiInit PROVE TerminalInv
  OBVIOUS
<1>1. rx = <<>> /\ owed = <<>> /\ uart_esc_state = 0 /\ escaped = FALSE /\ garbled = FALSE
  BY DEF UiInit
<1>2. IsCut([i \in 1..1 |-> 1], <<>>, <<>>, 0)
  BY EmptySeq DEF IsCut
<1>3. Pending(<<>>, <<>>, 0)
  BY <1>2, EmptySeq DEF Pending
<1> QED
  BY <1>1, <1>3 DEF TerminalInv

LEMMA TerminalType ==
  ASSUME TerminalInv, NEW k \in TermKeys, TypeKey(k)
  PROVE  TerminalInv'
<1>1. CASE escaped \/ k = "esc"
  BY <1>1 DEF TypeKey, TerminalInv
<1>2. CASE ~escaped /\ k # "esc"
  <2>1. k \in PlainKeys /\ ~garbled /\ Pending(rx, owed, uart_esc_state)
    BY <1>2 DEF PlainKeys, TerminalInv
  <2>2. Pending(rx', owed', uart_esc_state')
    BY <2>1, PendingTyped DEF TypeKey
  <2> QED
    BY <1>2, <2>1, <2>2 DEF TypeKey, TerminalInv
<1> QED
  BY <1>1, <1>2 DEF TerminalInv

LEMMA TerminalPoll == ASSUME TerminalInv, PollUart PROVE TerminalInv'
<1>1. CASE escaped
  BY <1>1 DEF PollUart, TerminalInv
<1>2. CASE ~escaped /\ ~(uart_enabled /\ rx # <<>>)
  BY <1>2 DEF PollUart, TerminalInv
<1>3. CASE ~escaped /\ uart_enabled /\ rx # <<>>
  <2> DEFINE s == uart_esc_state
             k == owed[1]
             d == Decode(Head(rx))
  <2>1. ~garbled /\ Pending(rx, owed, s) /\ rx \in Seq(ByteValues) /\ owed \in Seq(PlainKeys)
        /\ s \in 0..2
    BY <1>3 DEF TerminalInv, Pending
  <2>2. owed # <<>> /\ k \in PlainKeys /\ s < Width(k) /\ rx[1] = Bytes(k)[s + 1]
    BY <1>3, <2>1, PendingFirst
  <2>3. Head(rx) = Bytes(k)[s + 1] /\ Head(owed) = k /\ Width(k) \in {1, 3}
    BY <1>3, <2>1, <2>2, KeyShape
  <2>4. /\ rx' = Tail(rx) /\ uart_esc_state' = d[2] /\ UNCHANGED escaped
        /\ owed' = IF d[1] = None THEN owed ELSE Tail(owed)
        /\ garbled' = (d[1] # None /\ k # d[1])
    BY <1>3, <2>1, <2>2, <2>3 DEF PollUart
  <2>5. CASE s + 1 < Width(k)
    <3>1. d = <<None, s + 1>>
      BY <2>1, <2>2, <2>3, <2>5, DecodeKey
    <3>2. d[1] = None /\ d[2] = s + 1
      BY <3>1
    <3>3. Pending(Tail(rx), owed, s + 1)
      BY <1>3, <2>1, <2>5, PendingByte
    <3> QED
      BY <1>3, <2>4, <3>2, <3>3 DEF TerminalInv
  <2>6. CASE s + 1 = Width(k)
    <3>1. d = <<k, 0>>
      BY <2>1, <2>2, <2>3, <2>6, DecodeKey
    <3>2. d[1] = k /\ d[2] = 0 /\ k # None
      BY <2>2, <3>1, TermKeysAssumption DEF PlainKeys, None
    <3>3. Pending(Tail(rx), Tail(owed), 0)
      BY <1>3, <2>1, <2>6, PendingKey
    <3> QED
      BY <1>3, <2>4, <3>2, <3>3 DEF TerminalInv
  <2> QED
    BY <2>1, <2>2, <2>3, <2>5, <2>6
<1> QED
  BY <1>1, <1>2, <1>3

LEMMA TerminalStep == ASSUME TerminalInv, [UiNext]_uiVars PROVE TerminalInv'
<1>1. CASE UiWire \/ GfxStep \/ HidStep \/ MenuRun \/ Confirm \/ Message \/ PickFile \/ Snap
           \/ RenderUart \/ RenderGfx \/ PollHid \/ HandleKey \/ UNCHANGED uiVars
  <2>1. UNCHANGED termVars
    BY <1>1 DEF UiWire, GfxStep, HidStep, MenuRun, Confirm, Message, PickFile, Opens, Snap,
                RenderUart, RenderGfx, PollHid, HandleKey, uiVars
  <2>2. UNCHANGED <<rx, owed, uart_esc_state, escaped, garbled>>
    BY <2>1 DEF termVars
  <2> QED
    BY <2>2 DEF TerminalInv
<1> QED
  BY <1>1, TerminalType, TerminalPoll DEF UiNext

\* uart_decode_byte returns every key pressed at the terminal once and in order,
\* however the bytes of sequences and the keyboard's polls interleave, and has
\* returned them all when no byte is left, as long as nobody has pressed Esc.
THEOREM TerminalKeysInOrderHolds == UiSpec => []TerminalKeysInOrder
<1>1. UiInit => TerminalInv
  BY TerminalInit
<1>2. TerminalInv /\ [UiNext]_uiVars => TerminalInv'
  BY TerminalStep
<1>3. TerminalInv => TerminalKeysInOrder
  BY PendingEmpty DEF TerminalInv, TerminalKeysInOrder
<1> QED
  BY <1>1, <1>2, <1>3, PTL DEF UiSpec
=============================================================================
