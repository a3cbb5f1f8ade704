-------------------------------- MODULE Gfx --------------------------------
(***************************************************************************)
(* The graphics surface (gfx.c, bochs.c, gfx_text.c) and what the host     *)
(* shows of it.                                                            *)
(*                                                                         *)
(* A page is a framebuffer's worth of memory with an upper and a lower     *)
(* half, each holding the picture last drawn there; drawing both halves    *)
(* takes two steps between which the host may look.  Bochs has two pages   *)
(* and shows the one Y_OFFSET points at; simple-framebuffer shows page 0;  *)
(* virtio-gpu shows the copy (host) that present makes of page 0.          *)
(***************************************************************************)
EXTENDS Integers, Sequences, FiniteSets

CONSTANTS MaxInits,     \* calls of gfx_init_fdt
          MaxFrames     \* frames the program draws

ASSUME GfxAssumption == MaxInits \in Nat /\ MaxFrames \in Nat

VARIABLES
  machine,              \* the surface the machine has
  backend,              \* g->backend
  vram,                 \* the page g->vram points at
  bd_vram,              \* gfx_bd.vram; back_off_rows says the same
  double_buffered,      \* gfx_bd.double_buffered
  y_offset,             \* the page on display, Bochs
  page, host,
  asked,                \* gfx_enable_double_buffer has returned true
  piecemeal,            \* gfx_rect has presented a part of a frame
  inits, frame, half    \* the program's frame and how much of it is drawn

bochsVars == <<bd_vram, double_buffered, y_offset>>
gfxVars == <<machine, backend, vram, bochsVars, page, host, asked, piecemeal, inits, frame, half>>

Blank == <<"blank", 0>>
Whole(p) == [upper |-> p, lower |-> p]

GfxInit ==
  /\ machine \in {"none", "bochs", "simplefb", "virtio"}
  /\ backend = "none" /\ vram = 0 /\ bd_vram = 0
  /\ double_buffered = FALSE /\ y_offset = 0
  /\ page = [i \in {0, 1} |-> Whole(Blank)] /\ host = Whole(Blank)
  /\ asked = FALSE /\ piecemeal = FALSE /\ inits = 0 /\ frame = 0 /\ half = "none"

\* What the host shows.
Visible ==
  CASE machine = "virtio" -> host
    [] machine = "bochs" -> page[y_offset]
    [] OTHER -> page[0]

-----------------------------------------------------------------------------
(***************************************************************************)
(* The Bochs display.                                                      *)
(***************************************************************************)

\* bochs_init: the mode is set, and enabling it clears the memory.
BochsInit ==
  /\ bd_vram' = 0 /\ double_buffered' = FALSE /\ y_offset' = 0
  /\ page' = [i \in {0, 1} |-> Whole(Blank)]

\* bochs_init says no: without the device or its BARs before it has changed
\* anything, on a wrong ID with gfx_bd blank but the mode registers as they were.
BochsFails ==
  /\ \/ UNCHANGED <<bd_vram, double_buffered>>
     \/ machine = "bochs" /\ bd_vram' = 0 /\ double_buffered' = FALSE
  /\ UNCHANGED <<y_offset, page>>

\* bochs_enable_double_buffer, with memory for two frames.
BochsEnableDoubleBuffer ==
  /\ double_buffered' = TRUE
  /\ IF double_buffered THEN UNCHANGED <<bd_vram, y_offset>> ELSE bd_vram' = 1 /\ y_offset' = 0

\* bochs_flip: the back page goes on display, the pointer to the other one.
BochsFlip == y_offset' = bd_vram /\ bd_vram' = 1 - bd_vram /\ UNCHANGED double_buffered

-----------------------------------------------------------------------------
(***************************************************************************)
(* Setting up, drawing, presenting.                                        *)
(***************************************************************************)

\* gfx_init_fdt, and gfx_init, which only looks for Bochs.  Whatever surface the
\* machine has may be refused; g->vram is then left as it was, and not used.
GfxInitFdt ==
  /\ half = "none" /\ inits < MaxInits
  /\ inits' = inits + 1
  /\ backend' \in {machine, "none"}
  /\ vram' = IF backend' = "none" THEN vram ELSE 0
  /\ IF backend' = "bochs" THEN BochsInit ELSE BochsFails
  /\ asked' = FALSE
  /\ UNCHANGED <<machine, host, piecemeal, frame, half>>

\* Variant: the draw pointer stays on the page on display.
EnableDoubleBufferStale ==
  /\ half = "none" /\ backend = "bochs" /\ BochsEnableDoubleBuffer
  /\ asked' = TRUE
  /\ UNCHANGED <<machine, backend, vram, page, host, piecemeal, inits, frame, half>>

\* gfx_enable_double_buffer.  virtio-gpu says yes and changes nothing;
\* simple-framebuffer refuses.
EnableDoubleBuffer ==
  /\ half = "none" /\ backend \in {"bochs", "virtio"}
  /\ IF backend = "bochs" THEN BochsEnableDoubleBuffer /\ vram' = bd_vram'
                          ELSE UNCHANGED <<bochsVars, vram>>
  /\ asked' = TRUE
  /\ UNCHANGED <<machine, backend, page, host, piecemeal, inits, frame, half>>

\* gfx_present (gfx_present_all): only virtio-gpu has anything to do.
Present == host' = IF backend = "virtio" THEN page'[0] ELSE host

\* gfx_flip.
Flip ==
  IF backend = "bochs" /\ double_buffered
  THEN BochsFlip /\ vram' = bd_vram' /\ UNCHANGED <<page, host>>
  ELSE UNCHANGED <<page, bochsVars, vram>> /\ Present

\* gfx_fill_row: the pixels of one half, at g->vram.
FillRows(h, p) == page' = [page EXCEPT ![vram][h] = p]

\* gfx_text_render: every glyph, through g->vram.
TextRender(p) == page' = [page EXCEPT ![vram] = Whole(p)]

\* gfx_rect and gfx_fill, which end with a present, or the program's own stores
\* through g->vram, which do not.
DrawHalf(h) ==
  /\ backend # "none"
  /\ FillRows(h, <<"frame", frame'>>)
  /\ \/ Present /\ piecemeal' = (piecemeal \/ backend = "virtio")
     \/ UNCHANGED <<host, piecemeal>>
  /\ UNCHANGED <<machine, backend, vram, bochsVars, asked, inits>>

\* The program (external): upper half, lower half, flip.
DrawUpper ==
  /\ half = "none" /\ frame < MaxFrames
  /\ half' = "upper" /\ frame' = frame + 1 /\ DrawHalf("upper")

DrawLower ==
  /\ half = "upper" /\ half' = "both" /\ frame' = frame /\ DrawHalf("lower")

FinishFrame ==
  /\ half = "both" /\ half' = "none" /\ Flip
  /\ UNCHANGED <<machine, backend, asked, piecemeal, inits, frame>>

-----------------------------------------------------------------------------
\* Once gfx_enable_double_buffer has said yes, the host never sees a mix of two
\* frames, through flips, menus and further initialisations (gfx_flip and
\* bochs_flip keep g->vram, back_off_rows and Y_OFFSET in step).  Left out:
\* virtio-gpu drawn with gfx_rect, which presents every rectangle at once.
WholeFrames ==
  asked /\ ~(backend = "virtio" /\ piecemeal) => Visible.upper = Visible.lower
=============================================================================
