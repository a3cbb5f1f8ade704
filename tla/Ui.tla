--------------------------------- MODULE Ui --------------------------------
(***************************************************************************)
(* Menus and dialogs (ui.c) on the UART terminal, the graphics surface and *)
(* the keyboard.                                                           *)
(*                                                                         *)
(* Every dialog is a menu of `count` items with a cursor and a set of      *)
(* disabled ones; item i has id i.  The terminal shows `term`, the cursor  *)
(* as last rendered there.  A key pressed at the terminal is a string of   *)
(* bytes; `owed` are the keys pressed there and not yet returned by the    *)
(* decoder.                                                                *)
(***************************************************************************)
EXTENDS Gfx, Hid

CONSTANTS MaxItems,      \* items of a menu; UI_PICK_MAX
          TermKeys,      \* keys pressed at the terminal
          MaxTyped,      \* how many of them
          MaxInputs      \* key presses, key changes, frames, set-ups: altogether

ASSUME UiAssumption == MaxItems \in Nat \ {0} /\ MaxTyped \in Nat
                         /\ MaxInputs \in Nat

\* Keys are not called what their bytes are called, nor "no key".
ASSUME TermKeysAssumption == TermKeys \cap {"ESC", "CR", "DEL", "none"} = {}

VARIABLES
  uart_enabled, gfx_enabled,
  pc, count, disabled, selected, key,
  rx, uart_esc_state,
  term, typed, owed, escaped, garbled

menuVars == <<count, disabled, selected>>
termVars == <<rx, uart_esc_state, typed, owed, escaped, garbled>>
uiVars == <<gfxVars, hidVars, uart_enabled, gfx_enabled, pc, menuVars, key, termVars,
            term>>

Items == 0..count-1
MenuPicture == <<"menu", selected>>
None == "none"

UiInit ==
  /\ GfxInit /\ HidInit
  /\ uart_enabled = FALSE /\ gfx_enabled = FALSE
  /\ pc = "app" /\ count = 0 /\ disabled = {} /\ selected = 0
  /\ key = None
  /\ rx = <<>> /\ uart_esc_state = 0
  /\ term = -1 /\ typed = 0 /\ owed = <<>> /\ escaped = FALSE /\ garbled = FALSE

\* One more input from outside.
MayCome == typed + changes + frame + inits < MaxInputs

-----------------------------------------------------------------------------
(***************************************************************************)
(* Input.                                                                  *)
(***************************************************************************)

\* What a terminal sends (external).
Bytes(k) ==
  CASE k = "up" -> <<"ESC", "[", "A">>
    [] k = "down" -> <<"ESC", "[", "B">>
    [] k = "right" -> <<"ESC", "[", "C">>
    [] k = "left" -> <<"ESC", "[", "D">>
    [] k = "esc" -> <<"ESC">>
    [] k = "enter" -> <<"CR">>
    [] k = "back" -> <<"DEL">>
    [] OTHER -> <<k>>

\* Variant: an arrow leaves the decoder inside the sequence.
DecodeStaysInside(b) ==
  CASE uart_esc_state = 0 -> IF b = "ESC" THEN <<None, 1>> ELSE <<"enter", 0>>
    [] uart_esc_state = 1 -> IF b = "[" THEN <<None, 2>> ELSE <<"esc", 0>>
    [] OTHER -> <<"up", 2>>

\* uart_decode_byte: the key, and the next state.
Decode(b) ==
  CASE uart_esc_state = 0 ->
         (CASE b = "ESC" -> <<None, 1>>
            [] b = "CR" -> <<"enter", 0>>
            [] b = "DEL" -> <<"back", 0>>
            [] OTHER -> <<b, 0>>)
    [] uart_esc_state = 1 -> IF b = "[" THEN <<None, 2>> ELSE <<"esc", 0>>
    [] OTHER ->
         (CASE b = "A" -> <<"up", 0>>
            [] b = "B" -> <<"down", 0>>
            [] b = "C" -> <<"right", 0>>
            [] b = "D" -> <<"left", 0>>
            [] OTHER -> <<None, 0>>)

TypeKey(k) ==
  /\ typed < MaxTyped /\ MayCome
  /\ typed' = typed + 1
  /\ rx' = rx \o Bytes(k) /\ owed' = Append(owed, k)
  /\ escaped' = (escaped \/ k = "esc")
  /\ UNCHANGED <<gfxVars, hidVars, uart_enabled, gfx_enabled, pc, menuVars, key,
                 uart_esc_state, garbled, term>>

\* uart_poll_key, then, if there is no key yet, hid_poll_key.
GoesOn(k) == IF k # None THEN "key" ELSE IF gfx_enabled THEN "hid" ELSE "poll"

PollUart ==
  /\ pc = "poll"
  /\ IF uart_enabled /\ rx # <<>>
     THEN LET d == Decode(Head(rx)) IN
          /\ rx' = Tail(rx)
          /\ key' = d[1] /\ uart_esc_state' = d[2]
          /\ owed' = IF d[1] = None \/ owed = <<>> THEN owed ELSE Tail(owed)
          /\ garbled' = (garbled \/ (d[1] # None /\ (owed = <<>> \/ Head(owed) # d[1])))
     ELSE key' = None /\ UNCHANGED <<rx, uart_esc_state, owed, garbled>>
  /\ pc' = GoesOn(key')
  /\ UNCHANGED <<gfxVars, hidVars, uart_enabled, gfx_enabled, menuVars, typed, escaped,
                 term>>

\* The menu has no keyboard to poll: u->kb is NULL or not initialised.  A program
\* that does not poll an attached keyboard does not give it to its menus.
NoKeyboard == ~initialised \/ (attached /\ ~PollsAttached)

\* hid_poll_key: hid_capture_cb keeps the first press of a poll.
PollHid ==
  /\ pc = "hid"
  /\ \/ /\ poll = "none" /\ (NoKeyboard \/ PollEmpty)
        /\ key' = None /\ pc' = "poll"
        /\ UNCHANGED <<prev, pollVars, heard, reports, faults, behind>>
     \/ poll = "none" /\ ~NoKeyboard /\ PollFault /\ key' = None /\ pc' = "poll"
     \/ poll = "none" /\ ~NoKeyboard /\ PollFetch /\ UNCHANGED <<key, pc>>
     \/ /\ PollTell /\ UNCHANGED pc
        /\ IF Presses(report) = {} THEN key' = None ELSE key' \in Presses(report)
     \/ PollKeep /\ UNCHANGED key /\ pc' = IF key = None THEN "poll" ELSE "key"
  /\ UNCHANGED <<gfxVars, initialised, attached, down, changes, uart_enabled, gfx_enabled,
                 menuVars, termVars, term>>

-----------------------------------------------------------------------------
(***************************************************************************)
(* ui_menu_run.                                                            *)
(***************************************************************************)

\* Variant: one step only, onto whatever is there.
SkipDisabledNot(from, dir) == from

\* skip_disabled: the first enabled item from `from` on, in direction dir.
SkipDisabled(from, dir) ==
  LET at(n) == (from + dir * n + count * count) % count
      hits == {n \in 0..count-1 : at(n) \notin disabled}
  IN IF hits = {} THEN from ELSE at(CHOOSE n \in hits : \A m \in hits : n <= m)

\* A dialog opens: ui_menu_run, with any cursor; ui_confirm; ui_message; and
\* ui_pick_file over the files that match, at most MaxItems, or, for an empty
\* directory, the message "(no files)".
Opens(n, off, cursor) ==
  /\ pc = "app" /\ half = "none"
  /\ count' = n /\ disabled' = off
  /\ selected' = cursor
  /\ pc' = "snap" /\ key' = None
  /\ UNCHANGED <<gfxVars, hidVars, uart_enabled, gfx_enabled, termVars, term>>

MenuRun == \E off \in SUBSET (0..MaxItems-1), c \in 0..MaxItems : Opens(MaxItems, off, c)
Confirm == Opens(2, {}, 0)
Message == Opens(1, {}, 0)
PickFile ==
  \E n \in 0..MaxItems :
    IF n = 0 THEN Opens(1, {}, 0) ELSE Opens(n, {}, 0)

Snap ==
  /\ pc = "snap" /\ pc' = "uart"
  /\ selected' = SkipDisabled(IF selected >= count THEN 0 ELSE selected, 1)
  /\ UNCHANGED <<gfxVars, hidVars, uart_enabled, gfx_enabled, count, disabled, key,
                 termVars, term>>

RenderUart ==
  /\ pc = "uart" /\ pc' = "gfx"
  /\ term' = IF uart_enabled THEN selected ELSE term
  /\ UNCHANGED <<gfxVars, hidVars, uart_enabled, gfx_enabled, menuVars, key, termVars>>

\* render_gfx: the grid, then gfx_text_render through g->vram.
RenderGfx ==
  /\ pc = "gfx" /\ pc' = "poll"
  /\ IF gfx_enabled /\ backend # "none" THEN TextRender(MenuPicture) ELSE UNCHANGED page
  /\ UNCHANGED <<machine, backend, vram, bochsVars, host, asked, piecemeal, inits, frame, half,
                 hidVars, uart_enabled, gfx_enabled, menuVars, key, termVars, term>>

\* ui_menu_run returns, with the item's id or -1; the menu was the caller's.
Returns ==
  /\ pc' = "app" /\ term' = -1
  /\ count' = 0 /\ disabled' = {} /\ selected' = 0

\* The switch on the key.
HandleKey ==
  /\ pc = "key" /\ key' = None
  /\ \/ /\ key \in {"up", "down"}
        /\ selected' = IF key = "up" THEN SkipDisabled((selected + count - 1) % count, -1)
                                     ELSE SkipDisabled((selected + 1) % count, 1)
        /\ pc' = "uart" /\ UNCHANGED <<count, disabled, term>>
     \/ key \in {"enter", "right"} /\ selected \notin disabled /\ Returns
     \/ key \in {"esc", "back"} /\ Returns
     \/ /\ \/ key \notin {"up", "down", "enter", "right", "esc", "back"}
           \/ key \in {"enter", "right"} /\ selected \in disabled
        /\ pc' = "uart" /\ UNCHANGED <<menuVars, term>>
  /\ UNCHANGED <<gfxVars, hidVars, uart_enabled, gfx_enabled, termVars>>

-----------------------------------------------------------------------------
(***************************************************************************)
(* Wiring, the application, and the specification.                         *)
(***************************************************************************)

\* ui_init_uart and ui_init_gfx.
UiWire ==
  /\ pc = "app"
  /\ \/ ~uart_enabled /\ uart_enabled' = TRUE /\ UNCHANGED gfx_enabled
     \/ ~gfx_enabled /\ gfx_enabled' = TRUE /\ UNCHANGED uart_enabled
  /\ UNCHANGED <<gfxVars, hidVars, pc, menuVars, key, termVars, term>>

GfxStep ==
  /\ pc = "app"
  /\ \/ MayCome /\ (GfxInitFdt \/ DrawUpper)
     \/ EnableDoubleBuffer \/ DrawLower \/ FinishFrame
  /\ UNCHANGED <<hidVars, uart_enabled, gfx_enabled, pc, menuVars, key, termVars, term>>

HidStep ==
  /\ \/ pc = "app" /\ (KbInit \/ IrqAttach)
     \/ IrqPoll
     \/ MayCome /\ (\E k \in Keys : KeyChange(k))
  /\ UNCHANGED <<gfxVars, uart_enabled, gfx_enabled, pc, menuVars, key, termVars, term>>

UiNext ==
  \/ UiWire \/ GfxStep \/ HidStep
  \/ (\E k \in TermKeys : TypeKey(k))
  \/ MenuRun \/ Confirm \/ Message \/ PickFile
  \/ Snap \/ RenderUart \/ RenderGfx \/ PollUart \/ PollHid \/ HandleKey

UiSpec == UiInit /\ [][UiNext]_uiVars

-----------------------------------------------------------------------------
(***************************************************************************)
(* Properties.                                                             *)
(***************************************************************************)

Shown == Visible = Whole(MenuPicture)
Waiting == pc \in {"poll", "hid", "key"}

\* While ui_menu_run waits for a key and when it acts on one, every screen it is
\* wired to shows the menu with the cursor where it is, on an item that can be
\* chosen if there is one: on the terminal, and on a surface whose pixels are on
\* display as they are drawn.
ChoosesWhatIsShown ==
  Waiting =>
    /\ uart_enabled => term = selected
    /\ gfx_enabled /\ backend \in {"bochs", "simplefb"} /\ ~asked => Shown
    /\ selected \in Items /\ (selected \in disabled => disabled = Items)

\* uart_decode_byte returns the keys pressed at the terminal once each and in
\* order, whatever keyboard polls come between the bytes of a sequence, and has
\* returned them all when no bytes are left.  Esc is the exception: it is told
\* from a sequence by the byte that follows, which is swallowed.
TerminalKeysInOrder ==
  ~escaped => ~garbled /\ (rx = <<>> => owed = <<>>)
=============================================================================
