-------------------------------- MODULE Oled --------------------------------
(***************************************************************************)
(* The SH1106 driver, oled.c, byte by byte on the bus: the framebuffer,    *)
(* the drawing operations, the flush, the power-up sequence, and the chip  *)
(* itself as the driver's comments describe it, with its page and column   *)
(* pointers, its two-byte commands and the DC pin.  A transfer may fail,   *)
(* and then ESP_ERROR_CHECK restarts the program but not the chip.         *)
(* One caller: presence.c calls the driver with its mutex held.            *)
(***************************************************************************)
EXTENDS Integers, Sequences

CONSTANTS
  OLED_WIDTH, OLED_PAGES, GLYPH_WIDTH,
  PageRows,          \* rows of pixels in a page: 8
  ColumnOffset,      \* columns of the chip's memory left of the panel: 2
  ByteRange,         \* values of a uint8_t: 256
  Glyphs,            \* font.c: what the columns of a glyph are filled with
  NoGlyph,           \* font_get_glyph returned NULL
  Texts,             \* texts that get drawn, sequences of the above
  Noise,             \* a cell of the chip's memory before it is written
  MaxRestarts


VARIABLES
  oled_buffer,   \* OLED_WIDTH * OLED_PAGES columns of eight pixels
  ram,           \* the chip's memory, wider than the panel on both sides
  chip,          \* its page, column, DC pin, settings, and command begun
  at,            \* where the driver is: which byte of which transfer
  restarts

vars == <<oled_buffer, ram, chip, at, restarts>>

Cells == 0 .. OLED_WIDTH * OLED_PAGES - 1
Columns == 0 .. OLED_WIDTH - 1
RamColumns == 0 .. OLED_WIDTH + 2 * ColumnOffset - 1
Pages == 0 .. OLED_PAGES - 1

-----------------------------------------------------------------------------
(* The chip *)

(* Commands that take the next byte as their parameter *)
TwoByte == {\hD5, \hA8, \hD3, \hAD, \hDA, \h81, \hD9, \hDB}
NoCommand == 0

ResetChip == [page |-> 0, column |-> 0, dc |-> 0, on |-> 0,
              begun |-> NoCommand, set |-> [c \in TwoByte |-> 0]]

Command(b) ==
  CASE chip.begun # NoCommand ->
         [chip EXCEPT !.set[chip.begun] = b, !.begun = NoCommand]
    [] chip.begun = NoCommand /\ b \in TwoByte -> [chip EXCEPT !.begun = b]
    [] chip.begun = NoCommand /\ b \in 0 .. 15 ->
         [chip EXCEPT !.column = (@ \div 16) * 16 + b]
    [] chip.begun = NoCommand /\ b \in 16 .. 31 ->
         [chip EXCEPT !.column = (b - 16) * 16 + (@ % 16)]
    [] chip.begun = NoCommand /\ b \in \hB0 .. \hB7 ->
         [chip EXCEPT !.page = b - \hB0]
    [] chip.begun = NoCommand /\ b \in {\hAE, \hAF} ->
         [chip EXCEPT !.on = b - \hAE]
    [] OTHER -> chip

(* oled_send_command, oled_send_data: what the chip makes of them *)
oled_send_command(b) == chip' = [Command(b) EXCEPT !.dc = 0] /\ UNCHANGED ram

oled_send_data(data) ==
  /\ chip' = [chip EXCEPT !.dc = 1, !.column = @ + Len(data)]
  /\ ram' = [ram EXCEPT ![chip.page] =
               [c \in RamColumns |->
                  IF c \in chip.column .. chip.column + Len(data) - 1
                    THEN data[c - chip.column + 1] ELSE @[c]]]

-----------------------------------------------------------------------------
(* oled_init: the reset pin, the sequence, a pause, display on *)

init_sequence ==
  <<\hAE, \hD5, \h80, \hA8, \h3F, \hD3, \h00, \h40, \hAD, \h8B, \hA1, \hC8,
    \hDA, \h12, \h81, \hFF, \hD9, \h1F, \hDB, \h40, \h33, \hA6, \hA4>>

oled_hardware_reset ==
  /\ at = <<"reset">>
  /\ chip' = ResetChip
  /\ at' = <<"init", 1>>
  /\ UNCHANGED <<oled_buffer, ram, restarts>>

oled_init_sh1106 ==
  /\ at[1] = "init"
  /\ IF at[2] <= Len(init_sequence)
       THEN /\ oled_send_command(init_sequence[at[2]])
            /\ at' = <<"init", at[2] + 1>>
       ELSE /\ oled_send_command(\hAF)
            /\ at' = <<"ready">>
  /\ UNCHANGED <<oled_buffer, restarts>>

-----------------------------------------------------------------------------
(* Drawing *)

oled_clear ==
  /\ at = <<"ready">>
  /\ oled_buffer' = [i \in Cells |-> 0]
  /\ UNCHANGED <<ram, chip, at, restarts>>

(* The buffer b with glyph drawn at column x of a page *)
DrawChar(b, x, page, glyph) ==
  IF page >= OLED_PAGES \/ x + GLYPH_WIDTH > OLED_WIDTH THEN b
  ELSE [i \in Cells |->
          IF i - page * OLED_WIDTH - x \in 0 .. GLYPH_WIDTH - 1
            THEN glyph ELSE b[i]]

(* ColumnOf(x, n): the column the n-th character of a text starts at *)
ColumnOf(x, n) == (x + (n - 1) * (GLYPH_WIDTH + 1)) % ByteRange

(* The characters oled_draw_text gets to: none after one past the edge *)
Reached(x, text) ==
  {n \in DOMAIN text : \A m \in 1 .. n - 1 :
     ColumnOf(x, m) + GLYPH_WIDTH <= OLED_WIDTH}

Drawn(x, page, text) ==
  LET upTo[n \in 0 .. Len(text)] ==
        IF n = 0 THEN oled_buffer
        ELSE IF n \in Reached(x, text) /\ text[n] # NoGlyph
               THEN DrawChar(upTo[n - 1], ColumnOf(x, n), page, text[n])
               ELSE upTo[n - 1]
  IN  upTo[Len(text)]

oled_draw_text(x, page, text) ==
  /\ at = <<"ready">>
  /\ oled_buffer' = Drawn(x, page, text)
  /\ UNCHANGED <<ram, chip, at, restarts>>

(* One bit more in its column *)
oled_set_pixel(x, y) ==
  LET i == (y \div PageRows) * OLED_WIDTH + x
      bit == 2 ^ (y % PageRows)
  IN  /\ at = <<"ready">>
      /\ x < OLED_WIDTH /\ y < OLED_PAGES * PageRows
      /\ oled_buffer' = [oled_buffer EXCEPT
           ![i] = IF (@ \div bit) % 2 = 0 THEN @ + bit ELSE @]
      /\ UNCHANGED <<ram, chip, at, restarts>>

oled_turn_off ==
  /\ at = <<"ready">>
  /\ oled_send_command(\hAE)
  /\ UNCHANGED <<oled_buffer, at, restarts>>

-----------------------------------------------------------------------------
(* oled_flush: for each page its address, the column address in two        *)
(* nibbles, and OLED_WIDTH columns of data                                 *)

StartFlush ==
  /\ at = <<"ready">>
  /\ at' = <<"flush", 0, "page">>
  /\ UNCHANGED <<oled_buffer, ram, chip, restarts>>

Row(page) == [i \in 1 .. OLED_WIDTH |-> oled_buffer[page * OLED_WIDTH + i - 1]]

(* One transfer of oled_write_page *)
Transfer(from, to) ==
  /\ at[1] = "flush" /\ at[3] = from
  /\ CASE from = "page" -> oled_send_command(\hB0 + at[2])
       [] from = "low"  -> oled_send_command(\h02)
       [] from = "high" -> oled_send_command(\h10)
       [] from = "data" -> oled_send_data(Row(at[2]))
  /\ at' = IF to # "next" THEN <<"flush", at[2], to>>
           ELSE IF at[2] + 1 < OLED_PAGES THEN <<"flush", at[2] + 1, "page">>
           ELSE <<"ready">>
  /\ UNCHANGED <<oled_buffer, restarts>>

oled_write_page_MutNoColumn ==
  Transfer("page", "data") \/ Transfer("data", "next")

oled_write_page ==
  \/ Transfer("page", "low")
  \/ Transfer("low", "high")
  \/ Transfer("high", "data")
  \/ Transfer("data", "next")

(* A transfer fails: the program starts again, its memory cleared. *)
Restart ==
  /\ at[1] \in {"init", "flush"}
  /\ restarts < MaxRestarts
  /\ restarts' = restarts + 1
  /\ at' = <<"reset">>
  /\ oled_buffer' = [i \in Cells |-> 0]
  /\ UNCHANGED <<ram, chip>>

Init ==
  /\ oled_buffer = [i \in Cells |-> 0]
  /\ ram = [p \in Pages |-> [c \in RamColumns |-> Noise]]
  /\ chip = ResetChip
  /\ at = <<"reset">>
  /\ restarts = 0

Draw ==
  \/ oled_clear
  \/ \E x \in 0 .. ByteRange - 1, page \in 0 .. OLED_PAGES, text \in Texts :
       oled_draw_text(x, page, text)
  \/ \E x \in 0 .. OLED_WIDTH, y \in 0 .. OLED_PAGES * PageRows :
       oled_set_pixel(x, y)

Next ==
  \/ oled_hardware_reset \/ oled_init_sh1106
  \/ Draw \/ StartFlush \/ oled_write_page \/ oled_turn_off
  \/ Restart

Spec == Init /\ [][Next]_vars

-----------------------------------------------------------------------------
(* Properties *)

(* What the panel has in a page *)
Panel(page) == [i \in 1 .. OLED_WIDTH |-> ram[page][ColumnOffset + i - 1]]

(* The pages of the flush under way that have been sent *)
PagesSent == IF at[1] = "flush" THEN 0 .. at[2] - 1 ELSE Pages

(* Every variable keeps its range: oled.c:65-67. *)
TypeOK ==
  /\ DOMAIN oled_buffer = Cells
  /\ \A i \in Cells : oled_buffer[i] \in 0 .. 2 ^ PageRows - 1
  /\ \A p \in Pages : DOMAIN ram[p] = RamColumns
  /\ chip.page \in Pages /\ chip.column \in 0 .. 255 /\ chip.dc \in {0, 1}
  /\ at[1] \in {"reset", "init", "ready", "flush"}

(***************************************************************************)
(* A flush copies the framebuffer to the visible columns of the panel,     *)
(* page by page and none of them shifted or torn, whatever an earlier run  *)
(* left in the chip's pointers and wherever it broke off (oled.c:113-122,  *)
(* 275-284): a property of every step.  Presence's step Flush is its end.   *)
(***************************************************************************)
FlushCopies ==
  at[1] = "flush" /\ restarts' = restarts =>
    \A page \in PagesSent' : Panel(page)' = Row(page)

(***************************************************************************)
(* A text stays in its row: whatever its length and start, drawing changes *)
(* cells of one page only and none outside the framebuffer, although the   *)
(* framebuffer is one array (oled.c:124-133, 286-301).                     *)
(***************************************************************************)
DrawsInRow ==
  \/ UNCHANGED oled_buffer
  \/ \E page \in Pages : \A i \in Cells :
       oled_buffer'[i] # oled_buffer[i] => i \div OLED_WIDTH = page
  \/ oled_buffer' = [i \in Cells |-> 0]

(***************************************************************************)
(* The chip reads the sequence as the comments next to it say: no byte is  *)
(* taken for the parameter of the command before it or the other way       *)
(* round, also after a run that broke off inside a command (oled.c:236).   *)
(***************************************************************************)
Configured ==
  chip.on = 1 =>
    /\ chip.begun = NoCommand
    /\ chip.set[\hD5] = \h80 /\ chip.set[\hA8] = \h3F /\ chip.set[\hD3] = 0
    /\ chip.set[\hAD] = \h8B /\ chip.set[\hDA] = \h12 /\ chip.set[\h81] = \hFF
    /\ chip.set[\hD9] = \h1F /\ chip.set[\hDB] = \h40

(* The panel is dark during the sequence, after a restart as well, when it *)
(* was on before: oled.c:192-198,237.                                      *)
DarkDuringInit == at[1] = "init" => chip.on = 0

(***************************************************************************)
(* "Start with every pixel off" (agent-presence-device.c:35), "prevents    *)
(* garbage during init" (oled.c:237): a panel that is on shows only what   *)
(* the driver has written to it.  It does not hold: see section 6 of the   *)
(* README.                                                                 *)
(***************************************************************************)
NoGarbage ==
  chip.on = 1 => \A page \in Pages, i \in 1 .. OLED_WIDTH : Panel(page)[i] # Noise
=============================================================================
