------------------------------- MODULE SiVideo ------------------------------
(***************************************************************************)
(* The display of space-invaders.c on the memory of SiMachine.  The video  *)
(* RAM holds the picture of a screen that stands on its side, eight pixels *)
(* to a byte; handle_vram turns it into video_buffer, one colour to a      *)
(* pixel, and gives the buffer to SDL as a texture.                        *)
(***************************************************************************)
EXTENDS SiMachine

CONSTANTS
  SI_VRAM_OFFSET,     \* 0x2400 in the code
  SI_SCREEN_WIDTH,    \* 224 in the code, of the screen as it is seen
  SI_SCREEN_HEIGHT,   \* 256 in the code
  SI_SCREEN_BITS,     \* 7168 in the code: bytes of video RAM
  UfoRow, AliensRow, BarrierRow, LivesRow,   \* 32, 64, 184, 240 of the overlay
  ShipsColumn, CreditsColumn,                \* 16, 102
  color_flag,         \* TRUE from create on: key E assigns color_flag == 1
  Pitches             \* external: the pixels a row may have where SDL locks it

BLACK == "black"
WHITE == "white"
GREEN == "green"
RED   == "red"
CLEAR == "clear"   \* the zeroes of calloc, no colour of the game
OUTSIDE == "outside"   \* whatever lies behind the end of video_buffer

Pixel == 0 .. SI_SCREEN_WIDTH * SI_SCREEN_HEIGHT - 1
VideoByte == 0 .. SI_SCREEN_BITS - 1

ASSUME VideoAssumption ==
  /\ SI_VRAM_OFFSET \in Block .. 2 * Block
  /\ SI_SCREEN_WIDTH \in Nat \ {0}
  /\ SI_SCREEN_HEIGHT \in Nat \ {0} /\ SI_SCREEN_HEIGHT % 8 = 0
  /\ SI_SCREEN_BITS = SI_SCREEN_WIDTH * (SI_SCREEN_HEIGHT \div 8)
  /\ SI_VRAM_OFFSET + SI_SCREEN_BITS <= 2 * Block
  /\ {UfoRow, AliensRow, BarrierRow, LivesRow, ShipsColumn, CreditsColumn} \subseteq Nat
  /\ color_flag \in BOOLEAN
  /\ Pitches \subseteq Nat /\ \A w \in Pitches : w >= SI_SCREEN_WIDTH

VARIABLES
  video_buffer,
  texture,
  frame,    \* history: the video RAM when SDL last took a picture of it
  pitch     \* history: the pixels a row had then

videoVars == <<video_buffer, texture, frame, pitch>>
allVars == <<vars, videoVars>>

\* calloc, and SDL_UpdateTexture with the buffer as calloc left it.
NoFrame == [i \in {} |-> 0]
VideoInit ==
  /\ Init
  /\ video_buffer = [p \in Pixel |-> CLEAR]
  /\ texture = video_buffer
  /\ frame = NoFrame /\ pitch = 0

\* set_pixel: the parts of the overlay that are not white.
Green(cx, cy) ==
  \/ cy >= LivesRow /\ cx >= ShipsColumn /\ cx < CreditsColumn
  \/ cy >= BarrierRow /\ cy < LivesRow
Red(cx, cy) == cy >= UfoRow /\ cy < AliensRow
set_pixel(cx, cy) ==
  CASE Green(cx, cy) -> GREEN
    [] Red(cx, cy) /\ ~Green(cx, cy) -> RED
    [] ~Red(cx, cy) /\ ~Green(cx, cy) -> WHITE

\* Where handle_vram and handle_vram_bit put bit k of byte i of the video RAM:
\* y of the hardware is the column, and x is counted from the bottom row up.
xoff(i)   == (8 * i) % SI_SCREEN_HEIGHT
column(i) == (8 * i) \div SI_SCREEN_HEIGHT

\* Fault: the rows are counted from 1.
row_from_1(i, k) == SI_SCREEN_HEIGHT - (xoff(i) + k)
row(i, k) == SI_SCREEN_HEIGHT - (xoff(i) + k) - 1
off(i, k) == row(i, k) * SI_SCREEN_WIDTH + column(i)

color(cb, i, k) ==
  IF ~Bit(cb, k) THEN BLACK
  ELSE IF color_flag THEN set_pixel(column(i), row(i, k)) ELSE WHITE

\* The two loops: the last byte and bit put at a pixel, <<>> for none, and what
\* that leaves in the buffer.
writer ==
  [p \in Pixel |->
     LET B == {b \in VideoByte \X (0 .. 7) : off(b[1], b[2]) = p}
     IN  IF B = {} THEN <<>>
         ELSE CHOOSE b \in B : \A d \in B : 8 * d[1] + d[2] <= 8 * b[1] + b[2]]
redrawn ==
  [p \in Pixel |->
     IF writer[p] = <<>> THEN video_buffer[p]
     ELSE color(memory[SI_VRAM_OFFSET + writer[p][1]], writer[p][1], writer[p][2])]

\* memcpy of pitch * SI_SCREEN_HEIGHT into a texture whose rows have pitch: what
\* becomes of the pixels that are seen.  Longer rows are read from the wrong
\* place, and from behind the buffer in the end.
copied(buffer, width) ==
  [p \in Pixel |->
     LET from == (p \div SI_SCREEN_WIDTH) * width + (p % SI_SCREEN_WIDTH)
     IN  IF from \in Pixel THEN buffer[from] ELSE OUTSIDE]

\* handle_vram.  SDL may refuse to lock the texture, which then stays.
handle_vram ==
  /\ video_buffer' = redrawn
  /\ \/ /\ pitch' \in Pitches
        /\ texture' = copied(video_buffer', pitch')
        /\ frame' = [i \in VideoByte |-> memory[SI_VRAM_OFFSET + i]]
     \/ UNCHANGED <<texture, frame, pitch>>
  /\ UNCHANGED vars

VideoNext == (Next /\ UNCHANGED videoVars) \/ handle_vram

VideoSpec == VideoInit /\ [][VideoNext]_allVars

-----------------------------------------------------------------------------
\* The hardware shows byte n of the video RAM, bit by bit, at x from 8 * n on in
\* rows of 256; x and y are then the height from the bottom and the column.
Lit(cx, cy) ==
  LET n == cx * SI_SCREEN_HEIGHT + (SI_SCREEN_HEIGHT - 1 - cy)
  IN  Bit(frame[n \div 8], n % 8)

(* "The screen was 256x224 but rotated 90 degrees counter-clockwise": each *)
(* pixel of the picture SDL has is lit just when its bit was set where the *)
(* hardware shows it, all of them as of one moment, if SDL had the rows of *)
(* the screen when it locked the texture.  With longer rows each row is    *)
(* shown from a later pixel on than its own, those of the rows below it,   *)
(* and the last rows show what lies behind the buffer.                     *)
PictureIsMemory ==
  frame # NoFrame =>
    \A cx \in 0 .. SI_SCREEN_WIDTH - 1, cy \in 0 .. SI_SCREEN_HEIGHT - 1 :
      LET p == cy * SI_SCREEN_WIDTH + cx
          from == cy * pitch + cx
      IN  /\ pitch = SI_SCREEN_WIDTH => (texture[p] # BLACK) = Lit(cx, cy)
          /\ pitch > SI_SCREEN_WIDTH =>
               IF from \in Pixel
               THEN (texture[p] # BLACK)
                      = Lit(from % SI_SCREEN_WIDTH, from \div SI_SCREEN_WIDTH)
               ELSE texture[p] = OUTSIDE
=============================================================================
